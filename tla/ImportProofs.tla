---------------------------- MODULE ImportProofs ----------------------------
(***************************************************************************)
(* What the migration importer writes, for workbooks of any length and     *)
(* tables of any size: every upsert keeps the columns of its table and     *)
(* takes no row away (Goes), so what is written of a sheet stays written   *)
(* (ImportInv); and a row of an exact workbook, once it is shown by the    *)
(* tables, is shown by them at the same place for as long as nothing else  *)
(* is imported (Follows), so that writing it again writes nothing          *)
(* (RepeatInv).  Sheets are folds over their rows: the proofs go by        *)
(* induction on the rows written, as an argument about the least number    *)
(* that fails.                                                             *)
(***************************************************************************)
EXTENDS FiniteSetTheorems, TLAPS, Import

-----------------------------------------------------------------------------
(* Rows and keys.                                                          *)

\* A set that has 0 and with each number the next has them all.
LEMMA NatSet == ASSUME NEW S, 0 \in S, \A n \in Nat : n \in S => n + 1 \in S PROVE Nat \subseteq S
<1> DEFINE T == Nat \ S
           R == OpToRel(<, Nat)
<1> SUFFICES ASSUME T # {} PROVE FALSE
  OBVIOUS
<1>1. IsWellFoundedOn(R, Nat)
  BY NatLessThanWellFounded
<1>2. PICK x \in T : \A y \in T : ~ (<<y, x>> \in R)
  <2> HIDE DEF R
  <2>1. T \subseteq Nat
    OBVIOUS
  <2> HIDE DEF T
  <2> QED
    BY <1>1, <2>1, WFMin
<1>3. \A y \in T : ~(y < x)
  BY <1>2 DEF OpToRel
<1>4. x # 0 /\ x - 1 \in Nat /\ x - 1 < x
  OBVIOUS
<1> QED
  BY <1>3, <1>4

\* A set of numbers that is not empty has a least.
LEMMA LeastNat == ASSUME NEW S \in SUBSET Nat, S # {} PROVE \E m \in S : \A n \in S : m <= n
<1> DEFINE R == OpToRel(<, Nat)
<1>1. PICK m \in S : \A n \in S : ~ (<<n, m>> \in R)
  <2> HIDE DEF R
  <2>1. IsWellFoundedOn(R, Nat)
    BY NatLessThanWellFounded DEF R
  <2> QED
    BY <2>1, WFMin
<1>2. \A n \in S : ~(n < m)
  BY <1>1 DEF OpToRel
<1> QED
  BY <1>2

\* What is rounded to cents is not rounded again.
LEMMA CentsAgain == ASSUME NEW a \in Int PROVE Cents(a) \in Cent
<1>1. CASE a >= 0
  <2> DEFINE k == (a + 5) \div 10
  <2>1. k \in Nat
    BY <1>1
  <2> HIDE DEF k
  <2>2. (10 * k + 5) \div 10 = k
    BY <2>1
  <2>3. Cents(a) = k * 10
    BY <1>1 DEF Cents, k
  <2> QED
    BY <2>1, <2>2, <2>3 DEF Cents, Cent
<1>2. CASE a < 0
  <2> DEFINE k == (5 - a) \div 10
  <2>1. k \in Nat
    BY <1>2
  <2> HIDE DEF k
  <2>2. (10 * k + 5) \div 10 = k
    BY <2>1
  <2>3. Cents(a) = -(k * 10)
    BY <1>2 DEF Cents, k
  <2>4. CASE k = 0
    BY <2>3, <2>4 DEF Cents, Cent
  <2>5. CASE k > 0
    <3>1. Cents(-(k * 10)) = -(((5 + k * 10) \div 10) * 10)
      BY <2>1, <2>5 DEF Cents
    <3> QED
      BY <2>1, <2>2, <2>3, <3>1 DEF Cent
  <2> QED
    BY <2>1, <2>4, <2>5
<1> QED
  BY <1>1, <1>2

\* The first row found by the key, or the place after the last.
LEMMA PlaceIs ==
    ASSUME NEW d, NEW t, NEW S, d[t] \in Seq(S), NEW key
    PROVE  /\ Place(d, t, key) \in 1..(Len(d[t]) + 1)
           /\ Place(d, t, key) > Len(d[t]) => Found(d, t, key) = {}
           /\ Place(d, t, key) <= Len(d[t]) =>
                /\ Place(d, t, key) \in Found(d, t, key)
                /\ \A j \in Found(d, t, key) : Place(d, t, key) <= j
<1> DEFINE at == Found(d, t, key)
<1>1. at \subseteq DOMAIN d[t] /\ at \subseteq Nat
  BY DEF Found
<1>2. CASE at = {}
  BY <1>2 DEF Place
<1>3. CASE at # {}
  <2>1. \E i \in at : \A j \in at : i <= j
    <3> HIDE DEF at
    <3> QED
      BY <1>1, <1>3, LeastNat
  <2>2. Place(d, t, key) = CHOOSE i \in at : \A j \in at : i <= j
    BY <1>3 DEF Place
  <2>3. Place(d, t, key) \in at /\ \A j \in at : Place(d, t, key) <= j
    <3> HIDE DEF at
    <3> QED
      BY <2>1, <2>2
  <2> QED
    BY <1>1, <2>3
<1> QED
  BY <1>2, <1>3

\* A sequence r is q but for what it has at p, which may be one more.
Differs(q, r, p) ==
    /\ \E S : r \in Seq(S)
    /\ p \in DOMAIN r /\ Len(q) <= Len(r)
    /\ p \in DOMAIN q \/ p = Len(q) + 1
    /\ \A i \in DOMAIN r : i # p => i \in DOMAIN q /\ r[i] = q[i]

\* Appending differs at the place after the last.
LEMMA AppendDiffers ==
    ASSUME NEW S, NEW q, q \in Seq(S), NEW x, NEW r, r = Append(q, x)
    PROVE  Differs(q, r, Len(q) + 1) /\ Len(q) + 1 \notin DOMAIN q /\ r[Len(q) + 1] = x
<1>1. q \in Seq(S \cup {x})
  OBVIOUS
<1>2. r \in Seq(S \cup {x}) /\ Len(r) = Len(q) + 1 /\ r[Len(q) + 1] = x /\ \A i \in DOMAIN q : r[i] = q[i]
  BY <1>1
<1>3. DOMAIN r = 1..(Len(q) + 1) /\ DOMAIN q = 1..Len(q) /\ Len(q) \in Nat
  BY <1>2
<1> QED
  BY <1>2, <1>3 DEF Differs

\* An update differs at its place.
LEMMA ExceptDiffers ==
    ASSUME NEW S, NEW q, q \in Seq(S), NEW p, p \in DOMAIN q, NEW x, NEW r, r = [q EXCEPT ![p] = x]
    PROVE  Differs(q, r, p) /\ r[p] = x
<1>1. r \in Seq(S \cup {x}) /\ Len(r) = Len(q) /\ r[p] = x /\ DOMAIN r = DOMAIN q
      /\ \A i \in DOMAIN q : i # p => r[i] = q[i]
  OBVIOUS
<1> QED
  BY <1>1 DEF Differs

\* What differs in an element of the same type is still a sequence.
LEMMA DiffersIsSeq ==
    ASSUME NEW S, NEW q, q \in Seq(S), NEW r, NEW p, Differs(q, r, p), r[p] \in S
    PROVE  r \in Seq(S) /\ p \in Nat
<1>1. PICK R : r \in Seq(R)
  BY DEF Differs
<1>2. \A i \in DOMAIN r : r[i] \in S
  BY <1>1 DEF Differs
<1> QED
  BY <1>1, <1>2 DEF Differs

\* What an upsert writes and what it leaves, for any rows.
LEMMA UpsertLeaves ==
    ASSUME NEW d, NEW t, t \in DOMAIN d, NEW key, NEW row, NEW e, e = Upsert(d, t, key, row)
    PROVE  DOMAIN e = DOMAIN d /\ \A u \in DOMAIN d : u # t => e[u] = d[u]
BY DEF Upsert

\* An upsert adds the row, or updates the first that its key finds.
LEMMA UpsertWrites ==
    ASSUME NEW d, NEW t, t \in DOMAIN d, NEW S, d[t] \in Seq(S), NEW key, NEW row,
           NEW p, p = Place(d, t, key), NEW e, e = Upsert(d, t, key, row)
    PROVE  /\ Differs(d[t], e[t], p)
           /\ p \notin DOMAIN d[t] => Found(d, t, key) = {} /\ e[t][p] = row
           /\ p \in DOMAIN d[t] => p \in Found(d, t, key) /\ e[t][p] = Update(d[t][p], row)
<1>1. e = [d EXCEPT ![t] = IF p > Len(d[t]) THEN Append(d[t], row)
                           ELSE [d[t] EXCEPT ![p] = Update(d[t][p], row)]]
  BY DEF Upsert
<1>2. p \in 1..(Len(d[t]) + 1) /\ (p > Len(d[t]) => Found(d, t, key) = {})
      /\ (p <= Len(d[t]) => p \in Found(d, t, key)) /\ Len(d[t]) \in Nat /\ DOMAIN d[t] = 1..Len(d[t])
  BY PlaceIs
<1>3. CASE p > Len(d[t])
  <2>1. e[t] = Append(d[t], row) /\ p = Len(d[t]) + 1
    BY <1>1, <1>2, <1>3
  <2>2. Differs(d[t], e[t], p) /\ p \notin DOMAIN d[t] /\ e[t][p] = row
    <3> DEFINE q == d[t]
               r == e[t]
    <3>1. q \in Seq(S) /\ r = Append(q, row) /\ p = Len(q) + 1
      BY <2>1
    <3> HIDE DEF q, r
    <3>2. Differs(q, r, p) /\ p \notin DOMAIN q /\ r[p] = row
      BY <3>1, AppendDiffers
    <3> QED
      BY <3>2 DEF q, r
  <2> QED
    BY <1>2, <1>3, <2>2
<1>4. CASE p <= Len(d[t])
  <2>1. ~(p > Len(d[t])) /\ p \in DOMAIN d[t]
    BY <1>2, <1>4
  <2>2. e[t] = [d[t] EXCEPT ![p] = Update(d[t][p], row)]
    BY <1>1, <2>1
  <2>3. Differs(d[t], e[t], p) /\ e[t][p] = Update(d[t][p], row)
    <3> DEFINE q == d[t]
               r == e[t]
               x == Update(d[t][p], row)
    <3>1. q \in Seq(S) /\ p \in DOMAIN q /\ r = [q EXCEPT ![p] = x]
      BY <2>1, <2>2
    <3> HIDE DEF q, r, x
    <3>2. Differs(q, r, p) /\ r[p] = x
      BY <3>1, ExceptDiffers
    <3> QED
      BY <3>2 DEF q, r, x
  <2> QED
    BY <1>2, <1>4, <2>1, <2>3
<1> QED
  BY <1>2, <1>3, <1>4

\* The columns a row is found by, which no step writes again.
NaturalKey ==
    [rates |-> {"key", "date"}, clients |-> {"name"}, contracts |-> {"ref"}, orders |-> {"ref"},
     receipts |-> {"order", "currency"}, orderExpenses |-> {"order", "text", "amount"},
     generalExpenses |-> {"text", "amount", "date"}, overheads |-> {"date", "text"},
     loans |-> {"text", "amount", "date"}, repayments |-> {"loan", "amount"},
     claims |-> {"contract", "amount", "date"}, taxDebt |-> {"tax", "amount", "date"},
     taxLedger |-> {"tax"}, runs |-> {"date"}, employees |-> {"name"}, lines |-> {"date", "name"},
     returns |-> {"date"}, periods |-> {"date"}, entries |-> {"date", "name"}]

\* The rows of a table.
RowsOf(t) == TableRow[t]

\* Tables without a journal.
Plain == Tables \ {"receipts", "claims"}

\* The rows of a table have the same columns, those of its key among them.
LEMMA Columns ==
    ASSUME NEW t \in Plain, NEW q \in RowsOf(t), NEW r \in RowsOf(t)
    PROVE  /\ Update(q, r) = r
           /\ NaturalKey[t] \subseteq DOMAIN r
           /\ "amount" \in NaturalKey[t] => q.amount \in Cent
<1>1. CASE t = "rates"
  <2>1. q \in [key : STRING, date : Nat, value : Int] /\ r \in [key : STRING, date : Nat, value : Int]
    BY <1>1 DEF RowsOf, TableRow
  <2> QED
    BY <1>1, <2>1 DEF NaturalKey, Update
<1>2. CASE t = "clients"
  <2>1. q \in [name : STRING] /\ r \in [name : STRING]
    BY <1>2 DEF RowsOf, TableRow
  <2> QED
    BY <1>2, <2>1 DEF NaturalKey, Update
<1>3. CASE t = "contracts"
  <2>1. q \in [ref : STRING, client : STRING, amount : Cent, date : Nat, until : Nat] /\ r \in [ref : STRING, client : STRING, amount : Cent, date : Nat, until : Nat]
    BY <1>3 DEF RowsOf, TableRow
  <2> QED
    BY <1>3, <2>1 DEF NaturalKey, Update
<1>4. CASE t = "orders"
  <2>1. q \in [ref : STRING, client : STRING, amount : Cent] /\ r \in [ref : STRING, client : STRING, amount : Cent]
    BY <1>4 DEF RowsOf, TableRow
  <2> QED
    BY <1>4, <2>1 DEF NaturalKey, Update
<1>5. CASE t = "orderExpenses"
  <2>1. q \in [order : STRING, text : STRING, amount : Cent] /\ r \in [order : STRING, text : STRING, amount : Cent]
    BY <1>5 DEF RowsOf, TableRow
  <2> QED
    BY <1>5, <2>1 DEF NaturalKey, Update
<1>6. CASE t = "generalExpenses"
  <2>1. q \in [text : STRING, amount : Cent, date : Nat] /\ r \in [text : STRING, amount : Cent, date : Nat]
    BY <1>6 DEF RowsOf, TableRow
  <2> QED
    BY <1>6, <2>1 DEF NaturalKey, Update
<1>7. CASE t = "overheads"
  <2>1. q \in [date : Nat, text : {"Salaries", "Other"}, amount : Cent] /\ r \in [date : Nat, text : {"Salaries", "Other"}, amount : Cent]
    BY <1>7 DEF RowsOf, TableRow
  <2> QED
    BY <1>7, <2>1 DEF NaturalKey, Update
<1>8. CASE t = "loans"
  <2>1. q \in [text : STRING, amount : Cent, date : Nat] /\ r \in [text : STRING, amount : Cent, date : Nat]
    BY <1>8 DEF RowsOf, TableRow
  <2> QED
    BY <1>8, <2>1 DEF NaturalKey, Update
<1>9. CASE t = "repayments"
  <2>1. q \in [loan : Nat, amount : Cent] /\ r \in [loan : Nat, amount : Cent]
    BY <1>9 DEF RowsOf, TableRow
  <2> QED
    BY <1>9, <2>1 DEF NaturalKey, Update
<1>10. CASE t = "taxDebt"
  <2>1. q \in [tax : {"PAYE", "VAT"}, amount : Cent, date : Nat, paid : Cent] /\ r \in [tax : {"PAYE", "VAT"}, amount : Cent, date : Nat, paid : Cent]
    BY <1>10 DEF RowsOf, TableRow
  <2> QED
    BY <1>10, <2>1 DEF NaturalKey, Update
<1>11. CASE t = "taxLedger"
  <2>1. q \in [tax : {"PAYE", "VAT"}, amount : Cent] /\ r \in [tax : {"PAYE", "VAT"}, amount : Cent]
    BY <1>11 DEF RowsOf, TableRow
  <2> QED
    BY <1>11, <2>1 DEF NaturalKey, Update
<1>12. CASE t = "runs"
  <2>1. q \in [date : Nat, status : {"APPROVED"}] /\ r \in [date : Nat, status : {"APPROVED"}]
    BY <1>12 DEF RowsOf, TableRow
  <2> QED
    BY <1>12, <2>1 DEF NaturalKey, Update
<1>13. CASE t = "employees"
  <2>1. q \in [name : STRING] /\ r \in [name : STRING]
    BY <1>13 DEF RowsOf, TableRow
  <2> QED
    BY <1>13, <2>1 DEF NaturalKey, Update
<1>14. CASE t = "lines"
  <2>1. q \in [date : Nat, name : STRING, amount : Cent, paye : Cent] /\ r \in [date : Nat, name : STRING, amount : Cent, paye : Cent]
    BY <1>14 DEF RowsOf, TableRow
  <2> QED
    BY <1>14, <2>1 DEF NaturalKey, Update
<1>15. CASE t = "returns"
  <2>1. q \in [date : Nat, amount : Cent, status : {"DUE", "FILED"}] /\ r \in [date : Nat, amount : Cent, status : {"DUE", "FILED"}]
    BY <1>15 DEF RowsOf, TableRow
  <2> QED
    BY <1>15, <2>1 DEF NaturalKey, Update
<1>16. CASE t = "periods"
  <2>1. q \in [date : Nat, status : {"OPEN", "LOCKED"}] /\ r \in [date : Nat, status : {"OPEN", "LOCKED"}]
    BY <1>16 DEF RowsOf, TableRow
  <2> QED
    BY <1>16, <2>1 DEF NaturalKey, Update
<1>17. CASE t = "entries"
  <2>1. q \in [date : Nat, name : STRING, amount : Cent] /\ r \in [date : Nat, name : STRING, amount : Cent]
    BY <1>17 DEF RowsOf, TableRow
  <2> QED
    BY <1>17, <2>1 DEF NaturalKey, Update
<1> QED
  BY <1>1, <1>2, <1>3, <1>4, <1>5, <1>6, <1>7, <1>8, <1>9, <1>10, <1>11, <1>12, <1>13, <1>14, <1>15, <1>16, <1>17 DEF Plain, Tables

-----------------------------------------------------------------------------
(* What an upsert does to the tables.                                      *)

\* A record of the tables and nothing else.
IsTables(d) == d = [t \in Tables |-> d[t]]

\* An upsert leaves the tables there are.
LEMMA UpsertIsTables ==
    ASSUME NEW d, DOMAIN d = Tables, NEW t, NEW key, NEW row, NEW e, e = Upsert(d, t, key, row)
    PROVE  IsTables(e)
BY DEF Upsert, IsTables

\* The tables, every receipt and claim with its journal.
IsDB(d) ==
    /\ DOMAIN d = Tables /\ IsTables(d)
    /\ \A t \in Tables : d[t] \in Seq(RowsOf(t))
    /\ \A i \in DOMAIN d["receipts"] : "posted" \in DOMAIN d["receipts"][i]
    /\ \A i \in DOMAIN d["claims"] :
         "posted" \in DOMAIN d["claims"][i] /\ d["claims"][i].posted = d["claims"][i].amount

\* No row is removed, or found by another key than it was.
Grown(d, e) ==
    \A t \in Tables :
        /\ Len(d[t]) <= Len(e[t])
        /\ \A i \in DOMAIN d[t] : \A f \in NaturalKey[t] : e[t][i][f] = d[t][i][f]

\* Only one table is written.
Writes(d, e, t) == IsDB(e) /\ Grown(d, e) /\ \A u \in Tables : u # t => e[u] = d[u]

\* Nothing grows by staying as it is.
LEMMA GrownSame == ASSUME NEW d, IsDB(d) PROVE Grown(d, d)
BY DEF IsDB, Grown

\* What grows twice has grown.
LEMMA GrownMore == ASSUME NEW d, NEW e, NEW f, IsDB(d), IsDB(e), IsDB(f), Grown(d, e), Grown(e, f) PROVE Grown(d, f)
<1> SUFFICES ASSUME NEW t \in Tables
             PROVE  /\ Len(d[t]) <= Len(f[t])
                    /\ \A i \in DOMAIN d[t] : \A g \in NaturalKey[t] : f[t][i][g] = d[t][i][g]
  BY DEF Grown
<1>1. d[t] \in Seq(RowsOf(t)) /\ e[t] \in Seq(RowsOf(t)) /\ f[t] \in Seq(RowsOf(t))
  BY DEF IsDB
<1>2. Len(d[t]) <= Len(e[t]) /\ Len(e[t]) <= Len(f[t])
  BY DEF Grown
<1>3. \A i \in DOMAIN d[t] : i \in DOMAIN e[t]
  BY <1>1, <1>2
<1> QED
  BY <1>1, <1>2, <1>3 DEF Grown

\* A table of which one row is put in the place of another, or added.
LEMMA OneRow ==
    ASSUME NEW d, IsDB(d), NEW t \in Tables, NEW e, DOMAIN e = Tables, IsTables(e), NEW p,
           \A u \in Tables : u # t => e[u] = d[u],
           Differs(d[t], e[t], p), e[t][p] \in RowsOf(t),
           p \in DOMAIN d[t] => \A f \in NaturalKey[t] : e[t][p][f] = d[t][p][f],
           t \in {"receipts", "claims"} => "posted" \in DOMAIN e[t][p],
           t = "claims" => e[t][p].posted = e[t][p].amount
    PROVE  Writes(d, e, t)
<1>1. d[t] \in Seq(RowsOf(t))
  BY DEF IsDB
<1>2. /\ e[t] \in Seq(RowsOf(t)) /\ Len(d[t]) <= Len(e[t])
      /\ \A i \in DOMAIN e[t] : i # p => i \in DOMAIN d[t] /\ e[t][i] = d[t][i]
  BY <1>1, DiffersIsSeq DEF Differs
<1>3. \A i \in DOMAIN d[t] : i \in DOMAIN e[t] /\ \A f \in NaturalKey[t] : e[t][i][f] = d[t][i][f]
  <2>1. \A i \in DOMAIN d[t] : i \in DOMAIN e[t]
    BY <1>1, <1>2
  <2> QED
    BY <1>2, <2>1
<1>4. \A u \in Tables : e[u] \in Seq(RowsOf(u))
  BY <1>2 DEF IsDB
<1>5. \A i \in DOMAIN e["receipts"] : "posted" \in DOMAIN e["receipts"][i]
  <2>1. "receipts" \in Tables
    BY DEF Tables
  <2> QED
    BY <1>2, <2>1 DEF IsDB
<1>6. \A i \in DOMAIN e["claims"] :
         "posted" \in DOMAIN e["claims"][i] /\ e["claims"][i].posted = e["claims"][i].amount
  <2>1. "claims" \in Tables
    BY DEF Tables
  <2> QED
    BY <1>2, <2>1 DEF IsDB
<1>7. Grown(d, e)
  <2> SUFFICES ASSUME NEW u \in Tables
               PROVE  /\ Len(d[u]) <= Len(e[u])
                      /\ \A i \in DOMAIN d[u] : \A f \in NaturalKey[u] : e[u][i][f] = d[u][i][f]
    BY DEF Grown
  <2>1. CASE u = t
    BY <1>2, <1>3, <2>1
  <2>2. CASE u # t
    <3>1. d[u] \in Seq(RowsOf(u)) /\ e[u] = d[u]
      BY <2>2 DEF IsDB
    <3> QED
      BY <3>1
  <2> QED
    BY <2>1, <2>2
<1> QED
  BY <1>4, <1>5, <1>6, <1>7 DEF IsDB, Writes

\* The key names the columns of the natural key, an amount as the sheet has it.
KeyOf(key, row, t) ==
    /\ DOMAIN key = NaturalKey[t]
    /\ \A f \in NaturalKey[t] : row[f] = key[f] \/ (f = "amount" /\ row[f] = Cents(key[f]))

\* A whole row upserted by its own columns is there, and the others stay.
LEMMA UpsertKeeps ==
    ASSUME NEW d, IsDB(d), NEW t \in Plain, NEW row, row \in RowsOf(t), NEW key, KeyOf(key, row, t),
           NEW p, p = Place(d, t, key), NEW e, e = Upsert(d, t, key, row)
    PROVE  Writes(d, e, t) /\ p \in DOMAIN e[t] /\ e[t][p] = row
<1>1. d[t] \in Seq(RowsOf(t)) /\ t \in DOMAIN d /\ DOMAIN d = Tables /\ t \in Tables
  BY DEF IsDB, Plain
<1>2. DOMAIN e = Tables /\ IsTables(e) /\ \A u \in Tables : u # t => e[u] = d[u]
  BY <1>1, UpsertLeaves, UpsertIsTables
<1>3. /\ Differs(d[t], e[t], p)
      /\ p \notin DOMAIN d[t] => e[t][p] = row
      /\ p \in DOMAIN d[t] => p \in Found(d, t, key) /\ e[t][p] = Update(d[t][p], row)
  BY <1>1, UpsertWrites
<1>4. p \in DOMAIN d[t] => e[t][p] = row /\ \A f \in NaturalKey[t] : d[t][p][f] = row[f]
  <2> SUFFICES ASSUME p \in DOMAIN d[t] PROVE e[t][p] = row /\ \A f \in NaturalKey[t] : d[t][p][f] = row[f]
    OBVIOUS
  <2>1. d[t][p] \in RowsOf(t)
    BY <1>1
  <2>2. Update(d[t][p], row) = row /\ ("amount" \in NaturalKey[t] => d[t][p].amount \in Cent)
    BY <2>1, Columns
  <2>3. \A f \in DOMAIN key : d[t][p][f] = key[f]
    BY <1>3 DEF Found
  <2> QED
    BY <1>3, <2>2, <2>3 DEF KeyOf, Cent
<1>5. e[t][p] = row
  BY <1>3, <1>4
<1> QED
  BY <1>1, <1>2, <1>3, <1>4, <1>5, OneRow DEF Plain, Differs

\* A row is added to a table.
Added(d, t, row) == [d EXCEPT ![t] = Append(@, row)]

\* So is a row added.
LEMMA AppendKeeps ==
    ASSUME NEW d, IsDB(d), NEW t \in Plain, NEW row, row \in RowsOf(t),
           NEW e, e = Added(d, t, row)
    PROVE  Writes(d, e, t) /\ \E p \in DOMAIN e[t] : e[t][p] = row
<1> DEFINE q == d[t]
           r == e[t]
<1>1. DOMAIN d = Tables /\ t \in Tables /\ q \in Seq(RowsOf(t)) /\ r = Append(q, row)
  BY DEF IsDB, Plain, Added
<1>2. DOMAIN e = Tables /\ IsTables(e) /\ \A u \in Tables : u # t => e[u] = d[u]
  BY <1>1 DEF Added, IsTables
<1>3. Differs(q, r, Len(q) + 1) /\ Len(q) + 1 \notin DOMAIN q /\ r[Len(q) + 1] = row
  <2> HIDE DEF q, r
  <2> QED
    BY <1>1, AppendDiffers
<1> QED
  BY <1>1, <1>2, <1>3, OneRow DEF Plain, Differs

Goes(d, e) == IsDB(e) /\ Grown(d, e)

\* Writing one table carries the tables on.
LEMMA WritesGoes ==
    ASSUME NEW d, NEW e, NEW t, Writes(d, e, t)
    PROVE  Goes(d, e) /\ (t # "receipts" => e["receipts"] = d["receipts"])
BY DEF Writes, Goes, Tables

\* Tables carried on twice are carried on.
LEMMA GoesOn == ASSUME NEW d, NEW e, NEW f, IsDB(d), Goes(d, e), Goes(e, f) PROVE Goes(d, f)
BY GrownMore DEF Goes

\* Tables left alone are carried on.
LEMMA GoesNowhere == ASSUME NEW d, IsDB(d) PROVE Goes(d, d)
BY GrownSame DEF Goes

\* A row with the columns of the key is found by it.
LEMMA KeyFound ==
    ASSUME NEW d, NEW t, NEW p, p \in DOMAIN d[t], NEW key, \A f \in DOMAIN key : d[t][p][f] = key[f]
    PROVE  p \in Found(d, t, key) /\ Found(d, t, key) # {}
BY DEF Found

\* What was found by columns of the natural key still is.
LEMMA FoundStays ==
    ASSUME NEW d, IsDB(d), NEW e, Goes(d, e), NEW t \in Tables, NEW key,
           \A f \in DOMAIN key : f \in NaturalKey[t], NEW i, i \in Found(d, t, key)
    PROVE  i \in Found(e, t, key) /\ \A f \in NaturalKey[t] : e[t][i][f] = d[t][i][f]
<1>1. d[t] \in Seq(RowsOf(t)) /\ e[t] \in Seq(RowsOf(t)) /\ Len(d[t]) <= Len(e[t])
  BY DEF IsDB, Goes, Grown
<1>2. i \in DOMAIN d[t] /\ \A f \in DOMAIN key : d[t][i][f] = key[f]
  BY DEF Found
<1>3. i \in DOMAIN e[t]
  BY <1>1, <1>2
<1>4. \A f \in NaturalKey[t] : e[t][i][f] = d[t][i][f]
  BY <1>2 DEF Goes, Grown
<1> QED
  BY <1>2, <1>3, <1>4 DEF Found

\* The row of a receipt or a claim that is posted as it is created.
Journalled(row) == Update(row, [posted |-> row.amount])

\* Of a receipt or a claim, upserted and posted if it was created.
LEMMA PostedUpsert ==
    ASSUME NEW d, IsDB(d), NEW t, t \in {"receipts", "claims"}, NEW key, NEW row, "posted" \notin DOMAIN row,
           NEW p, p = Place(d, t, key), NEW e, e = Post(Upsert(d, t, key, row), t, p)
    PROVE  /\ DOMAIN e = Tables /\ IsTables(e) /\ \A u \in Tables : u # t => e[u] = d[u]
           /\ Differs(d[t], e[t], p)
           /\ p \notin DOMAIN d[t] => e[t][p] = Journalled(row)
           /\ p \in DOMAIN d[t] => p \in Found(d, t, key) /\ e[t][p] = Update(d[t][p], row)
<1> DEFINE U == Upsert(d, t, key, row)
<1>1. d[t] \in Seq(RowsOf(t)) /\ t \in DOMAIN d /\ DOMAIN d = Tables
  BY DEF IsDB, Tables
<1>2. DOMAIN U = Tables /\ IsTables(U) /\ \A u \in Tables : u # t => U[u] = d[u]
  BY <1>1, UpsertLeaves, UpsertIsTables
<1>3. /\ Differs(d[t], U[t], p)
      /\ p \notin DOMAIN d[t] => U[t][p] = row
      /\ p \in DOMAIN d[t] => p \in Found(d, t, key) /\ U[t][p] = Update(d[t][p], row)
  BY <1>1, UpsertWrites
<1> HIDE DEF U
<1>4. CASE p \in DOMAIN d[t]
  <2>1. "posted" \in DOMAIN d[t][p]
    BY <1>4 DEF IsDB
  <2>2. "posted" \in DOMAIN U[t][p]
    BY <1>3, <1>4, <2>1 DEF Update
  <2>3. e = U
    BY <2>2 DEF Post, U
  <2> QED
    BY <1>2, <1>3, <1>4, <2>3
<1>5. CASE p \notin DOMAIN d[t]
  <2>1. U[t][p] = row
    BY <1>3, <1>5
  <2>2. e = [U EXCEPT ![t][p] = Journalled(row)]
    BY <2>1 DEF Post, U, Journalled
  <2> DEFINE q == U[t]
             r == e[t]
             x == Journalled(row)
  <2>3. DOMAIN e = Tables /\ IsTables(e) /\ (\A u \in Tables : u # t => e[u] = U[u]) /\ r = [q EXCEPT ![p] = x]
    BY <1>1, <1>2, <2>2 DEF IsTables
  <2>4. PICK S : q \in Seq(S)
    BY <1>3 DEF Differs
  <2>5. p \in DOMAIN q
    BY <1>3 DEF Differs
  <2>6. Differs(q, r, p) /\ r[p] = x /\ Len(q) = Len(r)
    <3> HIDE DEF q, r, x
    <3>1. Len(q) = Len(r)
      BY <2>3, <2>4
    <3> QED
      BY <2>3, <2>4, <2>5, <3>1, ExceptDiffers
  <2>7. Differs(d[t], e[t], p)
    BY <1>3, <2>6 DEF Differs
  <2> QED
    BY <1>2, <1>5, <2>3, <2>6, <2>7
<1> QED
  BY <1>4, <1>5

Receipt == [order : STRING, currency : {"USD", "ZIG"}, amount : Cent, date : Nat, posted : Cent]

\* A row of the Orders sheet.
OrderRow == SheetRow["Orders"]

\* A leg: the receipt of its order and currency has the amount of the row; its
\* journal is the one it had, if it had one.
LegWrites(d, e, order, currency, amount) ==
    \E p :
        /\ Differs(d["receipts"], e["receipts"], p)
        /\ e["receipts"][p].order = order /\ e["receipts"][p].currency = currency
        /\ e["receipts"][p].amount = amount
        /\ IF p \in DOMAIN d["receipts"]
             THEN /\ d["receipts"][p].order = order /\ d["receipts"][p].currency = currency
                  /\ e["receipts"][p].posted = d["receipts"][p].posted
             ELSE e["receipts"][p].posted = amount

\* The money of a row in USD is a number, and its date a day.
LEMMA LegIs ==
    ASSUME NEW r, r \in OrderRow, NEW currency, currency \in {"USD", "ZIG"}, Received(r, currency), NEW day \in Nat
    PROVE  r.ref \in STRING /\ Cents(InUSD(r, currency)) \in Cent /\ DateOf(r, day) \in Nat
<1>1. /\ r.ref \in STRING /\ r.usd \in Int /\ r.zig \in Int /\ r.rate \in Int /\ r.date \in Nat \cup {None}
  BY DEF OrderRow, SheetRow
<1>2. InUSD(r, currency) \in Int
  <2>1. CASE currency = "USD"
    BY <1>1, <2>1 DEF InUSD
  <2>2. CASE currency = "ZIG"
    <3>1. r.rate > 0
      BY <2>2 DEF Received
    <3> QED
      BY <1>1, <2>2, <3>1 DEF InUSD
  <2> QED
    BY <2>1, <2>2
<1> QED
  BY <1>1, <1>2, CentsAgain DEF DateOf

\* The receipt of a leg is written with its amount in cents.
LEMMA LegGoes ==
    ASSUME NEW d, IsDB(d), NEW r, r \in OrderRow, NEW currency, currency \in {"USD", "ZIG"}, Received(r, currency),
           NEW day \in Nat, NEW e, e = ReceiptLeg(d, r, currency, day)
    PROVE  Writes(d, e, "receipts") /\ LegWrites(d, e, r.ref, currency, Cents(InUSD(r, currency)))
<1> DEFINE order == r.ref
           cents == Cents(InUSD(r, currency))
           date == DateOf(r, day)
           key == [order |-> order, currency |-> currency]
           row == [order |-> order, currency |-> currency, amount |-> cents, date |-> date]
           p == Place(d, "receipts", key)
           t == "receipts"
<1>1. e = Post(Upsert(d, t, key, row), t, p)
  BY DEF ReceiptLeg
<1>2. order \in STRING /\ cents \in Cent /\ date \in Nat
  BY LegIs
<1> HIDE DEF order, cents, date
<1>3. "posted" \notin DOMAIN row
  OBVIOUS
<1>4. /\ DOMAIN e = Tables /\ IsTables(e) /\ \A u \in Tables : u # t => e[u] = d[u]
      /\ Differs(d[t], e[t], p)
      /\ p \notin DOMAIN d[t] => e[t][p] = Journalled(row)
      /\ p \in DOMAIN d[t] => p \in Found(d, t, key) /\ e[t][p] = Update(d[t][p], row)
  <2> HIDE DEF key, row, p
  <2> QED
    BY <1>1, <1>3, PostedUpsert DEF p
<1> HIDE DEF p
<1>5. d[t] \in Seq(RowsOf(t)) /\ \A i \in DOMAIN d[t] : "posted" \in DOMAIN d[t][i]
  BY DEF IsDB, Tables
<1>6. \A x : x \in RowsOf(t) /\ "posted" \in DOMAIN x <=> x \in Receipt
  BY DEF RowsOf, TableRow, Receipt
<1>7. Writes(d, e, t) /\ LegWrites(d, e, order, currency, cents)
  <2>1. CASE p \in DOMAIN d[t]
    <3>1. d[t][p] \in Receipt
      BY <1>5, <1>6, <2>1
    <3>2. d[t][p].order = order /\ d[t][p].currency = currency
      BY <1>4, <2>1 DEF Found
    <3>3. /\ e[t][p] \in Receipt /\ e[t][p].order = order /\ e[t][p].currency = currency
          /\ e[t][p].amount = cents /\ e[t][p].posted = d[t][p].posted
      BY <1>2, <1>4, <2>1, <3>1 DEF Update, Receipt
    <3>4. \A f \in NaturalKey[t] : e[t][p][f] = d[t][p][f]
      BY <3>2, <3>3 DEF NaturalKey
    <3>5. e[t][p] \in RowsOf(t) /\ "posted" \in DOMAIN e[t][p]
      BY <1>6, <3>3
    <3>6. Writes(d, e, t)
      <4>1. "receipts" \in Tables /\ "receipts" # "claims"
        BY DEF Tables
      <4> QED
        BY <1>4, <2>1, <3>4, <3>5, <4>1, OneRow
    <3> QED
      BY <1>4, <2>1, <3>2, <3>3, <3>6 DEF LegWrites
  <2>2. CASE p \notin DOMAIN d[t]
    <3>1. /\ e[t][p] \in Receipt /\ e[t][p].order = order /\ e[t][p].currency = currency
          /\ e[t][p].amount = cents /\ e[t][p].posted = cents
      BY <1>2, <1>4, <2>2 DEF Journalled, Update, Receipt
    <3>2. e[t][p] \in RowsOf(t) /\ "posted" \in DOMAIN e[t][p]
      BY <1>6, <3>1
    <3>3. Writes(d, e, t)
      <4>1. "receipts" \in Tables /\ "receipts" # "claims"
        BY DEF Tables
      <4> QED
        BY <1>4, <2>2, <3>2, <4>1, OneRow
    <3> QED
      BY <1>4, <2>2, <3>1, <3>3 DEF LegWrites
  <2> QED
    BY <2>1, <2>2
<1> QED
  BY <1>7 DEF order, cents

-----------------------------------------------------------------------------
(* What is written of a row, and stays written.                            *)

\* What the rows of each sheet leave in the tables.
HasIn(d, t, key) == Found(d, t, key) # {}
HasInOn(d, t, key, date) == \E i \in Found(d, t, key) : date \in {None, d[t][i].date}

SettingsIn(d, r) == r.value > 0 => HasIn(d, "rates", [key |-> r.key, date |-> r.date])
ClientIn(d, name) == HasIn(d, "clients", [name |-> name])
ContractIn(d, r) == HasIn(d, "contracts", [ref |-> r.ref]) /\ ClientIn(d, r.client)
ReceiptIn(d, r, currency) == Received(r, currency) => HasIn(d, "receipts", [order |-> r.ref, currency |-> currency])
OrderIn(d, r) ==
    /\ HasIn(d, "orders", [ref |-> r.ref]) /\ ClientIn(d, r.client)
    /\ ReceiptIn(d, r, "USD") /\ ReceiptIn(d, r, "ZIG")
OrderExpenseIn(d, r, orders) ==
    r.ref \in orders => HasIn(d, "orderExpenses", [order |-> r.ref, text |-> r.text, amount |-> Cents(r.amount)])
GeneralExpenseIn(d, r) == HasInOn(d, "generalExpenses", [text |-> r.text, amount |-> Cents(r.amount)], r.date)
OverheadIn(d, month, category, amount) == amount # 0 => HasIn(d, "overheads", [date |-> month, text |-> category])
LoanIn(d, r) == HasInOn(d, "loans", [text |-> r.text, amount |-> Cents(r.amount)], r.date)
ClaimIn(d, r, contracts) ==
    r.ref \in contracts => HasInOn(d, "claims", [contract |-> r.ref, amount |-> Cents(r.amount)], r.date)
DebtIn(d, tax, amount, date) == amount > 0 => HasInOn(d, "taxDebt", [tax |-> tax, amount |-> Cents(amount)], date)
LineIn(d, r) == HasIn(d, "lines", [name |-> r.name, date |-> r.date])

Written(d, b, s, i) ==
    LET r == b[s][i] IN
    /\ s = "Settings" => SettingsIn(d, r)
    /\ s = "Clients" => ClientIn(d, r.name)
    /\ s = "Contracts" => ContractIn(d, r)
    /\ s = "Orders" => OrderIn(d, r)
    /\ s = "OrderExpenses" => OrderExpenseIn(d, r, Refs(b["Orders"]))
    /\ s = "GeneralExpenses" => GeneralExpenseIn(d, r)
    /\ s = "Overheads" /\ i \in FirstOfMonth(b["Overheads"]) =>
         OverheadIn(d, r.date, "Salaries", r.amount) /\ OverheadIn(d, r.date, "Other", r.other)
    /\ s = "Loans" => LoanIn(d, r)
    /\ s = "ContractPayments" => ClaimIn(d, r, Refs(b["Contracts"]))
    /\ s = "OtherTaxDebt" => DebtIn(d, "PAYE", r.amount, r.date) /\ DebtIn(d, "VAT", r.other, r.date)
    /\ s = "Payroll" => LineIn(d, r)

\* What the columns of a key find is found when the tables are carried on.
LEMMA HasStays ==
    ASSUME NEW d, IsDB(d), NEW e, Goes(d, e), NEW t \in Tables, NEW key,
           \A f \in DOMAIN key : f \in NaturalKey[t]
    PROVE  /\ HasIn(d, t, key) => HasIn(e, t, key)
           /\ "date" \in NaturalKey[t] => \A date : HasInOn(d, t, key, date) => HasInOn(e, t, key, date)
<1>1. \A i \in Found(d, t, key) : i \in Found(e, t, key) /\ \A f \in NaturalKey[t] : e[t][i][f] = d[t][i][f]
  BY FoundStays
<1>2. HasIn(d, t, key) => HasIn(e, t, key)
  BY <1>1 DEF HasIn
<1>3. ASSUME "date" \in NaturalKey[t], NEW date, HasInOn(d, t, key, date) PROVE HasInOn(e, t, key, date)
  <2>1. PICK i \in Found(d, t, key) : date \in {None, d[t][i].date}
    BY <1>3 DEF HasInOn
  <2>2. i \in Found(e, t, key) /\ e[t][i].date = d[t][i].date
    BY <1>1, <1>3
  <2> QED
    BY <2>1, <2>2 DEF HasInOn
<1> QED
  BY <1>2, <1>3

\* A client stays.
LEMMA ClientStays == ASSUME NEW d, IsDB(d), NEW e, Goes(d, e), NEW name, ClientIn(d, name) PROVE ClientIn(e, name)
<1> DEFINE key == [name |-> name]
<1>1. "clients" \in Tables /\ \A f \in DOMAIN key : f \in NaturalKey["clients"]
  BY DEF Tables, NaturalKey
<1>2. HasIn(d, "clients", key)
  BY DEF ClientIn
<1> HIDE DEF key
<1>3. HasIn(e, "clients", key)
  BY <1>1, <1>2, HasStays
<1> QED
  BY <1>3 DEF ClientIn, key

\* The receipt of an order in a currency stays.
LEMMA ReceiptStays ==
    ASSUME NEW d, IsDB(d), NEW e, Goes(d, e), NEW r, NEW currency, ReceiptIn(d, r, currency)
    PROVE  ReceiptIn(e, r, currency)
<1> DEFINE key == [order |-> r.ref, currency |-> currency]
<1>1. "receipts" \in Tables /\ \A f \in DOMAIN key : f \in NaturalKey["receipts"]
  BY DEF Tables, NaturalKey
<1>2. HasIn(d, "receipts", key) => HasIn(e, "receipts", key)
  <2> HIDE DEF key
  <2> QED
    BY <1>1, HasStays
<1> QED
  BY <1>2 DEF ReceiptIn

\* The overhead of a month stays.
LEMMA OverheadStays ==
    ASSUME NEW d, IsDB(d), NEW e, Goes(d, e), NEW month, NEW category, NEW amount, OverheadIn(d, month, category, amount)
    PROVE  OverheadIn(e, month, category, amount)
<1> DEFINE key == [date |-> month, text |-> category]
<1>1. "overheads" \in Tables /\ \A f \in DOMAIN key : f \in NaturalKey["overheads"]
  BY DEF Tables, NaturalKey
<1>2. HasIn(d, "overheads", key) => HasIn(e, "overheads", key)
  <2> HIDE DEF key
  <2> QED
    BY <1>1, HasStays
<1> QED
  BY <1>2 DEF OverheadIn

\* The debt of a tax stays.
LEMMA DebtStays ==
    ASSUME NEW d, IsDB(d), NEW e, Goes(d, e), NEW tax, NEW amount, NEW date, DebtIn(d, tax, amount, date)
    PROVE  DebtIn(e, tax, amount, date)
<1> DEFINE key == [tax |-> tax, amount |-> Cents(amount)]
<1>1. "taxDebt" \in Tables /\ "date" \in NaturalKey["taxDebt"] /\ \A f \in DOMAIN key : f \in NaturalKey["taxDebt"]
  BY DEF Tables, NaturalKey
<1>2. HasInOn(d, "taxDebt", key, date) => HasInOn(e, "taxDebt", key, date)
  <2> HIDE DEF key
  <2> QED
    BY <1>1, HasStays
<1> QED
  BY <1>2 DEF DebtIn

\* What is written of a row stays written.
LEMMA RowStays ==
    ASSUME NEW d, IsDB(d), NEW e, Goes(d, e), NEW r
    PROVE  /\ SettingsIn(d, r) => SettingsIn(e, r)
           /\ ContractIn(d, r) => ContractIn(e, r)
           /\ OrderIn(d, r) => OrderIn(e, r)
           /\ \A x : OrderExpenseIn(d, r, x) => OrderExpenseIn(e, r, x)
           /\ GeneralExpenseIn(d, r) => GeneralExpenseIn(e, r)
           /\ LoanIn(d, r) => LoanIn(e, r)
           /\ \A x : ClaimIn(d, r, x) => ClaimIn(e, r, x)
           /\ LineIn(d, r) => LineIn(e, r)
<1>1. SettingsIn(d, r) => SettingsIn(e, r)
  <2> DEFINE key == [key |-> r.key, date |-> r.date]
  <2>1. "rates" \in Tables /\ \A f \in DOMAIN key : f \in NaturalKey["rates"]
    BY DEF Tables, NaturalKey
  <2>2. HasIn(d, "rates", key) => HasIn(e, "rates", key)
    <3> HIDE DEF key
    <3> QED
      BY <2>1, HasStays
  <2> QED
    BY <2>2 DEF SettingsIn
<1>2. /\ HasIn(d, "contracts", [ref |-> r.ref]) => HasIn(e, "contracts", [ref |-> r.ref])
      /\ HasIn(d, "orders", [ref |-> r.ref]) => HasIn(e, "orders", [ref |-> r.ref])
  <2> DEFINE key == [ref |-> r.ref]
  <2>1. /\ "contracts" \in Tables /\ \A f \in DOMAIN key : f \in NaturalKey["contracts"]
        /\ "orders" \in Tables /\ \A f \in DOMAIN key : f \in NaturalKey["orders"]
    BY DEF Tables, NaturalKey
  <2>2. (HasIn(d, "contracts", key) => HasIn(e, "contracts", key)) /\ (HasIn(d, "orders", key) => HasIn(e, "orders", key))
    <3> HIDE DEF key
    <3> QED
      BY <2>1, HasStays
  <2> QED
    BY <2>2
<1>3. ContractIn(d, r) => ContractIn(e, r)
  BY <1>2, ClientStays DEF ContractIn
<1>4. OrderIn(d, r) => OrderIn(e, r)
  BY <1>2, ClientStays, ReceiptStays DEF OrderIn
<1>5. \A x : OrderExpenseIn(d, r, x) => OrderExpenseIn(e, r, x)
  <2> DEFINE key == [order |-> r.ref, text |-> r.text, amount |-> Cents(r.amount)]
  <2>1. "orderExpenses" \in Tables /\ \A f \in DOMAIN key : f \in NaturalKey["orderExpenses"]
    BY DEF Tables, NaturalKey
  <2>2. HasIn(d, "orderExpenses", key) => HasIn(e, "orderExpenses", key)
    <3> HIDE DEF key
    <3> QED
      BY <2>1, HasStays
  <2> QED
    BY <2>2 DEF OrderExpenseIn
<1>6. (GeneralExpenseIn(d, r) => GeneralExpenseIn(e, r)) /\ (LoanIn(d, r) => LoanIn(e, r))
  <2> DEFINE key == [text |-> r.text, amount |-> Cents(r.amount)]
             date == r.date
  <2>1. /\ "generalExpenses" \in Tables /\ "date" \in NaturalKey["generalExpenses"]
        /\ \A f \in DOMAIN key : f \in NaturalKey["generalExpenses"]
    BY DEF Tables, NaturalKey
  <2>2. /\ "loans" \in Tables /\ "date" \in NaturalKey["loans"]
        /\ \A f \in DOMAIN key : f \in NaturalKey["loans"]
    BY DEF Tables, NaturalKey
  <2>3. /\ HasInOn(d, "generalExpenses", key, date) => HasInOn(e, "generalExpenses", key, date)
        /\ HasInOn(d, "loans", key, date) => HasInOn(e, "loans", key, date)
    <3> HIDE DEF key, date
    <3> QED
      BY <2>1, <2>2, HasStays
  <2> QED
    BY <2>3 DEF GeneralExpenseIn, LoanIn
<1>7. \A x : ClaimIn(d, r, x) => ClaimIn(e, r, x)
  <2> DEFINE key == [contract |-> r.ref, amount |-> Cents(r.amount)]
             date == r.date
  <2>1. "claims" \in Tables /\ "date" \in NaturalKey["claims"] /\ \A f \in DOMAIN key : f \in NaturalKey["claims"]
    BY DEF Tables, NaturalKey
  <2>2. HasInOn(d, "claims", key, date) => HasInOn(e, "claims", key, date)
    <3> HIDE DEF key, date
    <3> QED
      BY <2>1, HasStays
  <2> QED
    BY <2>2 DEF ClaimIn
<1>8. LineIn(d, r) => LineIn(e, r)
  <2> DEFINE key == [name |-> r.name, date |-> r.date]
  <2>1. "lines" \in Tables /\ \A f \in DOMAIN key : f \in NaturalKey["lines"]
    BY DEF Tables, NaturalKey
  <2>2. HasIn(d, "lines", key) => HasIn(e, "lines", key)
    <3> HIDE DEF key
    <3> QED
      BY <2>1, HasStays
  <2> QED
    BY <2>2 DEF LineIn
<1> QED
  BY <1>1, <1>3, <1>4, <1>5, <1>6, <1>7, <1>8

\* RowStays, of a row in its sheet.
LEMMA WrittenStays ==
    ASSUME NEW d, IsDB(d), NEW e, Goes(d, e), NEW b, NEW s, NEW i, Written(d, b, s, i)
    PROVE  Written(e, b, s, i)
BY RowStays, ClientStays, OverheadStays, DebtStays DEF Written

-----------------------------------------------------------------------------
(* The rows of each sheet.                                                 *)

\* Goes, and no receipt is written.
Beside(d, e) == Goes(d, e) /\ e["receipts"] = d["receipts"]

\* Writes beside the receipts, one after the other.
LEMMA BesideOn == ASSUME NEW d, NEW e, NEW f, IsDB(d), Beside(d, e), Beside(e, f) PROVE Beside(d, f)
BY GoesOn DEF Beside

\* Tables left alone are carried on beside the receipts.
LEMMA BesideNowhere == ASSUME NEW d, IsDB(d) PROVE Beside(d, d)
BY GoesNowhere DEF Beside

\* A row upserted into a table without journals is found by its columns.
LEMMA UpsertGoes ==
    ASSUME NEW d, IsDB(d), NEW t \in Plain, NEW row, row \in RowsOf(t), NEW key, KeyOf(key, row, t),
           NEW e, e = Upsert(d, t, key, row), NEW sought, \A f \in DOMAIN sought : row[f] = sought[f]
    PROVE  /\ IsDB(e) /\ Beside(d, e)
           /\ HasIn(e, t, sought)
           /\ \A date : date = None \/ date = row.date => HasInOn(e, t, sought, date)
<1> DEFINE p == Place(d, t, key)
<1>1. Writes(d, e, t) /\ p \in DOMAIN e[t] /\ e[t][p] = row
  BY UpsertKeeps
<1> HIDE DEF p
<1>2. p \in Found(e, t, sought)
  BY <1>1, KeyFound
<1>3. Beside(d, e) /\ IsDB(e)
  <2>1. t # "receipts"
    BY DEF Plain
  <2> QED
    BY <1>1, <2>1, WritesGoes DEF Beside, Goes
<1> QED
  BY <1>1, <1>2, <1>3 DEF HasIn, HasInOn

\* A row added to a table without journals is found by its columns.
LEMMA AppendGoes ==
    ASSUME NEW d, IsDB(d), NEW t \in Plain, NEW row, row \in RowsOf(t),
           NEW e, e = Added(d, t, row), NEW sought, \A f \in DOMAIN sought : row[f] = sought[f]
    PROVE  IsDB(e) /\ Beside(d, e) /\ HasIn(e, t, sought)
<1>1. Writes(d, e, t)
  BY AppendKeeps
<1>2. PICK p \in DOMAIN e[t] : e[t][p] = row
  BY AppendKeeps
<1>3. HasIn(e, t, sought)
  BY <1>2, KeyFound DEF HasIn
<1>4. t # "receipts"
  BY DEF Plain
<1> QED
  BY <1>1, <1>3, <1>4, WritesGoes DEF Beside, Goes

\* A rate of the Settings sheet.
LEMMA SettingsGoes ==
    ASSUME NEW d, IsDB(d), NEW r, r \in [key : STRING, date : Nat, value : Int], NEW e, e = UpsertSettings(d, r)
    PROVE  IsDB(e) /\ Beside(d, e) /\ SettingsIn(e, r)
<1> DEFINE t == "rates"
           key == [key |-> r.key, date |-> r.date]
           row == [key |-> r.key, date |-> r.date, value |-> r.value]
<1>1. CASE r.value <= 0
  <2>1. e = d /\ ~(r.value > 0)
    BY <1>1 DEF UpsertSettings
  <2> QED
    BY <2>1, BesideNowhere DEF SettingsIn
<1>2. CASE ~(r.value <= 0)
  <2>1. e = Upsert(d, t, key, row)
    BY <1>2 DEF UpsertSettings
  <2>2. t \in Plain /\ row \in RowsOf(t) /\ KeyOf(key, row, t) /\ \A f \in DOMAIN key : row[f] = key[f]
    BY DEF Plain, Tables, RowsOf, TableRow, KeyOf, NaturalKey
  <2>3. IsDB(e) /\ Beside(d, e) /\ HasIn(e, t, key)
    <3> HIDE DEF t, key, row
    <3> QED
      BY <2>1, <2>2, UpsertGoes
  <2> QED
    BY <2>3 DEF SettingsIn
<1> QED
  BY <1>1, <1>2

\* A client of the Clients sheet.
LEMMA ClientsGoes ==
    ASSUME NEW d, IsDB(d), NEW r, r \in [name : STRING], NEW e, e = UpsertClients(d, r)
    PROVE  IsDB(e) /\ Beside(d, e) /\ ClientIn(e, r.name)
<1> DEFINE t == "clients"
           key == [name |-> r.name]
<1>1. e = Upsert(d, t, key, key)
  BY DEF UpsertClients
<1>2. t \in Plain /\ key \in RowsOf(t) /\ KeyOf(key, key, t) /\ \A f \in DOMAIN key : key[f] = key[f]
  BY DEF Plain, Tables, RowsOf, TableRow, KeyOf, NaturalKey
<1>3. IsDB(e) /\ Beside(d, e) /\ HasIn(e, t, key)
  <2> HIDE DEF t, key
  <2> QED
    BY <1>1, <1>2, UpsertGoes
<1> QED
  BY <1>3 DEF ClientIn

\* The client a contract or an order names.
LEMMA ResolveGoes ==
    ASSUME NEW d, IsDB(d), NEW name, name \in STRING, NEW e, e = ResolveClient(d, name)
    PROVE  IsDB(e) /\ Beside(d, e) /\ ClientIn(e, name)
<1> DEFINE t == "clients"
           key == [name |-> name]
<1>1. CASE Found(d, t, key) # {}
  <2>1. e = d
    BY <1>1 DEF ResolveClient
  <2> QED
    BY <1>1, <2>1, BesideNowhere DEF ClientIn, HasIn
<1>2. CASE ~(Found(d, t, key) # {})
  <2>1. e = Added(d, t, key)
    BY <1>2 DEF ResolveClient, Added
  <2>2. t \in Plain /\ key \in RowsOf(t) /\ \A f \in DOMAIN key : key[f] = key[f]
    BY DEF Plain, Tables, RowsOf, TableRow
  <2>3. IsDB(e) /\ Beside(d, e) /\ HasIn(e, t, key)
    <3> HIDE DEF t, key
    <3> QED
      BY <2>1, <2>2, AppendGoes
  <2> QED
    BY <2>3 DEF ClientIn
<1> QED
  BY <1>1, <1>2

\* A contract, or an order without its receipts.
LEMMA AgreementGoes ==
    ASSUME NEW d, IsDB(d), NEW t, t \in {"contracts", "orders"}, NEW row, row \in RowsOf(t), NEW client, client \in STRING,
           NEW key, key = [ref |-> row.ref], NEW e, e = Upsert(ResolveClient(d, client), t, key, row)
    PROVE  IsDB(e) /\ Beside(d, e) /\ ClientIn(e, client) /\ HasIn(e, t, key)
<1> DEFINE c == ResolveClient(d, client)
<1>1. IsDB(c) /\ Beside(d, c) /\ ClientIn(c, client)
  BY ResolveGoes
<1>2. e = Upsert(c, t, key, row)
  OBVIOUS
<1>3. t \in Plain /\ KeyOf(key, row, t) /\ \A f \in DOMAIN key : row[f] = key[f]
  <2>1. CASE t = "contracts"
    <3>1. row \in [ref : STRING, client : STRING, amount : Cent, date : Nat, until : Nat]
      BY <2>1 DEF RowsOf, TableRow
    <3> QED
      BY <2>1, <3>1 DEF Plain, Tables, KeyOf, NaturalKey
  <2>2. CASE t = "orders"
    <3>1. row \in [ref : STRING, client : STRING, amount : Cent]
      BY <2>2 DEF RowsOf, TableRow
    <3> QED
      BY <2>2, <3>1 DEF Plain, Tables, KeyOf, NaturalKey
  <2> QED
    BY <2>1, <2>2
<1>4. IsDB(e) /\ Beside(c, e) /\ HasIn(e, t, key)
  <2> HIDE DEF c
  <2> QED
    BY <1>1, <1>2, <1>3, UpsertGoes
<1> HIDE DEF c
<1>5. ClientIn(e, client)
  BY <1>1, <1>4, ClientStays DEF Beside
<1> QED
  BY <1>1, <1>4, <1>5, BesideOn

\* What a row of the Contracts or the Orders sheet writes there.
ContractOf(r, day) ==
    [ref |-> r.ref, client |-> r.client, amount |-> Cents(r.amount),
     date |-> DateOf(r, day), until |-> IF r.until = None THEN day ELSE r.until]
OrderOf(r) == [ref |-> r.ref, client |-> r.client, amount |-> Cents(r.amount)]

\* They are rows of their tables.
LEMMA AgreementIs ==
    ASSUME NEW r, NEW day \in Nat
    PROVE  /\ r \in SheetRow["Contracts"] => ContractOf(r, day) \in RowsOf("contracts") /\ r.client \in STRING
           /\ r \in OrderRow => OrderOf(r) \in RowsOf("orders") /\ r.client \in STRING
<1>1. ASSUME r \in SheetRow["Contracts"] PROVE ContractOf(r, day) \in RowsOf("contracts") /\ r.client \in STRING
  <2>1. r.ref \in STRING /\ r.client \in STRING /\ r.amount \in Int /\ r.date \in Nat \cup {None} /\ r.until \in Nat \cup {None}
    BY <1>1 DEF SheetRow
  <2>2. Cents(r.amount) \in Cent
    BY <2>1, CentsAgain
  <2> QED
    BY <2>1, <2>2 DEF ContractOf, DateOf, RowsOf, TableRow
<1>2. ASSUME r \in OrderRow PROVE OrderOf(r) \in RowsOf("orders") /\ r.client \in STRING
  <2>1. r.ref \in STRING /\ r.client \in STRING /\ r.amount \in Int
    BY <1>2 DEF OrderRow, SheetRow
  <2>2. Cents(r.amount) \in Cent
    BY <2>1, CentsAgain
  <2> QED
    BY <2>1, <2>2 DEF OrderOf, RowsOf, TableRow
<1> QED
  BY <1>1, <1>2

\* A contract of the Contracts sheet.
LEMMA ContractsGoes ==
    ASSUME NEW d, IsDB(d), NEW r, r \in SheetRow["Contracts"], NEW day \in Nat, NEW e, e = UpsertContracts(d, r, day)
    PROVE  IsDB(e) /\ Beside(d, e) /\ ContractIn(e, r)
<1> DEFINE t == "contracts"
           row == ContractOf(r, day)
           client == r.client
           key == [ref |-> row.ref]
<1>1. e = Upsert(ResolveClient(d, client), t, key, row) /\ key = [ref |-> r.ref]
  BY DEF UpsertContracts, ContractOf
<1>2. t \in {"contracts", "orders"} /\ row \in RowsOf(t) /\ client \in STRING
  BY AgreementIs
<1>3. IsDB(e) /\ Beside(d, e) /\ ClientIn(e, client) /\ HasIn(e, t, key)
  <2> HIDE DEF t, row, client
  <2> QED
    BY <1>1, <1>2, AgreementGoes
<1> QED
  BY <1>1, <1>3 DEF ContractIn

\* The receipts of the Orders sheet: the amount of each, and of its journal, is
\* that of a row about its order.
FromSheet(rows, order, currency, amount) ==
    \E j \in DOMAIN rows : rows[j].ref = order /\ amount = Cents(InUSD(rows[j], currency))
ReceiptsFrom(d, rows) ==
    \A i \in DOMAIN d["receipts"] :
        /\ FromSheet(rows, d["receipts"][i].order, d["receipts"][i].currency, d["receipts"][i].amount)
        /\ FromSheet(rows, d["receipts"][i].order, d["receipts"][i].currency, d["receipts"][i].posted)

\* Receipts that are not written are still from the sheet.
LEMMA ReceiptsBeside ==
    ASSUME NEW d, NEW e, Beside(d, e), NEW rows, ReceiptsFrom(d, rows)
    PROVE  ReceiptsFrom(e, rows)
BY DEF Beside, ReceiptsFrom

\* A leg with the amount of a row leaves every receipt from the sheet.
LEMMA LegFrom ==
    ASSUME NEW d, NEW e, NEW rows, NEW order, NEW currency, NEW amount, LegWrites(d, e, order, currency, amount),
           FromSheet(rows, order, currency, amount), ReceiptsFrom(d, rows)
    PROVE  ReceiptsFrom(e, rows)
<1>1. PICK p :
        /\ Differs(d["receipts"], e["receipts"], p)
        /\ e["receipts"][p].order = order /\ e["receipts"][p].currency = currency
        /\ e["receipts"][p].amount = amount
        /\ IF p \in DOMAIN d["receipts"]
             THEN /\ d["receipts"][p].order = order /\ d["receipts"][p].currency = currency
                  /\ e["receipts"][p].posted = d["receipts"][p].posted
             ELSE e["receipts"][p].posted = amount
  BY DEF LegWrites
<1> SUFFICES ASSUME NEW i \in DOMAIN e["receipts"]
             PROVE  /\ FromSheet(rows, e["receipts"][i].order, e["receipts"][i].currency, e["receipts"][i].amount)
                    /\ FromSheet(rows, e["receipts"][i].order, e["receipts"][i].currency, e["receipts"][i].posted)
  BY DEF ReceiptsFrom
<1>2. CASE i # p
  <2>1. i \in DOMAIN d["receipts"] /\ e["receipts"][i] = d["receipts"][i]
    BY <1>1, <1>2 DEF Differs
  <2> QED
    BY <2>1 DEF ReceiptsFrom
<1>3. CASE i = p /\ p \in DOMAIN d["receipts"]
  <2>1. FromSheet(rows, d["receipts"][p].order, d["receipts"][p].currency, d["receipts"][p].posted)
    BY <1>3 DEF ReceiptsFrom
  <2> QED
    BY <1>1, <1>3, <2>1
<1>4. CASE i = p /\ p \notin DOMAIN d["receipts"]
  BY <1>1, <1>4
<1> QED
  BY <1>2, <1>3, <1>4

\* One receipt of an order.
LEMMA ReceiptGoes ==
    ASSUME NEW d, IsDB(d), NEW r, r \in OrderRow, NEW currency, currency \in {"USD", "ZIG"}, NEW day \in Nat,
           NEW e, e = ReceiptLeg(d, r, currency, day), NEW rows, NEW i \in DOMAIN rows, rows[i] = r
    PROVE  /\ IsDB(e) /\ Goes(d, e) /\ ReceiptIn(e, r, currency)
           /\ ReceiptsFrom(d, rows) => ReceiptsFrom(e, rows)
<1>1. CASE ~Received(r, currency)
  <2>1. e = d
    BY <1>1 DEF ReceiptLeg
  <2> QED
    BY <1>1, <2>1, GoesNowhere DEF ReceiptIn
<1>2. CASE Received(r, currency)
  <2> DEFINE order == r.ref
             c == Cents(InUSD(r, currency))
  <2>1. Writes(d, e, "receipts") /\ LegWrites(d, e, order, currency, c)
    BY <1>2, LegGoes
  <2>2. FromSheet(rows, order, currency, c)
    BY DEF FromSheet
  <2>3. IsDB(e) /\ Goes(d, e)
    BY <2>1, WritesGoes DEF Goes
  <2>4. ReceiptIn(e, r, currency)
    <3> DEFINE key == [order |-> order, currency |-> currency]
    <3> HIDE DEF order, c
    <3>1. PICK p \in DOMAIN e["receipts"] : e["receipts"][p].order = order /\ e["receipts"][p].currency = currency
      BY <2>1 DEF LegWrites, Differs
    <3>2. \A f \in DOMAIN key : e["receipts"][p][f] = key[f]
      BY <3>1
    <3> HIDE DEF key
    <3>3. p \in Found(e, "receipts", key)
      BY <3>2 DEF Found
    <3>4. HasIn(e, "receipts", key)
      BY <3>3 DEF HasIn
    <3> QED
      BY <3>4 DEF ReceiptIn, key, order
  <2>5. ReceiptsFrom(d, rows) => ReceiptsFrom(e, rows)
    <3> HIDE DEF order, c
    <3> QED
      BY <2>1, <2>2, LegFrom
  <2> QED
    BY <2>3, <2>4, <2>5
<1> QED
  BY <1>1, <1>2

\* An order and its two receipts.
LEMMA OrdersGoes ==
    ASSUME NEW d, IsDB(d), NEW r, r \in OrderRow, NEW day \in Nat,
           NEW e, e = UpsertOrders(d, r, day), NEW rows, NEW i \in DOMAIN rows, rows[i] = r
    PROVE  /\ IsDB(e) /\ Goes(d, e) /\ OrderIn(e, r)
           /\ ReceiptsFrom(d, rows) => ReceiptsFrom(e, rows)
<1> DEFINE ref == r.ref
           o == Upsert(ResolveClient(d, r.client), "orders", [ref |-> ref], OrderOf(r))
           u == ReceiptLeg(o, r, "USD", day)
<1>1. e = ReceiptLeg(u, r, "ZIG", day)
  BY DEF UpsertOrders, UpsertOrderReceipts, OrderOf
<1>2. IsDB(o) /\ Beside(d, o) /\ ClientIn(o, r.client) /\ HasIn(o, "orders", [ref |-> ref])
  <2> DEFINE t == "orders"
             row == OrderOf(r)
             client == r.client
             key == [ref |-> row.ref]
  <2>1. o = Upsert(ResolveClient(d, client), t, key, row) /\ key = [ref |-> ref]
    BY DEF OrderOf
  <2>2. t \in {"contracts", "orders"} /\ row \in RowsOf(t) /\ client \in STRING
    BY AgreementIs
  <2>3. IsDB(o) /\ Beside(d, o) /\ ClientIn(o, client) /\ HasIn(o, t, key)
    <3> HIDE DEF o, t, row, client
    <3> QED
      BY <2>1, <2>2, AgreementGoes
  <2> QED
    BY <2>1, <2>3
<1> HIDE DEF o
<1>4. IsDB(u) /\ Goes(o, u) /\ ReceiptIn(u, r, "USD") /\ (ReceiptsFrom(o, rows) => ReceiptsFrom(u, rows))
  BY <1>2, ReceiptGoes
<1> HIDE DEF u
<1>5. IsDB(e) /\ Goes(u, e) /\ ReceiptIn(e, r, "ZIG") /\ (ReceiptsFrom(u, rows) => ReceiptsFrom(e, rows))
  BY <1>1, <1>4, ReceiptGoes
<1>6. ReceiptIn(e, r, "USD")
  BY <1>4, <1>5, ReceiptStays
<1>7. Goes(d, o) /\ Goes(o, e)
  BY <1>2, <1>4, <1>5, GoesOn DEF Beside
<1>8. ClientIn(e, r.client) /\ HasIn(e, "orders", [ref |-> ref])
  <2> DEFINE key == [ref |-> ref]
  <2>1. "orders" \in Tables /\ (\A f \in DOMAIN key : f \in NaturalKey["orders"]) /\ HasIn(o, "orders", key)
    BY <1>2 DEF Tables, NaturalKey
  <2>2. HasIn(e, "orders", key)
    <3> HIDE DEF key
    <3> QED
      BY <1>2, <1>7, <2>1, HasStays
  <2> QED
    BY <1>2, <1>7, <2>2, ClientStays
<1>9. OrderIn(e, r)
  BY <1>5, <1>6, <1>8 DEF OrderIn
<1>10. ReceiptsFrom(d, rows) => ReceiptsFrom(e, rows)
  BY <1>2, <1>4, <1>5, ReceiptsBeside
<1> QED
  BY <1>2, <1>5, <1>7, <1>9, <1>10, GoesOn

\* An expense of an order that the sheet has.
LEMMA OrderExpensesGoes ==
    ASSUME NEW d, IsDB(d), NEW r, r \in [ref : STRING, text : STRING, amount : Int], NEW orders,
           NEW e, e = UpsertOrderExpenses(d, r, orders)
    PROVE  IsDB(e) /\ Beside(d, e) /\ OrderExpenseIn(e, r, orders)
<1> DEFINE t == "orderExpenses"
           key == [order |-> r.ref, text |-> r.text, amount |-> r.amount]
           row == [order |-> r.ref, text |-> r.text, amount |-> Cents(r.amount)]
<1>1. CASE r.ref \notin orders
  BY <1>1, BesideNowhere DEF UpsertOrderExpenses, OrderExpenseIn
<1>2. CASE r.ref \in orders
  <2>1. e = Upsert(d, t, key, row)
    BY <1>2 DEF UpsertOrderExpenses
  <2>2. Cents(r.amount) \in Cent
    BY CentsAgain
  <2>3. t \in Plain /\ row \in RowsOf(t) /\ KeyOf(key, row, t) /\ \A f \in DOMAIN row : row[f] = row[f]
    BY <2>2 DEF Plain, Tables, RowsOf, TableRow, KeyOf, NaturalKey
  <2>4. IsDB(e) /\ Beside(d, e) /\ HasIn(e, t, row)
    <3> HIDE DEF t, key, row
    <3> QED
      BY <2>1, <2>3, UpsertGoes
  <2> QED
    BY <2>4 DEF OrderExpenseIn
<1> QED
  BY <1>1, <1>2

\* A row without a date gets the day of the import.
LEMMA DateIs ==
    ASSUME NEW r, r.date \in Nat \cup {None}, NEW day \in Nat
    PROVE  DateOf(r, day) \in Nat /\ (r.date = None \/ r.date = DateOf(r, day))
BY DEF DateOf

\* A general expense.
LEMMA GeneralExpensesGoes ==
    ASSUME NEW d, IsDB(d), NEW r, r \in [text : STRING, amount : Int, date : Nat \cup {None}], NEW day \in Nat,
           NEW e, e = UpsertGeneralExpenses(d, r, day)
    PROVE  IsDB(e) /\ Beside(d, e) /\ GeneralExpenseIn(e, r)
<1> DEFINE t == "generalExpenses"
           date == DateOf(r, day)
           key == [text |-> r.text, amount |-> r.amount, date |-> date]
           row == [text |-> r.text, amount |-> Cents(r.amount), date |-> date]
           sought == [text |-> r.text, amount |-> Cents(r.amount)]
<1>1. e = Upsert(d, t, key, row)
  BY DEF UpsertGeneralExpenses
<1>2. Cents(r.amount) \in Cent /\ date \in Nat /\ (r.date = None \/ r.date = date)
  BY CentsAgain, DateIs
<1> HIDE DEF date
<1>3. t \in Plain /\ row \in RowsOf(t) /\ KeyOf(key, row, t) /\ (\A f \in DOMAIN sought : row[f] = sought[f])
      /\ row.date = date
  BY <1>2 DEF Plain, Tables, RowsOf, TableRow, KeyOf, NaturalKey
<1>4. IsDB(e) /\ Beside(d, e) /\ HasInOn(e, t, sought, r.date)
  <2> HIDE DEF t, key, row, sought
  <2> QED
    BY <1>1, <1>2, <1>3, UpsertGoes
<1> QED
  BY <1>4 DEF GeneralExpenseIn

\* The overhead of a month in one category.
LEMMA BucketGoes ==
    ASSUME NEW d, IsDB(d), NEW month \in Nat, NEW category, category \in {"Salaries", "Other"}, NEW amount \in Int,
           NEW e, e = OverheadBucket(d, month, category, amount)
    PROVE  IsDB(e) /\ Beside(d, e) /\ OverheadIn(e, month, category, amount)
<1> DEFINE t == "overheads"
           key == [date |-> month, text |-> category]
           row == [date |-> month, text |-> category, amount |-> Cents(amount)]
<1>1. CASE amount = 0
  BY <1>1, BesideNowhere DEF OverheadBucket, OverheadIn
<1>2. CASE amount # 0
  <2>1. e = Upsert(d, t, key, row)
    BY <1>2 DEF OverheadBucket
  <2>2. Cents(amount) \in Cent
    BY CentsAgain
  <2>3. t \in Plain /\ row \in RowsOf(t) /\ KeyOf(key, row, t) /\ \A f \in DOMAIN key : row[f] = key[f]
    BY <2>2 DEF Plain, Tables, RowsOf, TableRow, KeyOf, NaturalKey
  <2>4. IsDB(e) /\ Beside(d, e) /\ HasIn(e, t, key)
    <3> HIDE DEF t, key, row
    <3> QED
      BY <2>1, <2>3, UpsertGoes
  <2> QED
    BY <2>4 DEF OverheadIn
<1> QED
  BY <1>1, <1>2

\* The overheads: of the rows of one month, the first.
LEMMA OverheadsGoes ==
    ASSUME NEW d, IsDB(d), NEW rows, NEW i \in DOMAIN rows,
           rows[i] \in [date : Nat \cup {None}, amount : Int, other : Int],
           NEW e, e = UpsertOverheads(d, rows, i)
    PROVE  /\ IsDB(e) /\ Beside(d, e)
           /\ i \in FirstOfMonth(rows) =>
                OverheadIn(e, rows[i].date, "Salaries", rows[i].amount) /\ OverheadIn(e, rows[i].date, "Other", rows[i].other)
<1>1. CASE i \notin FirstOfMonth(rows)
  BY <1>1, BesideNowhere DEF UpsertOverheads
<1>2. CASE i \in FirstOfMonth(rows)
  <2> DEFINE month == rows[i].date
             amount == rows[i].amount
             other == rows[i].other
             u == OverheadBucket(d, month, "Salaries", amount)
  <2>1. month \in Nat /\ amount \in Int /\ other \in Int
    BY <1>2 DEF FirstOfMonth
  <2>2. e = OverheadBucket(u, month, "Other", other)
    BY <1>2 DEF UpsertOverheads
  <2> HIDE DEF month, amount, other
  <2>3. IsDB(u) /\ Beside(d, u) /\ OverheadIn(u, month, "Salaries", amount)
    BY <2>1, BucketGoes
  <2> HIDE DEF u
  <2>4. IsDB(e) /\ Beside(u, e) /\ OverheadIn(e, month, "Other", other)
    BY <2>1, <2>2, <2>3, BucketGoes
  <2>5. OverheadIn(e, month, "Salaries", amount)
    BY <2>3, <2>4, OverheadStays DEF Beside
  <2> QED
    BY <2>3, <2>4, <2>5, BesideOn DEF month, amount, other
<1> QED
  BY <1>1, <1>2

\* A loan and its repayment.
LEMMA LoansGoes ==
    ASSUME NEW d, IsDB(d), NEW r, r \in [text : STRING, amount : Int, date : Nat \cup {None}, paid : Int], NEW day \in Nat,
           NEW e, e = UpsertLoans(d, r, day)
    PROVE  IsDB(e) /\ Beside(d, e) /\ LoanIn(e, r)
<1> DEFINE t == "loans"
           date == DateOf(r, day)
           key == [text |-> r.text, amount |-> r.amount, date |-> date]
           row == [text |-> r.text, amount |-> Cents(r.amount), date |-> date]
           sought == [text |-> r.text, amount |-> Cents(r.amount)]
           lent == Upsert(d, t, key, row)
           id == Place(d, t, key)
           paid == [loan |-> id, amount |-> r.paid]
           repaid == [loan |-> id, amount |-> Cents(r.paid)]
<1>1. e = IF r.paid <= 0 THEN lent ELSE Upsert(lent, "repayments", paid, repaid)
  BY DEF UpsertLoans
<1>2. Cents(r.amount) \in Cent /\ Cents(r.paid) \in Cent /\ date \in Nat /\ (r.date = None \/ r.date = date)
  BY CentsAgain, DateIs
<1>3. id \in Nat
  <2>1. d[t] \in Seq(RowsOf(t))
    BY DEF IsDB, Tables
  <2> HIDE DEF t, key
  <2>2. id \in 1..(Len(d[t]) + 1)
    BY <2>1, PlaceIs
  <2> QED
    BY <2>1, <2>2
<1> HIDE DEF date, id
<1>4. t \in Plain /\ row \in RowsOf(t) /\ KeyOf(key, row, t) /\ (\A f \in DOMAIN sought : row[f] = sought[f])
      /\ row.date = date
  BY <1>2 DEF Plain, Tables, RowsOf, TableRow, KeyOf, NaturalKey
<1>5. IsDB(lent) /\ Beside(d, lent) /\ HasInOn(lent, t, sought, r.date)
  <2> HIDE DEF t, key, row, sought
  <2> QED
    BY <1>2, <1>4, UpsertGoes
<1>6. LoanIn(lent, r)
  BY <1>5 DEF LoanIn
<1>7. "repayments" \in Plain /\ repaid \in RowsOf("repayments") /\ KeyOf(paid, repaid, "repayments")
      /\ (\A f \in DOMAIN repaid : repaid[f] = repaid[f])
  BY <1>2, <1>3 DEF Plain, Tables, RowsOf, TableRow, KeyOf, NaturalKey
<1> HIDE DEF lent, paid, repaid
<1>8. CASE r.paid <= 0
  BY <1>1, <1>5, <1>6, <1>8
<1>9. CASE ~(r.paid <= 0)
  <2>1. e = Upsert(lent, "repayments", paid, repaid)
    BY <1>1, <1>9
  <2>2. IsDB(e) /\ Beside(lent, e)
    BY <1>5, <1>7, <2>1, UpsertGoes
  <2>3. LoanIn(e, r)
    BY <1>5, <1>6, <2>2, RowStays DEF Beside
  <2> QED
    BY <1>5, <2>2, <2>3, BesideOn
<1> QED
  BY <1>8, <1>9

Claim == [contract : STRING, amount : Cent, date : Nat, posted : Cent]

\* A payment of a contract: the claim and its journal.
LEMMA ClaimsGoes ==
    ASSUME NEW d, IsDB(d), NEW r, r \in [ref : STRING, amount : Int, date : Nat \cup {None}], NEW contracts, NEW day \in Nat,
           NEW e, e = UpsertContractClaims(d, r, contracts, day)
    PROVE  IsDB(e) /\ Beside(d, e) /\ ClaimIn(e, r, contracts)
<1>1. CASE r.ref \notin contracts
  BY <1>1, BesideNowhere DEF UpsertContractClaims, ClaimIn
<1>2. CASE r.ref \in contracts
  <2> DEFINE t == "claims"
             date == DateOf(r, day)
             key == [contract |-> r.ref, amount |-> r.amount, date |-> date]
             row == [contract |-> r.ref, amount |-> Cents(r.amount), date |-> date]
             sought == [contract |-> r.ref, amount |-> Cents(r.amount)]
             p == Place(d, t, key)
  <2>1. e = Post(Upsert(d, t, key, row), t, p)
    BY <1>2 DEF UpsertContractClaims
  <2>2. Cents(r.amount) \in Cent /\ date \in Nat /\ (r.date = None \/ r.date = date)
    BY CentsAgain, DateIs
  <2> HIDE DEF date
  <2>3. "posted" \notin DOMAIN row
    OBVIOUS
  <2>4. /\ DOMAIN e = Tables /\ IsTables(e) /\ \A u \in Tables : u # t => e[u] = d[u]
        /\ Differs(d[t], e[t], p)
        /\ p \notin DOMAIN d[t] => e[t][p] = Journalled(row)
        /\ p \in DOMAIN d[t] => p \in Found(d, t, key) /\ e[t][p] = Update(d[t][p], row)
    <3> HIDE DEF key, row, p
    <3> QED
      BY <2>1, <2>3, PostedUpsert DEF p
  <2> HIDE DEF p
  <2>5. /\ d[t] \in Seq(RowsOf(t))
        /\ \A i \in DOMAIN d[t] : "posted" \in DOMAIN d[t][i] /\ d[t][i].posted = d[t][i].amount
    BY DEF IsDB, Tables
  <2>6. \A x : x \in RowsOf(t) /\ "posted" \in DOMAIN x <=> x \in Claim
    BY DEF RowsOf, TableRow, Claim
  <2>7. /\ e[t][p] \in Claim /\ e[t][p].contract = r.ref /\ e[t][p].amount = Cents(r.amount)
        /\ e[t][p].date = date /\ e[t][p].posted = e[t][p].amount
        /\ p \in DOMAIN d[t] => \A f \in NaturalKey[t] : e[t][p][f] = d[t][p][f]
    <3>1. CASE p \in DOMAIN d[t]
      <4>1. d[t][p] \in Claim /\ d[t][p].posted = d[t][p].amount
        BY <2>5, <2>6, <3>1
      <4>2. d[t][p].contract = r.ref /\ d[t][p].amount = r.amount /\ d[t][p].date = date
        BY <2>4, <3>1 DEF Found
      <4>3. Cents(r.amount) = r.amount
        BY <4>1, <4>2 DEF Claim, Cent
      <4>4. /\ e[t][p] \in Claim /\ e[t][p].contract = r.ref /\ e[t][p].amount = Cents(r.amount)
            /\ e[t][p].date = date /\ e[t][p].posted = d[t][p].posted
        BY <2>2, <2>4, <3>1, <4>1 DEF Update, Claim
      <4> QED
        BY <4>1, <4>2, <4>3, <4>4 DEF NaturalKey
    <3>2. CASE p \notin DOMAIN d[t]
      BY <2>2, <2>4, <3>2 DEF Journalled, Update, Claim
    <3> QED
      BY <3>1, <3>2
  <2>8. e[t][p] \in RowsOf(t) /\ "posted" \in DOMAIN e[t][p] /\ p \in DOMAIN e[t]
    BY <2>4, <2>6, <2>7 DEF Differs
  <2>9. Writes(d, e, t)
    <3>1. t \in Tables
      BY DEF Tables
    <3> QED
      BY <2>4, <2>7, <2>8, <3>1, OneRow
  <2>10. HasInOn(e, t, sought, r.date)
    <3>1. p \in Found(e, t, sought)
      BY <2>7, <2>8 DEF Found
    <3> QED
      BY <2>2, <2>7, <3>1 DEF HasInOn
  <2>11. ClaimIn(e, r, contracts)
    BY <2>10 DEF ClaimIn
  <2> QED
    BY <2>9, <2>11, WritesGoes DEF Beside, Goes
<1> QED
  BY <1>1, <1>2

\* A debt of one tax and its payment.
LEMMA DebtLegGoes ==
    ASSUME NEW d, IsDB(d), NEW r, r \in [amount : Int, other : Int, paid : Int, date : Nat \cup {None}],
           NEW tax, tax \in {"PAYE", "VAT"}, NEW principal \in Int, NEW day \in Nat,
           NEW e, e = DebtLeg(d, r, tax, principal, day)
    PROVE  IsDB(e) /\ Beside(d, e) /\ DebtIn(e, tax, principal, r.date)
<1>1. CASE principal <= 0
  <2>1. e = d /\ ~(principal > 0)
    BY <1>1 DEF DebtLeg
  <2> QED
    BY <2>1, BesideNowhere DEF DebtIn
<1>2. CASE ~(principal <= 0)
  <2> DEFINE t == "taxDebt"
             date == DateOf(r, day)
             key == [tax |-> tax, amount |-> principal, date |-> date]
             row == [tax |-> tax, amount |-> Cents(principal), date |-> date, paid |-> Cents(r.paid)]
             sought == [tax |-> tax, amount |-> Cents(principal)]
  <2>1. e = Upsert(d, t, key, row)
    BY <1>2 DEF DebtLeg
  <2>2. Cents(principal) \in Cent /\ Cents(r.paid) \in Cent /\ date \in Nat /\ (r.date = None \/ r.date = date)
    BY CentsAgain, DateIs
  <2> HIDE DEF date
  <2>3. t \in Plain /\ row \in RowsOf(t) /\ KeyOf(key, row, t) /\ (\A f \in DOMAIN sought : row[f] = sought[f])
        /\ row.date = date
    BY <2>2 DEF Plain, Tables, RowsOf, TableRow, KeyOf, NaturalKey
  <2>4. IsDB(e) /\ Beside(d, e) /\ HasInOn(e, t, sought, r.date)
    <3> HIDE DEF t, key, row, sought
    <3> QED
      BY <2>1, <2>2, <2>3, UpsertGoes
  <2> QED
    BY <2>4 DEF DebtIn
<1> QED
  BY <1>1, <1>2

\* The debts of one row, of PAYE and of VAT.
LEMMA TaxDebtGoes ==
    ASSUME NEW d, IsDB(d), NEW r, r \in [amount : Int, other : Int, paid : Int, date : Nat \cup {None}],
           NEW day \in Nat, NEW e, e = UpsertTaxDebt(d, r, day)
    PROVE  IsDB(e) /\ Beside(d, e) /\ DebtIn(e, "PAYE", r.amount, r.date) /\ DebtIn(e, "VAT", r.other, r.date)
<1> DEFINE amount == r.amount
           other == r.other
           date == r.date
           u == DebtLeg(d, r, "PAYE", amount, day)
<1>1. e = DebtLeg(u, r, "VAT", other, day) /\ amount \in Int /\ other \in Int
  BY DEF UpsertTaxDebt
<1>2. IsDB(u) /\ Beside(d, u) /\ DebtIn(u, "PAYE", amount, date)
  <2> HIDE DEF amount
  <2> QED
    BY <1>1, DebtLegGoes
<1> HIDE DEF u
<1>3. IsDB(e) /\ Beside(u, e) /\ DebtIn(e, "VAT", other, date)
  <2> HIDE DEF other
  <2> QED
    BY <1>1, <1>2, DebtLegGoes
<1>4. DebtIn(e, "PAYE", amount, date)
  <2> HIDE DEF amount, date
  <2> QED
    BY <1>2, <1>3, DebtStays DEF Beside
<1> QED
  BY <1>2, <1>3, <1>4, BesideOn

\* The employee a line of a payroll or the hours name.
LEMMA EmployeeGoes ==
    ASSUME NEW d, IsDB(d), NEW name, name \in STRING, NEW e, e = UpsertEmployee(d, name)
    PROVE  IsDB(e) /\ Beside(d, e)
<1> DEFINE t == "employees"
           key == [name |-> name]
<1>1. e = Upsert(d, t, key, key)
  BY DEF UpsertEmployee
<1>2. t \in Plain /\ key \in RowsOf(t) /\ KeyOf(key, key, t) /\ \A f \in DOMAIN key : key[f] = key[f]
  BY DEF Plain, Tables, RowsOf, TableRow, KeyOf, NaturalKey
<1> HIDE DEF t, key
<1> QED
  BY <1>1, <1>2, UpsertGoes

\* A line of a payroll.
LEMMA LineGoes ==
    ASSUME NEW d, IsDB(d), NEW r, r \in [name : STRING, date : Nat, amount : Int, paye : Int],
           NEW e, e = UpsertPayrollLine(UpsertEmployee(d, r.name), r)
    PROVE  IsDB(e) /\ Beside(d, e) /\ LineIn(e, r)
<1> DEFINE t == "lines"
           u == UpsertEmployee(d, r.name)
           key == [date |-> r.date, name |-> r.name]
           row == [date |-> r.date, name |-> r.name, amount |-> Cents(r.amount), paye |-> Cents(r.paye)]
           sought == [name |-> r.name, date |-> r.date]
<1>1. e = Upsert(u, t, key, row)
  BY DEF UpsertPayrollLine
<1>2. IsDB(u) /\ Beside(d, u)
  BY EmployeeGoes
<1>3. Cents(r.amount) \in Cent /\ Cents(r.paye) \in Cent
  BY CentsAgain
<1>4. t \in Plain /\ row \in RowsOf(t) /\ KeyOf(key, row, t) /\ \A f \in DOMAIN sought : row[f] = sought[f]
  BY <1>3 DEF Plain, Tables, RowsOf, TableRow, KeyOf, NaturalKey
<1> HIDE DEF u
<1>5. IsDB(e) /\ Beside(u, e) /\ HasIn(e, t, sought)
  <2> HIDE DEF t, key, row, sought
  <2> QED
    BY <1>1, <1>2, <1>4, UpsertGoes
<1> QED
  BY <1>2, <1>5, BesideOn DEF LineIn

\* The timesheet of a month.
LEMMA PeriodGoes ==
    ASSUME NEW d, IsDB(d), NEW month \in Nat, NEW e, e = EnsureTimesheetPeriod(d, month)
    PROVE  IsDB(e) /\ Beside(d, e)
<1> DEFINE t == "periods"
           key == [date |-> month]
           row == [date |-> month, status |-> "OPEN"]
<1>1. CASE Found(d, t, key) # {}
  BY <1>1, BesideNowhere DEF EnsureTimesheetPeriod
<1>2. CASE ~(Found(d, t, key) # {})
  <2>1. e = Added(d, t, row)
    BY <1>2 DEF EnsureTimesheetPeriod, Added
  <2>2. t \in Plain /\ row \in RowsOf(t) /\ \A f \in DOMAIN key : row[f] = key[f]
    BY DEF Plain, Tables, RowsOf, TableRow
  <2> HIDE DEF t, key, row
  <2> QED
    BY <2>1, <2>2, AppendGoes
<1> QED
  BY <1>1, <1>2

\* The payroll run of a month.
LEMMA RunGoes ==
    ASSUME NEW d, IsDB(d), NEW month \in Nat, NEW e, e = UpsertPayrollRun(d, month)
    PROVE  IsDB(e) /\ Beside(d, e)
<1> DEFINE t == "runs"
           key == [date |-> month]
           row == [date |-> month, status |-> "APPROVED"]
<1>1. CASE Found(d, t, key) # {}
  BY <1>1, BesideNowhere DEF UpsertPayrollRun
<1>2. CASE ~(Found(d, t, key) # {})
  <2>1. e = Added(d, t, row)
    BY <1>2 DEF UpsertPayrollRun, Added
  <2>2. t \in Plain /\ row \in RowsOf(t) /\ \A f \in DOMAIN key : row[f] = key[f]
    BY DEF Plain, Tables, RowsOf, TableRow
  <2> HIDE DEF t, key, row
  <2> QED
    BY <2>1, <2>2, AppendGoes
<1> QED
  BY <1>1, <1>2

\* The hours of one row, of an employee or of nobody known.
LEMMA HoursGoes ==
    ASSUME NEW d, IsDB(d), NEW r, r \in [name : STRING, date : Nat, amount : Int], NEW e, e = ImportManhours(d, r)
    PROVE  IsDB(e) /\ Beside(d, e)
<1> DEFINE t == "entries"
           open == EnsureTimesheetPeriod(d, r.date)
           key == [date |-> r.date, name |-> r.name]
           row == [date |-> r.date, name |-> r.name, amount |-> Cents(r.amount)]
<1>1. e = d \/ e = open \/ e = Upsert(open, t, key, row)
  BY DEF ImportManhours
<1>2. IsDB(open) /\ Beside(d, open)
  BY PeriodGoes
<1>3. Cents(r.amount) \in Cent
  BY CentsAgain
<1>4. t \in Plain /\ row \in RowsOf(t) /\ KeyOf(key, row, t) /\ \A f \in DOMAIN key : row[f] = key[f]
  BY <1>3 DEF Plain, Tables, RowsOf, TableRow, KeyOf, NaturalKey
<1> HIDE DEF t, key, row, open
<1>5. CASE e = Upsert(open, t, key, row)
  <2>1. IsDB(e) /\ Beside(open, e)
    BY <1>2, <1>4, <1>5, UpsertGoes
  <2> QED
    BY <1>2, <2>1, BesideOn
<1> QED
  BY <1>1, <1>2, <1>5, BesideNowhere

\* The PAYE return of a payroll.
LEMMA ReturnGoes ==
    ASSUME NEW d, IsDB(d), NEW month \in Nat, NEW total \in Int, NEW e, e = PostStatutoryReturns(d, month, total)
    PROVE  IsDB(e) /\ Beside(d, e)
<1> DEFINE t == "returns"
           key == [date |-> month]
           row == [date |-> month, amount |-> Cents(total), status |-> "DUE"]
<1>1. e = d \/ e = Upsert(d, t, key, row)
  BY DEF PostStatutoryReturns
<1>2. Cents(total) \in Cent
  BY CentsAgain
<1>3. t \in Plain /\ row \in RowsOf(t) /\ KeyOf(key, row, t) /\ \A f \in DOMAIN key : row[f] = key[f]
  BY <1>2 DEF Plain, Tables, RowsOf, TableRow, KeyOf, NaturalKey
<1> HIDE DEF t, key, row
<1> QED
  BY <1>1, <1>3, UpsertGoes, BesideNowhere

\* What is due of a tax.
LEMMA NetGoes ==
    ASSUME NEW d, IsDB(d), NEW tax, tax \in {"PAYE", "VAT"}, NEW amount \in Int, NEW e, e = NetPayable(d, tax, amount)
    PROVE  IsDB(e) /\ Beside(d, e)
<1> DEFINE t == "taxLedger"
           net == IF amount > 0 THEN Cents(amount) ELSE 0
           key == [tax |-> tax]
           row == [tax |-> tax, amount |-> net]
<1>1. e = Upsert(d, t, key, row)
  BY DEF NetPayable
<1>2. net \in Cent
  <2>1. Cents(0) = 0
    BY DEF Cents
  <2> QED
    BY <2>1, CentsAgain DEF Cent
<1> HIDE DEF net
<1>3. t \in Plain /\ row \in RowsOf(t) /\ KeyOf(key, row, t) /\ \A f \in DOMAIN key : row[f] = key[f]
  BY <1>2 DEF Plain, Tables, RowsOf, TableRow, KeyOf, NaturalKey
<1> HIDE DEF t, key, row
<1> QED
  BY <1>1, <1>3, UpsertGoes

\* What the row of a sheet does to the tables, whatever they hold.
Carried(d, e, b) == IsDB(e) /\ Goes(d, e) /\ (ReceiptsFrom(d, b["Orders"]) => ReceiptsFrom(e, b["Orders"]))

\* Beside the receipts, every receipt of an order is still from the sheet.
LEMMA CarriedBeside == ASSUME NEW d, NEW e, IsDB(e), Beside(d, e), NEW b PROVE Carried(d, e, b)
BY ReceiptsBeside DEF Carried, Beside

\* Two steps that carry the tables on do so together.
LEMMA CarriedOn == ASSUME NEW d, NEW e, NEW f, NEW b, IsDB(d), Carried(d, e, b), Carried(e, f, b) PROVE Carried(d, f, b)
BY GoesOn DEF Carried

\* Whatever the tables hold, writing a row of a sheet carries them on, and the
\* row is then written.
THEOREM RowGoes ==
    ASSUME NEW d, IsDB(d), NEW b \in Books, NEW s \in Sheets, NEW i \in DOMAIN b[s], NEW day \in Nat,
           NEW e, e = WriteRow(d, b, s, i, day)
    PROVE  Carried(d, e, b) /\ Written(e, b, s, i)
<1> DEFINE rows == b[s]
           r == rows[i]
<1>1. rows \in Seq(SheetRow[s]) /\ r \in SheetRow[s]
  BY BooksAssumption
<1>2. CASE s = "Settings"
  <2>1. e = UpsertSettings(d, r)
    BY <1>2 DEF WriteRow
  <2>2. r \in [key : STRING, date : Nat, value : Int]
    BY <1>1, <1>2 DEF SheetRow
  <2>3. IsDB(e) /\ Beside(d, e) /\ SettingsIn(e, r)
    <3> HIDE DEF rows, r
    <3> QED
      BY <2>1, <2>2, SettingsGoes
  <2> QED
    BY <1>2, <2>3, CarriedBeside DEF Written
<1>3. CASE s = "Clients"
  <2>1. e = UpsertClients(d, r)
    BY <1>3 DEF WriteRow
  <2>2. r \in [name : STRING]
    BY <1>1, <1>3 DEF SheetRow
  <2>3. IsDB(e) /\ Beside(d, e) /\ ClientIn(e, r.name)
    <3> HIDE DEF rows, r
    <3> QED
      BY <2>1, <2>2, ClientsGoes
  <2> QED
    BY <1>3, <2>3, CarriedBeside DEF Written
<1>4. CASE s = "Contracts"
  <2>1. e = UpsertContracts(d, r, day)
    BY <1>4 DEF WriteRow
  <2>2. r \in SheetRow["Contracts"]
    BY <1>1, <1>4
  <2>3. IsDB(e) /\ Beside(d, e) /\ ContractIn(e, r)
    <3> HIDE DEF rows, r
    <3> QED
      BY <2>1, <2>2, ContractsGoes
  <2> QED
    BY <1>4, <2>3, CarriedBeside DEF Written
<1>5. CASE s = "Orders"
  <2>1. e = UpsertOrders(d, r, day)
    BY <1>5 DEF WriteRow
  <2>2. r \in OrderRow
    BY <1>1, <1>5 DEF OrderRow
  <2>3. i \in DOMAIN rows /\ rows[i] = r /\ rows = b["Orders"]
    BY <1>5
  <2>4. /\ IsDB(e) /\ Goes(d, e) /\ OrderIn(e, r)
        /\ ReceiptsFrom(d, rows) => ReceiptsFrom(e, rows)
    <3> HIDE DEF rows, r
    <3> QED
      BY <2>1, <2>2, <2>3, OrdersGoes
  <2> QED
    BY <1>5, <2>3, <2>4 DEF Carried, Written
<1>6. CASE s = "OrderExpenses"
  <2>1. e = UpsertOrderExpenses(d, r, Refs(b["Orders"]))
    BY <1>6 DEF WriteRow
  <2>2. r \in [ref : STRING, text : STRING, amount : Int]
    BY <1>1, <1>6 DEF SheetRow
  <2>3. IsDB(e) /\ Beside(d, e) /\ OrderExpenseIn(e, r, Refs(b["Orders"]))
    <3> HIDE DEF rows, r
    <3> QED
      BY <2>1, <2>2, OrderExpensesGoes
  <2> QED
    BY <1>6, <2>3, CarriedBeside DEF Written
<1>7. CASE s = "GeneralExpenses"
  <2>1. e = UpsertGeneralExpenses(d, r, day)
    BY <1>7 DEF WriteRow
  <2>2. r \in [text : STRING, amount : Int, date : Nat \cup {None}]
    BY <1>1, <1>7 DEF SheetRow
  <2>3. IsDB(e) /\ Beside(d, e) /\ GeneralExpenseIn(e, r)
    <3> HIDE DEF rows, r
    <3> QED
      BY <2>1, <2>2, GeneralExpensesGoes
  <2> QED
    BY <1>7, <2>3, CarriedBeside DEF Written
<1>8. CASE s = "Overheads"
  <2>1. e = UpsertOverheads(d, rows, i)
    BY <1>8 DEF WriteRow
  <2>2. r \in [date : Nat \cup {None}, amount : Int, other : Int]
    BY <1>1, <1>8 DEF SheetRow
  <2>3. IsDB(e) /\ Beside(d, e) /\ (i \in FirstOfMonth(rows) =>
                OverheadIn(e, r.date, "Salaries", r.amount) /\ OverheadIn(e, r.date, "Other", r.other))
    BY <2>1, <2>2, OverheadsGoes
  <2> QED
    BY <1>8, <2>3, CarriedBeside DEF Written
<1>9. CASE s = "Loans"
  <2>1. e = UpsertLoans(d, r, day)
    BY <1>9 DEF WriteRow
  <2>2. r \in [text : STRING, amount : Int, date : Nat \cup {None}, paid : Int]
    BY <1>1, <1>9 DEF SheetRow
  <2>3. IsDB(e) /\ Beside(d, e) /\ LoanIn(e, r)
    <3> HIDE DEF rows, r
    <3> QED
      BY <2>1, <2>2, LoansGoes
  <2> QED
    BY <1>9, <2>3, CarriedBeside DEF Written
<1>10. CASE s = "ContractPayments"
  <2>1. e = UpsertContractClaims(d, r, Refs(b["Contracts"]), day)
    BY <1>10 DEF WriteRow
  <2>2. r \in [ref : STRING, amount : Int, date : Nat \cup {None}]
    BY <1>1, <1>10 DEF SheetRow
  <2>3. IsDB(e) /\ Beside(d, e) /\ ClaimIn(e, r, Refs(b["Contracts"]))
    <3> HIDE DEF rows, r
    <3> QED
      BY <2>1, <2>2, ClaimsGoes
  <2> QED
    BY <1>10, <2>3, CarriedBeside DEF Written
<1>11. CASE s = "OtherTaxDebt"
  <2>1. e = UpsertTaxDebt(d, r, day)
    BY <1>11 DEF WriteRow
  <2>2. r \in [amount : Int, other : Int, paid : Int, date : Nat \cup {None}]
    BY <1>1, <1>11 DEF SheetRow
  <2>3. IsDB(e) /\ Beside(d, e) /\ DebtIn(e, "PAYE", r.amount, r.date) /\ DebtIn(e, "VAT", r.other, r.date)
    <3> HIDE DEF rows, r
    <3> QED
      BY <2>1, <2>2, TaxDebtGoes
  <2> QED
    BY <1>11, <2>3, CarriedBeside DEF Written
<1>12. CASE s = "Payroll"
  <2>1. e = UpsertPayrollLine(UpsertEmployee(d, r.name), r)
    BY <1>12 DEF WriteRow
  <2>2. r \in [name : STRING, date : Nat, amount : Int, paye : Int]
    BY <1>1, <1>12 DEF SheetRow
  <2>3. IsDB(e) /\ Beside(d, e) /\ LineIn(e, r)
    <3> HIDE DEF rows, r
    <3> QED
      BY <2>1, <2>2, LineGoes
  <2> QED
    BY <1>12, <2>3, CarriedBeside DEF Written
<1>13. CASE s = "Manhours"
  <2>1. e = ImportManhours(d, r)
    BY <1>13 DEF WriteRow
  <2>2. r \in [name : STRING, date : Nat, amount : Int]
    BY <1>1, <1>13 DEF SheetRow
  <2>3. IsDB(e) /\ Beside(d, e)
    <3> HIDE DEF rows, r
    <3> QED
      BY <2>1, <2>2, HoursGoes
  <2> QED
    BY <1>13, <2>3, CarriedBeside DEF Written
<1> QED
  BY <1>2, <1>3, <1>4, <1>5, <1>6, <1>7, <1>8, <1>9, <1>10, <1>11, <1>12, <1>13 DEF Sheets, Cashflow

-----------------------------------------------------------------------------
(* Whole sheets, and the workbooks.                                        *)

\* The tables after each row of a sheet.
SheetStep(g, d, b, s, day, i) == IF i = 0 THEN d ELSE WriteRow(g[i - 1], b, s, i, day)

\* Writing a sheet is a sequence of tables, one for each row written.
LEMMA SheetUnfolds ==
    ASSUME NEW d, NEW b, NEW s, NEW day, NEW n \in Nat, n = Len(b[s])
    PROVE  \E g : (\A i \in 0..n : g[i] = SheetStep(g, d, b, s, day, i)) /\ ImportSheet(d, b, s, day) = g[n]
<1> DEFINE Upto(k) == \E g : DOMAIN g = 0..n /\ \A i \in 0..n : i <= k => g[i] = SheetStep(g, d, b, s, day, i)
           N == {k \in Nat : Upto(k)}
<1>1. Upto(0)
  <2> DEFINE g == [i \in 0..n |-> d]
  <2>1. DOMAIN g = 0..n /\ \A i \in 0..n : i <= 0 => g[i] = SheetStep(g, d, b, s, day, i)
    BY DEF SheetStep
  <2> QED
    BY <2>1
<1>2. ASSUME NEW k \in Nat, Upto(k) PROVE Upto(k + 1)
  <2>1. PICK g : DOMAIN g = 0..n /\ \A i \in 0..n : i <= k => g[i] = SheetStep(g, d, b, s, day, i)
    BY <1>2
  <2> DEFINE h == [i \in 0..n |-> IF i <= k THEN g[i] ELSE SheetStep(g, d, b, s, day, i)]
  <2>2. \A i \in 0..n : i <= k + 1 => h[i] = SheetStep(h, d, b, s, day, i)
    <3> TAKE i \in 0..n
    <3> HAVE i <= k + 1
    <3>1. h[i] = SheetStep(g, d, b, s, day, i)
      BY <2>1
    <3>2. SheetStep(g, d, b, s, day, i) = SheetStep(h, d, b, s, day, i)
      <4>1. i # 0 => i - 1 \in 0..n /\ i - 1 <= k
        OBVIOUS
      <4>2. i # 0 => h[i - 1] = g[i - 1]
        BY <4>1
      <4> HIDE DEF h
      <4> QED
        BY <4>2 DEF SheetStep
    <3> QED
      BY <3>1, <3>2
  <2>3. DOMAIN h = 0..n
    OBVIOUS
  <2> HIDE DEF h
  <2> QED
    BY <2>2, <2>3
<1>3. n \in N
  <2>1. 0 \in N
    BY <1>1
  <2>2. \A k \in Nat : k \in N => k + 1 \in N
    <3> HIDE DEF Upto
    <3> QED
      BY <1>2
  <2> HIDE DEF N
  <2> QED
    BY <2>1, <2>2, NatSet
<1>4. PICK g : DOMAIN g = 0..n /\ \A i \in 0..n : i <= n => g[i] = SheetStep(g, d, b, s, day, i)
  BY <1>3
<1> DEFINE h == [i \in 0..n |-> SheetStep(g, d, b, s, day, i)]
<1>5. \A i \in 0..n : g[i] = h[i] /\ i <= n
  BY <1>4
<1>6. h = [i \in 0..n |-> SheetStep(h, d, b, s, day, i)]
  <2>1. \A i \in 0..n : SheetStep(g, d, b, s, day, i) = SheetStep(h, d, b, s, day, i)
    <3> TAKE i \in 0..n
    <3>1. i # 0 => i - 1 \in 0..n
      OBVIOUS
    <3>2. i # 0 => h[i - 1] = g[i - 1]
      BY <1>5, <3>1
    <3> HIDE DEF h
    <3> QED
      BY <3>2 DEF SheetStep
  <2> QED
    BY <2>1
<1> DEFINE after == CHOOSE f : f = [i \in 0..n |-> SheetStep(f, d, b, s, day, i)]
<1>7. after = [i \in 0..n |-> SheetStep(after, d, b, s, day, i)]
  <2> HIDE DEF h
  <2> QED
    BY <1>6
<1>8. ImportSheet(d, b, s, day) = after[n]
  BY DEF ImportSheet, SheetStep
<1> HIDE DEF after
<1>9. \A i \in 0..n : after[i] = SheetStep(after, d, b, s, day, i)
  BY <1>7
<1> QED
  BY <1>8, <1>9

\* What the rows of a sheet add up to.
TotalStep(g, rows, column, i) == IF i = 0 THEN 0 ELSE g[i - 1] + rows[i][column]

\* A total of amounts is an amount.
LEMMA TotalIsInt ==
    ASSUME NEW rows, NEW column, NEW n \in Nat, n = Len(rows), \A i \in 1..n : rows[i][column] \in Int
    PROVE  Total(rows, column) \in Int
<1> DEFINE Upto(k) == \E g : DOMAIN g = 0..n /\ \A i \in 0..n : i <= k => g[i] = TotalStep(g, rows, column, i)
           N == {k \in Nat : Upto(k)}
<1>1. Upto(0)
  <2> DEFINE g == [i \in 0..n |-> 0]
  <2>1. DOMAIN g = 0..n /\ \A i \in 0..n : i <= 0 => g[i] = TotalStep(g, rows, column, i)
    BY DEF TotalStep
  <2> QED
    BY <2>1
<1>2. ASSUME NEW k \in Nat, Upto(k) PROVE Upto(k + 1)
  <2>1. PICK g : DOMAIN g = 0..n /\ \A i \in 0..n : i <= k => g[i] = TotalStep(g, rows, column, i)
    BY <1>2
  <2> DEFINE h == [i \in 0..n |-> IF i <= k THEN g[i] ELSE TotalStep(g, rows, column, i)]
  <2>2. \A i \in 0..n : i <= k + 1 => h[i] = TotalStep(h, rows, column, i)
    <3> TAKE i \in 0..n
    <3> HAVE i <= k + 1
    <3>1. h[i] = TotalStep(g, rows, column, i)
      BY <2>1
    <3>2. TotalStep(g, rows, column, i) = TotalStep(h, rows, column, i)
      <4>1. i # 0 => i - 1 \in 0..n /\ i - 1 <= k
        OBVIOUS
      <4>2. i # 0 => h[i - 1] = g[i - 1]
        BY <4>1
      <4> HIDE DEF h
      <4> QED
        BY <4>2 DEF TotalStep
    <3> QED
      BY <3>1, <3>2
  <2>3. DOMAIN h = 0..n
    OBVIOUS
  <2> HIDE DEF h
  <2> QED
    BY <2>2, <2>3
<1>3. n \in N
  <2>1. 0 \in N
    BY <1>1
  <2>2. \A k \in Nat : k \in N => k + 1 \in N
    <3> HIDE DEF Upto
    <3> QED
      BY <1>2
  <2> HIDE DEF N
  <2> QED
    BY <2>1, <2>2, NatSet
<1>4. PICK g : DOMAIN g = 0..n /\ \A i \in 0..n : i <= n => g[i] = TotalStep(g, rows, column, i)
  BY <1>3
<1> DEFINE h == [i \in 0..n |-> TotalStep(g, rows, column, i)]
<1>5. \A i \in 0..n : g[i] = h[i] /\ i <= n
  BY <1>4
<1>6. h = [i \in 0..n |-> TotalStep(h, rows, column, i)]
  <2>1. \A i \in 0..n : TotalStep(g, rows, column, i) = TotalStep(h, rows, column, i)
    <3> TAKE i \in 0..n
    <3>1. i # 0 => i - 1 \in 0..n
      OBVIOUS
    <3>2. i # 0 => h[i - 1] = g[i - 1]
      BY <1>5, <3>1
    <3> HIDE DEF h
    <3> QED
      BY <3>2 DEF TotalStep
  <2> QED
    BY <2>1
<1> DEFINE upto == CHOOSE f : f = [i \in 0..n |-> TotalStep(f, rows, column, i)]
<1>7. upto = [i \in 0..n |-> TotalStep(upto, rows, column, i)]
  <2> HIDE DEF h
  <2> QED
    BY <1>6
<1>8. Total(rows, column) = upto[n]
  BY DEF Total, TotalStep
<1> HIDE DEF upto
<1>9. \A i \in 0..n : upto[i] = TotalStep(upto, rows, column, i)
  BY <1>7
<1> DEFINE M == {k \in Nat : k <= n => upto[k] \in Int}
<1>10. n \in M
  <2>1. 0 \in M
    BY <1>9 DEF TotalStep
  <2>2. \A k \in Nat : k \in M => k + 1 \in M
    <3> SUFFICES ASSUME NEW k \in Nat, k \in M, k + 1 <= n PROVE upto[k + 1] \in Int
      OBVIOUS
    <3>1. k + 1 \in 0..n /\ k + 1 \in 1..n /\ upto[k] \in Int /\ (k + 1) - 1 = k /\ k + 1 # 0
      OBVIOUS
    <3>2. upto[k + 1] = upto[k] + rows[k + 1][column]
      BY <1>9, <3>1 DEF TotalStep
    <3> QED
      BY <3>1, <3>2
  <2> HIDE DEF M
  <2> QED
    BY <2>1, <2>2, NatSet
<1> QED
  BY <1>8, <1>10

SheetIn(d, b, s) == \A i \in DOMAIN b[s] : Written(d, b, s, i)

\* Tables left alone are carried on, whatever the workbook.
LEMMA CarriedNowhere == ASSUME NEW d, IsDB(d), NEW b PROVE Carried(d, d, b)
BY GoesNowhere DEF Carried

\* A sheet that is written stays written.
LEMMA SheetStays ==
    ASSUME NEW d, IsDB(d), NEW e, NEW b, Carried(d, e, b), NEW s, SheetIn(d, b, s)
    PROVE  SheetIn(e, b, s)
BY WrittenStays DEF SheetIn, Carried

\* A whole sheet, of any length, by the least row that would not be written.
LEMMA SheetGoes ==
    ASSUME NEW d, IsDB(d), NEW b \in Books, NEW s \in Sheets, NEW day \in Nat, NEW e, e = ImportSheet(d, b, s, day)
    PROVE  IsDB(e) /\ Carried(d, e, b) /\ SheetIn(e, b, s)
<1> DEFINE n == Len(b[s])
<1>1. n \in Nat /\ DOMAIN b[s] = 1..n /\ n = Len(b[s])
  BY BooksAssumption
<1> HIDE DEF n
<1>2. PICK g : (\A i \in 0..n : g[i] = SheetStep(g, d, b, s, day, i)) /\ ImportSheet(d, b, s, day) = g[n]
  <2>1. n \in Nat /\ n = Len(b[s])
    BY <1>1
  <2> QED
    BY <2>1, SheetUnfolds
<1> DEFINE Upto(k) == Carried(d, g[k], b) /\ \A i \in 1..k : Written(g[k], b, s, i)
           M == {k \in Nat : k <= n => Upto(k)}
<1>3. 0 \in M
  <2>1. g[0] = d
    BY <1>1, <1>2 DEF SheetStep
  <2> QED
    BY <2>1, CarriedNowhere
<1>4. \A k \in Nat : k \in M => k + 1 \in M
  <2> SUFFICES ASSUME NEW k \in Nat, Upto(k), k + 1 <= n PROVE Upto(k + 1)
    BY <1>1
  <2> DEFINE i == k + 1
             f == g[k]
             h == g[i]
  <2>1. i \in 0..n /\ i \in DOMAIN b[s] /\ i # 0 /\ i - 1 = k
    BY <1>1
  <2>2. h = WriteRow(f, b, s, i, day)
    BY <1>2, <2>1 DEF SheetStep
  <2>3. IsDB(f)
    BY DEF Carried
  <2> HIDE DEF f, h
  <2>4. Carried(f, h, b) /\ Written(h, b, s, i)
    <3> HIDE DEF i
    <3> QED
      BY <2>1, <2>2, <2>3, RowGoes
  <2>5. Carried(d, h, b)
    BY <2>3, <2>4, CarriedOn DEF f
  <2>6. \A j \in 1..k : Written(h, b, s, j)
    BY <2>3, <2>4, WrittenStays DEF f, Carried
  <2>7. \A j \in 1..i : j \in 1..k \/ j = i
    OBVIOUS
  <2> QED
    BY <2>4, <2>5, <2>6, <2>7 DEF h
<1>5. n \in M
  <2> HIDE DEF M
  <2> QED
    BY <1>1, <1>3, <1>4, NatSet
<1> QED
  BY <1>1, <1>2, <1>5 DEF SheetIn, Carried

\* The figures of the tax ledger.
LEMMA LedgerGoes ==
    ASSUME NEW d, IsDB(d), NEW b \in Books, NEW e, e = ConsolidateOperationalTax(d, b["OtherTaxDebt"])
    PROVE  IsDB(e) /\ Beside(d, e)
<1> DEFINE rows == b["OtherTaxDebt"]
           n == Len(rows)
           vat == Total(rows, "other")
           paye == Total(rows, "amount")
           u == NetPayable(d, "VAT", vat)
<1>1. e = NetPayable(u, "PAYE", paye)
  BY DEF ConsolidateOperationalTax
<1>2. n \in Nat /\ \A i \in 1..n : rows[i]["other"] \in Int /\ rows[i]["amount"] \in Int
  <2>1. "OtherTaxDebt" \in Sheets
    BY DEF Sheets, Cashflow
  <2>2. rows \in Seq(SheetRow["OtherTaxDebt"])
    BY <2>1, BooksAssumption
  <2>3. n \in Nat /\ \A i \in 1..n : rows[i] \in SheetRow["OtherTaxDebt"]
    BY <2>2
  <2>4. SheetRow["OtherTaxDebt"] = [amount : Int, other : Int, paid : Int, date : Nat \cup {None}]
    BY DEF SheetRow
  <2> QED
    BY <2>3, <2>4
<1>3. vat \in Int /\ paye \in Int
  <2> HIDE DEF rows
  <2> QED
    BY <1>2, TotalIsInt
<1> HIDE DEF vat, paye
<1>4. IsDB(u) /\ Beside(d, u)
  BY <1>3, NetGoes
<1> HIDE DEF u
<1>5. IsDB(e) /\ Beside(u, e)
  BY <1>1, <1>3, <1>4, NetGoes
<1> QED
  BY <1>4, <1>5, BesideOn

\* The cashflow workbook: every row of it is written.
THEOREM CashflowGoes ==
    ASSUME NEW d, IsDB(d), NEW b \in Books, NEW day \in Nat, NEW e, e = ImportCashflow(d, b, day)
    PROVE  IsDB(e) /\ Carried(d, e, b) /\ \A s \in Cashflow : SheetIn(e, b, s)
<1> DEFINE settings == ImportSheet(d, b, "Settings", day)
           clients == ImportSheet(settings, b, "Clients", day)
           contracts == ImportSheet(clients, b, "Contracts", day)
           orders == ImportSheet(contracts, b, "Orders", day)
           orderExpenses == ImportSheet(orders, b, "OrderExpenses", day)
           expenses == ImportSheet(orderExpenses, b, "GeneralExpenses", day)
           overheads == ImportSheet(expenses, b, "Overheads", day)
           loans == ImportSheet(overheads, b, "Loans", day)
           claims == ImportSheet(loans, b, "ContractPayments", day)
           debts == ImportSheet(claims, b, "OtherTaxDebt", day)
<1>1. e = ConsolidateOperationalTax(debts, b["OtherTaxDebt"])
  BY DEF ImportCashflow
<1>2. {"Settings", "Clients", "Contracts", "Orders", "OrderExpenses",
       "GeneralExpenses", "Overheads", "Loans", "ContractPayments", "OtherTaxDebt"} \subseteq Sheets
  BY DEF Sheets, Cashflow
<1>3. IsDB(settings) /\ Carried(d, settings, b) /\ SheetIn(settings, b, "Settings")
  BY <1>2, SheetGoes
<1> HIDE DEF settings
<1>4. IsDB(clients) /\ Carried(settings, clients, b) /\ SheetIn(clients, b, "Clients")
  BY <1>2, <1>3, SheetGoes
<1> HIDE DEF clients
<1>5. IsDB(contracts) /\ Carried(clients, contracts, b) /\ SheetIn(contracts, b, "Contracts")
  BY <1>2, <1>4, SheetGoes
<1> HIDE DEF contracts
<1>6. IsDB(orders) /\ Carried(contracts, orders, b) /\ SheetIn(orders, b, "Orders")
  BY <1>2, <1>5, SheetGoes
<1> HIDE DEF orders
<1>7. IsDB(orderExpenses) /\ Carried(orders, orderExpenses, b) /\ SheetIn(orderExpenses, b, "OrderExpenses")
  BY <1>2, <1>6, SheetGoes
<1> HIDE DEF orderExpenses
<1>8. IsDB(expenses) /\ Carried(orderExpenses, expenses, b) /\ SheetIn(expenses, b, "GeneralExpenses")
  BY <1>2, <1>7, SheetGoes
<1> HIDE DEF expenses
<1>9. IsDB(overheads) /\ Carried(expenses, overheads, b) /\ SheetIn(overheads, b, "Overheads")
  BY <1>2, <1>8, SheetGoes
<1> HIDE DEF overheads
<1>10. IsDB(loans) /\ Carried(overheads, loans, b) /\ SheetIn(loans, b, "Loans")
  BY <1>2, <1>9, SheetGoes
<1> HIDE DEF loans
<1>11. IsDB(claims) /\ Carried(loans, claims, b) /\ SheetIn(claims, b, "ContractPayments")
  BY <1>2, <1>10, SheetGoes
<1> HIDE DEF claims
<1>12. IsDB(debts) /\ Carried(claims, debts, b) /\ SheetIn(debts, b, "OtherTaxDebt")
  BY <1>2, <1>11, SheetGoes
<1> HIDE DEF debts
<1>13. IsDB(e) /\ Carried(debts, e, b)
  BY <1>1, <1>12, LedgerGoes, CarriedBeside
<1>14. Carried(claims, e, b)
  BY <1>11, <1>12, <1>13, CarriedOn
<1>15. Carried(loans, e, b)
  BY <1>10, <1>11, <1>14, CarriedOn
<1>16. Carried(overheads, e, b)
  BY <1>9, <1>10, <1>15, CarriedOn
<1>17. Carried(expenses, e, b)
  BY <1>8, <1>9, <1>16, CarriedOn
<1>18. Carried(orderExpenses, e, b)
  BY <1>7, <1>8, <1>17, CarriedOn
<1>19. Carried(orders, e, b)
  BY <1>6, <1>7, <1>18, CarriedOn
<1>20. Carried(contracts, e, b)
  BY <1>5, <1>6, <1>19, CarriedOn
<1>21. Carried(clients, e, b)
  BY <1>4, <1>5, <1>20, CarriedOn
<1>22. Carried(settings, e, b)
  BY <1>3, <1>4, <1>21, CarriedOn
<1>23. Carried(d, e, b)
  BY <1>3, <1>22, CarriedOn
<1>24. SheetIn(e, b, "Settings")
  BY <1>3, <1>22, SheetStays
<1>25. SheetIn(e, b, "Clients")
  BY <1>4, <1>21, SheetStays
<1>26. SheetIn(e, b, "Contracts")
  BY <1>5, <1>20, SheetStays
<1>27. SheetIn(e, b, "Orders")
  BY <1>6, <1>19, SheetStays
<1>28. SheetIn(e, b, "OrderExpenses")
  BY <1>7, <1>18, SheetStays
<1>29. SheetIn(e, b, "GeneralExpenses")
  BY <1>8, <1>17, SheetStays
<1>30. SheetIn(e, b, "Overheads")
  BY <1>9, <1>16, SheetStays
<1>31. SheetIn(e, b, "Loans")
  BY <1>10, <1>15, SheetStays
<1>32. SheetIn(e, b, "ContractPayments")
  BY <1>11, <1>14, SheetStays
<1>33. SheetIn(e, b, "OtherTaxDebt")
  BY <1>12, <1>13, SheetStays
<1> QED
  BY <1>13, <1>23, <1>24, <1>25, <1>26, <1>27, <1>28, <1>29, <1>30, <1>31, <1>32, <1>33 DEF Cashflow

\* The payroll file: its lines, its run and its return.
LEMMA PayrollGoes ==
    ASSUME NEW d, IsDB(d), NEW b \in Books, NEW day \in Nat, NEW e, e = ImportOnePayroll(d, b, day)
    PROVE  IsDB(e) /\ Carried(d, e, b) /\ SheetIn(e, b, "Payroll")
<1> DEFINE rows == b["Payroll"]
           n == Len(rows)
           month == rows[1].date
           run == UpsertPayrollRun(d, month)
           lines == ImportSheet(run, b, "Payroll", day)
           total == Total(rows, "paye")
<1>1. "Payroll" \in Sheets
  BY DEF Sheets
<1>2. rows \in Seq(SheetRow["Payroll"])
  BY <1>1, BooksAssumption
<1>3. CASE rows = <<>>
  <2>1. e = d /\ DOMAIN rows = {}
    BY <1>3 DEF ImportOnePayroll
  <2> QED
    BY <2>1, CarriedNowhere DEF SheetIn
<1>4. CASE rows # <<>>
  <2>1. e = PostStatutoryReturns(lines, month, total)
    BY <1>4 DEF ImportOnePayroll
  <2>2. SheetRow["Payroll"] = [name : STRING, date : Nat, amount : Int, paye : Int]
    BY DEF SheetRow
  <2>3. n \in Nat /\ \A i \in 1..n : rows[i] \in SheetRow["Payroll"]
    BY <1>2
  <2>4. month \in Nat /\ \A i \in 1..n : rows[i]["paye"] \in Int
    <3>1. 1 \in 1..n
      BY <1>2, <1>4
    <3> HIDE DEF n, rows
    <3> QED
      BY <2>2, <2>3, <3>1
  <2>5. total \in Int
    <3> HIDE DEF rows
    <3> QED
      BY <2>3, <2>4, TotalIsInt
  <2> HIDE DEF month, total
  <2>6. IsDB(run) /\ Beside(d, run)
    BY <2>4, RunGoes
  <2> HIDE DEF run
  <2>7. IsDB(lines) /\ Carried(run, lines, b) /\ SheetIn(lines, b, "Payroll")
    BY <1>1, <2>6, SheetGoes
  <2> HIDE DEF lines
  <2>8. IsDB(e) /\ Beside(lines, e)
    BY <2>1, <2>4, <2>5, <2>7, ReturnGoes
  <2>9. Carried(d, run, b) /\ Carried(lines, e, b)
    BY <2>6, <2>8, CarriedBeside
  <2>10. Carried(d, lines, b)
    BY <2>6, <2>7, <2>9, CarriedOn
  <2> QED
    BY <2>7, <2>8, <2>9, <2>10, CarriedOn, SheetStays
<1> QED
  BY <1>3, <1>4

-----------------------------------------------------------------------------
(* The steps.                                                              *)

\* The importer: what its tables hold, and how far the workbook is written by
\* the time a call has gone so far, the payroll unless it was left out.
ImportInv ==
    /\ DOMAIN call = Workers
    /\ book \in Books /\ today \in 1..LastImportDay
    /\ imported \in {"no", "began", "partly", "yes"} /\ corrected \in BOOLEAN
    /\ IsDB(db)
    /\ ~corrected => ReceiptsFrom(db, book["Orders"])
    /\ \A w \in Workers :
         /\ call[w].at \in {"payroll", "manhours"} => \A s \in Cashflow : SheetIn(db, book, s)
         /\ call[w].at = "manhours" /\ imported = "began" => SheetIn(db, book, "Payroll")
    /\ imported \in {"partly", "yes"} => \A s \in Cashflow : SheetIn(db, book, s)
    /\ imported = "yes" => SheetIn(db, book, "Payroll")

\* Before the import there is nothing to show.
LEMMA ImportStarts == HandlersInit /\ ImportInit => ImportInv
<1> SUFFICES ASSUME HandlersInit, ImportInit PROVE ImportInv
  OBVIOUS
<1>1. /\ book \in Books /\ today = 1 /\ db = [t \in Tables |-> <<>>] /\ imported = "no" /\ corrected = FALSE
      /\ call = [w \in Workers |-> NoCall]
  BY DEF HandlersInit, RequestsInit, ImportInit
<1>2. today \in 1..LastImportDay
  BY <1>1, ImportAssumption
<1>3. IsDB(db)
  BY <1>1 DEF IsDB, IsTables, Tables
<1>4. ReceiptsFrom(db, book["Orders"])
  BY <1>1 DEF ReceiptsFrom, Tables
<1> QED
  BY <1>1, <1>2, <1>3, <1>4 DEF ImportInv, NoCall

\* A step that carries the tables on, and every call where it is or to where
\* what is written by then is written.
LEMMA ImportStep1 ==
    ASSUME ImportInv, Carried(db, db', book), IsDB(db'), UNCHANGED <<book, today, corrected>>,
           imported' \in {"no", "began", "partly", "yes"},
           imported' = "partly" => imported = "partly" \/ \E w \in Workers : call[w].at \in {"payroll", "manhours"},
           imported' = "yes" => imported = "yes" \/ (imported = "began" /\ \E w \in Workers : call[w].at = "manhours"),
           imported' = "began" => imported = "began" \/ \A w \in Workers : call'[w].at # "manhours",
           DOMAIN call' = Workers,
           \A w \in Workers :
              \/ call'[w].at = call[w].at
              \/ call'[w].at \in {"none", "cashflow"}
              \/ call'[w].at = "payroll" /\ \A s \in Cashflow : SheetIn(db', book, s)
              \/ /\ call'[w].at = "manhours" /\ call[w].at = "payroll"
                 /\ imported' = "began" => SheetIn(db', book, "Payroll")
    PROVE  ImportInv'
<1>1. IsDB(db) /\ \A s : SheetIn(db, book, s) => SheetIn(db', book, s)
  BY SheetStays DEF ImportInv
<1>2. ~corrected' => ReceiptsFrom(db', book'["Orders"])
  BY DEF ImportInv, Carried
<1>3. ASSUME NEW w \in Workers
      PROVE  /\ call'[w].at \in {"payroll", "manhours"} => \A s \in Cashflow : SheetIn(db', book, s)
             /\ call'[w].at = "manhours" /\ imported' = "began" => SheetIn(db', book, "Payroll")
  BY <1>1, <1>3 DEF ImportInv
<1>4. imported' \in {"partly", "yes"} => \A s \in Cashflow : SheetIn(db', book, s)
  BY <1>1 DEF ImportInv
<1>5. imported' = "yes" => SheetIn(db', book, "Payroll")
  BY <1>1 DEF ImportInv
<1> QED
  BY <1>1, <1>2, <1>3, <1>4, <1>5 DEF ImportInv

\* A return filed or a period locked: the status of one row.
Restatus(d, t, i, x) == [d EXCEPT ![t] = [d[t] EXCEPT ![i] = [d[t][i] EXCEPT !.status = x]]]

\* It is beside the receipts, and no key names a status.
LEMMA StatusGoes ==
    ASSUME NEW d, IsDB(d), NEW t, t \in {"returns", "periods"}, NEW i \in DOMAIN d[t], NEW x, x \in {"FILED", "LOCKED"},
           x = "FILED" <=> t = "returns",
           NEW e, e = Restatus(d, t, i, x)
    PROVE  IsDB(e) /\ Beside(d, e)
<1> DEFINE q == d[t]
           r == e[t]
           y == [q[i] EXCEPT !.status = x]
<1>1. t \in Tables /\ DOMAIN d = Tables /\ q \in Seq(RowsOf(t)) /\ q[i] \in RowsOf(t)
  <2>1. t \in Tables
    BY DEF Tables
  <2>2. DOMAIN d = Tables /\ d[t] \in Seq(RowsOf(t))
    BY <2>1 DEF IsDB
  <2> QED
    BY <2>1, <2>2
<1>2. DOMAIN e = Tables /\ IsTables(e) /\ (\A u \in Tables : u # t => e[u] = d[u]) /\ r = [q EXCEPT ![i] = y]
  BY <1>1 DEF Restatus, IsTables
<1>3. Differs(q, r, i) /\ r[i] = y
  <2> HIDE DEF q, r, y
  <2> QED
    BY <1>1, <1>2, ExceptDiffers DEF q
<1>4. y \in RowsOf(t) /\ \A f \in NaturalKey[t] : y[f] = q[i][f]
  <2>1. CASE t = "returns"
    <3>1. q[i] \in [date : Nat, amount : Cent, status : {"DUE", "FILED"}]
      BY <1>1, <2>1 DEF RowsOf, TableRow
    <3> QED
      BY <2>1, <3>1 DEF RowsOf, TableRow, NaturalKey
  <2>2. CASE t = "periods"
    <3>1. q[i] \in [date : Nat, status : {"OPEN", "LOCKED"}]
      BY <1>1, <2>2 DEF RowsOf, TableRow
    <3> QED
      BY <2>2, <3>1 DEF RowsOf, TableRow, NaturalKey
  <2> QED
    BY <2>1, <2>2
<1>5. Writes(d, e, t)
  <2> HIDE DEF y
  <2>1. t \notin {"receipts", "claims"} /\ t # "claims"
    OBVIOUS
  <2>2. Differs(d[t], e[t], i) /\ e[t][i] \in RowsOf(t) /\ \A f \in NaturalKey[t] : e[t][i][f] = d[t][i][f]
    BY <1>3, <1>4
  <2>3. t \in Tables /\ DOMAIN e = Tables /\ IsTables(e) /\ \A u \in Tables : u # t => e[u] = d[u]
    BY <1>1, <1>2
  <2> HIDE DEF q, r
  <2> QED
    BY <2>1, <2>2, <2>3, OneRow
<1> QED
  BY <1>5, WritesGoes DEF Beside, Goes

\* Every step of the importer, one call at a time, keeps the invariant.
LEMMA ImportGoesOn == ASSUME ImportInv, ImportNext PROVE ImportInv'
<1>1. DOMAIN call = Workers /\ book \in Books /\ today \in Nat /\ IsDB(db)
  BY ImportAssumption DEF ImportInv
<1>2. ASSUME NEW w \in Workers, RunImport(w) PROVE ImportInv'
  <2>1. /\ call' = [call EXCEPT ![w] = [at |-> "cashflow", saw |-> None]] /\ \A v \in Workers : call[v].at # "manhours"
        /\ imported' = (IF imported = "yes" THEN "yes" ELSE "began")
        /\ UNCHANGED <<book, today, db, corrected>>
    BY <1>2 DEF RunImport, Begin, Go, NoImport, Importing
  <2>2. Carried(db, db', book) /\ IsDB(db')
    BY <1>1, <2>1, CarriedNowhere
  <2>3. DOMAIN call' = Workers /\ \A v \in Workers : call'[v].at = call[v].at \/ call'[v].at \in {"none", "cashflow"}
    BY <1>1, <2>1
  <2>4. imported' \in {"began", "yes"} /\ (imported' = "yes" => imported = "yes") /\ \A v \in Workers : call'[v].at # "manhours"
    BY <1>1, <2>1
  <2> QED
    BY <2>1, <2>2, <2>3, <2>4, ImportStep1
<1>3. ASSUME NEW w \in Workers, CashflowTx(w) PROVE ImportInv'
  <2>1. /\ call' = [call EXCEPT ![w] = [at |-> "payroll", saw |-> None]]
        /\ db' = ImportCashflow(db, book, today) /\ UNCHANGED <<book, today, imported, corrected>>
    BY <1>3 DEF CashflowTx, Step, Go
  <2>2. IsDB(db') /\ Carried(db, db', book) /\ \A s \in Cashflow : SheetIn(db', book, s)
    BY <1>1, <2>1, CashflowGoes
  <2>3. /\ DOMAIN call' = Workers
        /\ \A v \in Workers : call'[v].at = call[v].at \/ (call'[v].at = "payroll" /\ \A s \in Cashflow : SheetIn(db', book, s))
    BY <1>1, <2>1, <2>2
  <2>4. imported' \in {"no", "began", "partly", "yes"} /\ imported' = imported
    BY <2>1 DEF ImportInv
  <2> QED
    BY <2>1, <2>2, <2>3, <2>4, ImportStep1
<1>4. ASSUME NEW w \in Workers, PayrollTx(w) PROVE ImportInv'
  <2>1. /\ call[w].at = "payroll" /\ call' = [call EXCEPT ![w] = [at |-> "manhours", saw |-> [next |-> 1]]]
        /\ db' = ImportOnePayroll(db, book, today) /\ UNCHANGED <<book, today, imported, corrected>>
    BY <1>4 DEF PayrollTx, Step, Go, In
  <2>2. IsDB(db') /\ Carried(db, db', book) /\ SheetIn(db', book, "Payroll")
    BY <1>1, <2>1, PayrollGoes
  <2>3. /\ DOMAIN call' = Workers
        /\ \A v \in Workers :
             \/ call'[v].at = call[v].at
             \/ call'[v].at = "manhours" /\ call[v].at = "payroll" /\ SheetIn(db', book, "Payroll")
    BY <1>1, <2>1, <2>2
  <2>4. imported' \in {"no", "began", "partly", "yes"} /\ imported' = imported
    BY <2>1 DEF ImportInv
  <2> QED
    BY <2>1, <2>2, <2>3, <2>4, ImportStep1
<1>5. ASSUME NEW w \in Workers, ManhoursRow(w) PROVE ImportInv'
  <2>1. CASE call[w].saw.next \in DOMAIN book["Manhours"]
    <3> DEFINE i == call[w].saw.next
    <3>1. /\ call[w].at = "manhours" /\ call' = [call EXCEPT ![w] = [at |-> "manhours", saw |-> [next |-> i + 1]]]
          /\ db' = WriteRow(db, book, "Manhours", i, today) /\ UNCHANGED <<book, today, imported, corrected>>
      BY <1>5, <2>1 DEF ManhoursRow, Step, Go, In
    <3>2. Carried(db, db', book)
      <4>1. "Manhours" \in Sheets /\ i \in DOMAIN book["Manhours"]
        BY <2>1 DEF Sheets
      <4> HIDE DEF i
      <4> QED
        BY <1>1, <3>1, <4>1, RowGoes
    <3> HIDE DEF i
    <3>3. DOMAIN call' = Workers /\ \A v \in Workers : call'[v].at = call[v].at
      BY <1>1, <3>1
    <3>4. imported' \in {"no", "began", "partly", "yes"} /\ imported' = imported /\ IsDB(db')
      BY <3>1, <3>2 DEF ImportInv, Carried
    <3> QED
      BY <3>1, <3>2, <3>3, <3>4, ImportStep1
  <2>2. CASE call[w].saw.next \notin DOMAIN book["Manhours"]
    <3>1. /\ call[w].at = "manhours" /\ call' = [call EXCEPT ![w] = NoCall]
          /\ imported' = (IF imported = "began" THEN "yes" ELSE imported) /\ UNCHANGED <<book, today, db, corrected>>
      BY <1>5, <2>2 DEF ManhoursRow, Done, Leave, In
    <3>2. Carried(db, db', book) /\ IsDB(db')
      BY <1>1, <3>1, CarriedNowhere
    <3>3. DOMAIN call' = Workers /\ \A v \in Workers : call'[v].at = call[v].at \/ call'[v].at \in {"none", "cashflow"}
      BY <1>1, <3>1 DEF NoCall
    <3>4. /\ imported' \in {"no", "partly", "yes"} /\ (imported' = "partly" => imported = "partly")
          /\ imported' = "yes" => imported = "yes" \/ (imported = "began" /\ \E v \in Workers : call[v].at = "manhours")
      BY <3>1 DEF ImportInv
    <3> QED
      BY <3>1, <3>2, <3>3, <3>4, ImportStep1
  <2> QED
    BY <2>1, <2>2
<1>5a. ASSUME NEW w \in Workers, PayrollSkipped(w) PROVE ImportInv'
  <2>1. /\ call[w].at = "payroll" /\ call' = [call EXCEPT ![w] = [at |-> "manhours", saw |-> [next |-> 1]]]
        /\ imported' = LeftOut(imported) /\ UNCHANGED <<book, today, db, corrected>>
    BY <1>5a DEF PayrollSkipped, Step, Go, In
  <2>2. Carried(db, db', book) /\ IsDB(db')
    BY <1>1, <2>1, CarriedNowhere
  <2>3. /\ imported' \in {"no", "partly", "yes"} /\ (imported' = "yes" => imported = "yes")
        /\ \E v \in Workers : call[v].at = "payroll"
    BY <2>1 DEF ImportInv, LeftOut
  <2>4. /\ DOMAIN call' = Workers
        /\ \A v \in Workers : call'[v].at = call[v].at \/ (call'[v].at = "manhours" /\ call[v].at = "payroll")
    BY <1>1, <2>1
  <2> QED
    BY <2>1, <2>2, <2>3, <2>4, ImportStep1
<1>5b. ASSUME NEW w \in Workers, ManhoursSkipped(w) PROVE ImportInv'
  <2>1. /\ call[w].at = "manhours" /\ call' = [call EXCEPT ![w] = NoCall]
        /\ imported' = LeftOut(imported) /\ UNCHANGED <<book, today, db, corrected>>
    BY <1>5b DEF ManhoursSkipped, Done, Leave, In
  <2>2. Carried(db, db', book) /\ IsDB(db')
    BY <1>1, <2>1, CarriedNowhere
  <2>3. /\ imported' \in {"no", "partly", "yes"} /\ (imported' = "yes" => imported = "yes")
        /\ \E v \in Workers : call[v].at = "manhours"
    BY <2>1 DEF ImportInv, LeftOut
  <2>4. DOMAIN call' = Workers /\ \A v \in Workers : call'[v].at = call[v].at \/ call'[v].at \in {"none", "cashflow"}
    BY <1>1, <2>1 DEF NoCall
  <2> QED
    BY <2>1, <2>2, <2>3, <2>4, ImportStep1
<1>6. ASSUME NEW w \in Workers, Crash(w), UNCHANGED importVars PROVE ImportInv'
  <2>1. call' = [call EXCEPT ![w] = NoCall] /\ UNCHANGED <<book, today, db, imported, corrected>>
    BY <1>6 DEF Crash, Stop, Leave, importVars
  <2>2. Carried(db, db', book) /\ IsDB(db')
    BY <1>1, <2>1, CarriedNowhere
  <2>3. DOMAIN call' = Workers /\ \A v \in Workers : call'[v].at = call[v].at \/ call'[v].at \in {"none", "cashflow"}
    BY <1>1, <2>1 DEF NoCall
  <2>4. imported' \in {"no", "began", "partly", "yes"} /\ imported' = imported
    BY <2>1 DEF ImportInv
  <2> QED
    BY <2>1, <2>2, <2>3, <2>4, ImportStep1
<1>7. ASSUME Correct PROVE ImportInv'
  <2>1. /\ \A w \in Workers : call[w].at \notin {"payroll", "manhours"}
        /\ book' \in Books /\ imported' = "no" /\ corrected' = TRUE /\ UNCHANGED <<call, today, db>>
    BY <1>7 DEF Correct, NoImport, Importing, handlerVars
  <2> QED
    BY <1>1, <2>1 DEF ImportInv
<1>8. ASSUME NextDay PROVE ImportInv'
  <2>1. today < LastImportDay /\ today' = today + 1 /\ UNCHANGED <<call, book, db, imported, corrected>>
    BY <1>8 DEF NextDay, handlerVars
  <2>2. today' \in 1..LastImportDay
    BY <1>1, <2>1, ImportAssumption DEF ImportInv
  <2> QED
    BY <2>1, <2>2 DEF ImportInv
<1>9. ASSUME FileReturn \/ LockPeriod PROVE ImportInv'
  <2>1. PICK t \in {"returns", "periods"}, x \in {"FILED", "LOCKED"} :
          /\ x = "FILED" <=> t = "returns"
          /\ \E i \in DOMAIN db[t] : db' = Restatus(db, t, i, x)
    <3>1. CASE FileReturn
      <4>1. \E i \in DOMAIN db["returns"] :
               db' = Restatus(db, "returns", i, "FILED")
        BY <3>1 DEF FileReturn, Restatus
      <4> QED
        BY <4>1
    <3>2. CASE LockPeriod
      <4>1. \E i \in DOMAIN db["periods"] :
               db' = Restatus(db, "periods", i, "LOCKED")
        BY <3>2 DEF LockPeriod, Restatus
      <4> QED
        BY <4>1
    <3> QED
      BY <1>9, <3>1, <3>2
  <2>2. PICK i \in DOMAIN db[t] : db' = Restatus(db, t, i, x)
    BY <2>1
  <2>3. IsDB(db') /\ Beside(db, db')
    BY <1>1, <2>1, <2>2, StatusGoes
  <2>4. Carried(db, db', book)
    BY <2>3, CarriedBeside
  <2>5. imported' = "no" /\ UNCHANGED <<call, book, today, corrected>>
    BY <1>9 DEF FileReturn, LockPeriod, handlerVars
  <2>6. DOMAIN call' = Workers /\ \A v \in Workers : call'[v].at = call[v].at
    BY <1>1, <2>5
  <2> QED
    BY <2>3, <2>4, <2>5, <2>6, ImportStep1
<1> QED
  BY <1>2, <1>3, <1>4, <1>5, <1>5a, <1>5b, <1>6, <1>7, <1>8, <1>9 DEF ImportNext, ImportStep

\* What the invariant says of the types,
LEMMA ImportIsTyped == ImportInv => ImportTypeOK
BY DEF ImportInv, ImportTypeOK, IsDB, RowsOf

\* of the journals of receipts and claims,
LEMMA ImportIsPosted == ImportInv => ImportPosted
<1> SUFFICES ASSUME ImportInv PROVE ImportPosted
  OBVIOUS
<1> DEFINE rows == book["Orders"]
<1>1. /\ \A i \in DOMAIN db["claims"] :
           "posted" \in DOMAIN db["claims"][i] /\ db["claims"][i].posted = db["claims"][i].amount
      /\ \A i \in DOMAIN db["receipts"] : "posted" \in DOMAIN db["receipts"][i]
  BY DEF ImportInv, IsDB
<1>2. ASSUME NEW i \in DOMAIN db["receipts"], ~corrected, ~Twice(db["receipts"][i].order)
      PROVE  db["receipts"][i].posted = db["receipts"][i].amount
  <2> DEFINE order == db["receipts"][i].order
             currency == db["receipts"][i].currency
  <2>1. /\ FromSheet(rows, order, currency, db["receipts"][i].amount)
        /\ FromSheet(rows, order, currency, db["receipts"][i].posted)
    BY <1>2 DEF ImportInv, ReceiptsFrom
  <2>2. PICK j \in DOMAIN rows : rows[j].ref = order /\ db["receipts"][i].amount = Cents(InUSD(rows[j], currency))
    BY <2>1 DEF FromSheet
  <2>3. PICK k \in DOMAIN rows : rows[k].ref = order /\ db["receipts"][i].posted = Cents(InUSD(rows[k], currency))
    BY <2>1 DEF FromSheet
  <2>4. j = k
    BY <1>2, <2>2, <2>3 DEF Twice
  <2> QED
    BY <2>2, <2>3, <2>4
<1> QED
  BY <1>1, <1>2 DEF ImportPosted

\* and of an import that is over: every row of the workbook is in the tables.
LEMMA ImportIsComplete == ImportInv => ImportComplete
<1> SUFFICES ASSUME ImportInv, imported \in {"partly", "yes"} PROVE ImportComplete
  BY DEF ImportComplete
<1>1. \A s \in Cashflow : \A i \in DOMAIN book[s] : Written(db, book, s, i)
  BY DEF ImportInv, SheetIn
<1> DEFINE Rows(s) == {book[s][i] : i \in DOMAIN book[s]}
<1>4. \A r \in Rows("Settings") : r.value > 0 => Has("rates", [key |-> r.key, date |-> r.date])
  <2>1. \A i \in DOMAIN book["Settings"] : SettingsIn(db, book["Settings"][i])
    BY <1>1 DEF Cashflow, Written
  <2> QED
    BY <2>1 DEF SettingsIn, HasIn, Has
<1>5. \A r \in Rows("Clients") : Has("clients", [name |-> r.name])
  <2>1. \A i \in DOMAIN book["Clients"] : ClientIn(db, book["Clients"][i].name)
    BY <1>1 DEF Cashflow, Written
  <2> QED
    BY <2>1 DEF ClientIn, HasIn, Has
<1>6. \A r \in Rows("Contracts") : Has("contracts", [ref |-> r.ref]) /\ Has("clients", [name |-> r.client])
  <2>1. \A i \in DOMAIN book["Contracts"] : ContractIn(db, book["Contracts"][i])
    BY <1>1 DEF Cashflow, Written
  <2> QED
    BY <2>1 DEF ContractIn, ClientIn, HasIn, Has
<1>7. \A r \in Rows("Orders") :
        /\ Has("orders", [ref |-> r.ref]) /\ Has("clients", [name |-> r.client])
        /\ r.usd > 0 => Has("receipts", [order |-> r.ref, currency |-> "USD"])
        /\ r.zig > 0 /\ r.rate > 0 => Has("receipts", [order |-> r.ref, currency |-> "ZIG"])
  <2>1. \A i \in DOMAIN book["Orders"] : OrderIn(db, book["Orders"][i])
    BY <1>1 DEF Cashflow, Written
  <2> QED
    BY <2>1 DEF OrderIn, ReceiptIn, Received, ClientIn, HasIn, Has
<1>8. \A r \in Rows("OrderExpenses") : r.ref \in Refs(book["Orders"]) =>
        Has("orderExpenses", [order |-> r.ref, text |-> r.text, amount |-> Cents(r.amount)])
  <2>1. \A i \in DOMAIN book["OrderExpenses"] : OrderExpenseIn(db, book["OrderExpenses"][i], Refs(book["Orders"]))
    BY <1>1 DEF Cashflow, Written
  <2> QED
    BY <2>1 DEF OrderExpenseIn, HasIn, Has
<1>9. \A r \in Rows("GeneralExpenses") : HasOn("generalExpenses", [text |-> r.text, amount |-> Cents(r.amount)], r.date)
  <2>1. \A i \in DOMAIN book["GeneralExpenses"] : GeneralExpenseIn(db, book["GeneralExpenses"][i])
    BY <1>1 DEF Cashflow, Written
  <2> QED
    BY <2>1 DEF GeneralExpenseIn, HasInOn, HasOn
<1>10. \A i \in FirstOfMonth(book["Overheads"]) :
         LET r == book["Overheads"][i] IN
         /\ r.amount # 0 => Has("overheads", [date |-> r.date, text |-> "Salaries"])
         /\ r.other # 0 => Has("overheads", [date |-> r.date, text |-> "Other"])
  <2>1. \A i \in FirstOfMonth(book["Overheads"]) : i \in DOMAIN book["Overheads"]
    BY DEF FirstOfMonth
  <2>2. \A i \in FirstOfMonth(book["Overheads"]) :
          /\ OverheadIn(db, book["Overheads"][i].date, "Salaries", book["Overheads"][i].amount)
          /\ OverheadIn(db, book["Overheads"][i].date, "Other", book["Overheads"][i].other)
    BY <1>1, <2>1 DEF Cashflow, Written
  <2> QED
    BY <2>2 DEF OverheadIn, HasIn, Has
<1>11. \A r \in Rows("Loans") : HasOn("loans", [text |-> r.text, amount |-> Cents(r.amount)], r.date)
  <2>1. \A i \in DOMAIN book["Loans"] : LoanIn(db, book["Loans"][i])
    BY <1>1 DEF Cashflow, Written
  <2> QED
    BY <2>1 DEF LoanIn, HasInOn, HasOn
<1>12. \A r \in Rows("ContractPayments") : r.ref \in Refs(book["Contracts"]) =>
         HasOn("claims", [contract |-> r.ref, amount |-> Cents(r.amount)], r.date)
  <2>1. \A i \in DOMAIN book["ContractPayments"] : ClaimIn(db, book["ContractPayments"][i], Refs(book["Contracts"]))
    BY <1>1 DEF Cashflow, Written
  <2> QED
    BY <2>1 DEF ClaimIn, HasInOn, HasOn
<1>13. \A r \in Rows("OtherTaxDebt") :
         /\ r.amount > 0 => HasOn("taxDebt", [tax |-> "PAYE", amount |-> Cents(r.amount)], r.date)
         /\ r.other > 0 => HasOn("taxDebt", [tax |-> "VAT", amount |-> Cents(r.other)], r.date)
  <2>1. \A i \in DOMAIN book["OtherTaxDebt"] :
          /\ DebtIn(db, "PAYE", book["OtherTaxDebt"][i].amount, book["OtherTaxDebt"][i].date)
          /\ DebtIn(db, "VAT", book["OtherTaxDebt"][i].other, book["OtherTaxDebt"][i].date)
    BY <1>1 DEF Cashflow, Written
  <2> QED
    BY <2>1 DEF DebtIn, HasInOn, HasOn
<1>14. imported = "yes" => \A r \in Rows("Payroll") : Has("lines", [name |-> r.name, date |-> r.date])
  <2> SUFFICES ASSUME imported = "yes" PROVE \A r \in Rows("Payroll") : Has("lines", [name |-> r.name, date |-> r.date])
    OBVIOUS
  <2>1. \A i \in DOMAIN book["Payroll"] : LineIn(db, book["Payroll"][i])
    BY DEF ImportInv, SheetIn, Written
  <2> QED
    BY <2>1 DEF LineIn, HasIn, Has
<1> QED
  BY <1>4, <1>5, <1>6, <1>7, <1>8, <1>9, <1>10, <1>11, <1>12, <1>13, <1>14 DEF ImportComplete

-----------------------------------------------------------------------------
(* Once more: a row the workbook has is found where it is.                 *)

\* A row as the importer writes it, before it is posted.
BareRow(t) ==
    IF t = "receipts" THEN [order : STRING, currency : {"USD", "ZIG"}, amount : Cent, date : Nat]
    ELSE IF t = "claims" THEN [contract : STRING, amount : Cent, date : Nat]
    ELSE RowsOf(t)

SameKey(t, q, r) == \A g \in NaturalKey[t] : q[g] = r[g]

\* The first row with that key is at i, and has all the columns.
ShowsAt(d, t, row, i) ==
    /\ i \in DOMAIN d[t]
    /\ \A g \in DOMAIN row : d[t][i][g] = row[g]
    /\ \A j \in DOMAIN d[t] : SameKey(t, d[t][j], row) => i <= j

KeyIs(t, key, row) == DOMAIN key = NaturalKey[t] /\ \A g \in NaturalKey[t] : key[g] = row[g]

\* An upsert, and the journal of a receipt or a claim.
Put(d, t, key, row) ==
    IF t \in Plain THEN Upsert(d, t, key, row) ELSE Post(Upsert(d, t, key, row), t, Place(d, t, key))

\* An update with what a row has already changes nothing.
LEMMA UpdateSame ==
    ASSUME NEW t \in Tables, NEW q \in RowsOf(t), NEW row \in BareRow(t), \A g \in DOMAIN row : q[g] = row[g]
    PROVE  Update(q, row) = q
<1>1. CASE t \in Plain
  <2>1. row \in RowsOf(t)
    BY <1>1 DEF BareRow, Plain
  <2>2. Update(q, row) = row /\ Update(row, q) = q
    BY <1>1, <2>1, Columns
  <2>3. Update(q, row) = Update(row, q)
    BY DEF Update
  <2> QED
    BY <2>2, <2>3
<1>2. CASE t = "receipts"
  <2>1. row \in [order : STRING, currency : {"USD", "ZIG"}, amount : Cent, date : Nat]
    BY <1>2 DEF BareRow
  <2>2. \/ q \in [order : STRING, currency : {"USD", "ZIG"}, amount : Cent, date : Nat]
        \/ q \in [order : STRING, currency : {"USD", "ZIG"}, amount : Cent, date : Nat, posted : Cent]
    BY <1>2 DEF RowsOf, TableRow
  <2> QED
    BY <2>1, <2>2 DEF Update
<1>3. CASE t = "claims"
  <2>1. row \in [contract : STRING, amount : Cent, date : Nat]
    BY <1>3 DEF BareRow
  <2>2. \/ q \in [contract : STRING, amount : Cent, date : Nat]
        \/ q \in [contract : STRING, amount : Cent, date : Nat, posted : Cent]
    BY <1>3 DEF RowsOf, TableRow
  <2> QED
    BY <2>1, <2>2 DEF Update
<1> QED
  BY <1>1, <1>2, <1>3 DEF Plain

\* A row has the columns of the key of its table.
LEMMA KeyColumns == ASSUME NEW t \in Tables, NEW row \in BareRow(t) PROVE NaturalKey[t] \subseteq DOMAIN row
<1>1. CASE t \in Plain
  <2>1. row \in RowsOf(t)
    BY <1>1 DEF BareRow, Plain
  <2> QED
    BY <1>1, <2>1, Columns
<1>2. CASE t = "receipts"
  BY <1>2 DEF BareRow, NaturalKey
<1>3. CASE t = "claims"
  BY <1>3 DEF BareRow, NaturalKey
<1> QED
  BY <1>1, <1>2, <1>3 DEF Plain

\* Where the key finds a row.
LEMMA PutPlace ==
    ASSUME NEW d, IsDB(d), NEW t \in Tables, NEW row, NEW key, KeyIs(t, key, row), NEW p, p = Place(d, t, key)
    PROVE  /\ p \in 1..(Len(d[t]) + 1)
           /\ p \in DOMAIN d[t] => SameKey(t, d[t][p], row)
           /\ \A j \in DOMAIN d[t] : SameKey(t, d[t][j], row) => p \in DOMAIN d[t] /\ p <= j
<1>1. d[t] \in Seq(RowsOf(t))
  BY DEF IsDB
<1>2. /\ p \in 1..(Len(d[t]) + 1)
      /\ p > Len(d[t]) => Found(d, t, key) = {}
      /\ p <= Len(d[t]) => p \in Found(d, t, key) /\ \A j \in Found(d, t, key) : p <= j
  BY <1>1, PlaceIs
<1>3. DOMAIN d[t] = 1..Len(d[t]) /\ Len(d[t]) \in Nat
  BY <1>1
<1>4. \A j \in DOMAIN d[t] : SameKey(t, d[t][j], row) <=> j \in Found(d, t, key)
  BY DEF SameKey, Found, KeyIs
<1>5. (p > Len(d[t]) <=> p \notin DOMAIN d[t]) /\ (p <= Len(d[t]) <=> p \in DOMAIN d[t])
  BY <1>2, <1>3
<1> QED
  BY <1>2, <1>4, <1>5

\* What is shown is found where it is shown.
LEMMA ShownPlace ==
    ASSUME NEW d, IsDB(d), NEW t \in Tables, NEW row \in BareRow(t), NEW key, KeyIs(t, key, row),
           NEW i, ShowsAt(d, t, row, i)
    PROVE  Place(d, t, key) = i
<1> DEFINE p == Place(d, t, key)
<1>1. /\ p \in DOMAIN d[t] => SameKey(t, d[t][p], row)
      /\ \A j \in DOMAIN d[t] : SameKey(t, d[t][j], row) => p \in DOMAIN d[t] /\ p <= j
  BY PutPlace
<1>2. SameKey(t, d[t][i], row) /\ i \in DOMAIN d[t]
  BY KeyColumns DEF ShowsAt, SameKey
<1> HIDE DEF p
<1>3. p \in DOMAIN d[t] /\ p <= i /\ i <= p
  BY <1>1, <1>2 DEF ShowsAt
<1>4. DOMAIN d[t] \subseteq Nat
  BY DEF IsDB
<1> QED
  BY <1>2, <1>3, <1>4 DEF p

\* Putting what is shown changes nothing.
LEMMA PutAgain ==
    ASSUME NEW d, IsDB(d), NEW t \in Tables, NEW row \in BareRow(t), NEW key, KeyIs(t, key, row),
           NEW i, ShowsAt(d, t, row, i)
    PROVE  Put(d, t, key, row) = d
<1>1. Place(d, t, key) = i
  BY ShownPlace
<1>2. d[t] \in Seq(RowsOf(t)) /\ i \in DOMAIN d[t] /\ ~(i > Len(d[t])) /\ d[t][i] \in RowsOf(t)
  <2>1. d[t] \in Seq(RowsOf(t)) /\ i \in DOMAIN d[t]
    BY DEF IsDB, ShowsAt
  <2> QED
    BY <2>1
<1>3. Update(d[t][i], row) = d[t][i]
  BY <1>2, UpdateSame DEF ShowsAt
<1>4. Upsert(d, t, key, row) = [d EXCEPT ![t] = [d[t] EXCEPT ![i] = d[t][i]]]
  BY <1>1, <1>2, <1>3 DEF Upsert
<1>5. [d[t] EXCEPT ![i] = d[t][i]] = d[t]
  <2> DEFINE q == d[t]
  <2> HIDE DEF q
  <2>1. q \in Seq(RowsOf(t))
    BY <1>2 DEF q
  <2>2. [q EXCEPT ![i] = q[i]] = q
    BY <2>1
  <2> QED
    BY <2>2 DEF q
<1>6. Upsert(d, t, key, row) = d
  BY <1>4, <1>5 DEF IsDB, IsTables
<1>7. CASE t \in Plain
  BY <1>6, <1>7 DEF Put
<1>8. CASE t \notin Plain
  <2>1. "posted" \in DOMAIN d[t][i]
    BY <1>2, <1>8 DEF Plain, IsDB
  <2>2. Post(d, t, i) = d
    BY <2>1 DEF Post
  <2> QED
    BY <1>1, <1>6, <1>8, <2>2 DEF Put
<1> QED
  BY <1>7, <1>8

\* What is put is shown, and one row of one table is all that changes.
LEMMA PutShows ==
    ASSUME NEW d, IsDB(d), NEW t \in Tables, NEW row \in BareRow(t), NEW key, KeyIs(t, key, row),
           NEW e, e = Put(d, t, key, row), NEW p, p = Place(d, t, key)
    PROVE  /\ Differs(d[t], e[t], p) /\ \A u \in Tables : u # t => e[u] = d[u]
           /\ ShowsAt(e, t, row, p)
<1>1. d[t] \in Seq(RowsOf(t)) /\ DOMAIN d = Tables /\ t \in DOMAIN d
  BY DEF IsDB
<1>2. /\ Differs(d[t], e[t], p) /\ \A u \in Tables : u # t => e[u] = d[u]
      /\ \A g \in DOMAIN row : e[t][p][g] = row[g]
  <2>1. CASE t \in Plain
    <3>1. e = Upsert(d, t, key, row)
      BY <2>1 DEF Put
    <3>2. /\ Differs(d[t], e[t], p)
          /\ p \notin DOMAIN d[t] => e[t][p] = row
          /\ p \in DOMAIN d[t] => e[t][p] = Update(d[t][p], row)
      BY <1>1, <3>1, UpsertWrites
    <3>3. \A u \in Tables : u # t => e[u] = d[u]
      BY <1>1, <3>1, UpsertLeaves
    <3> QED
      BY <3>2, <3>3 DEF Update
  <2>2. CASE t \notin Plain
    <3>1. e = Post(Upsert(d, t, key, row), t, p) /\ t \in {"receipts", "claims"}
      BY <2>2 DEF Put, Plain
    <3>2. "posted" \notin DOMAIN row
      BY <3>1 DEF BareRow
    <3>3. /\ \A u \in Tables : u # t => e[u] = d[u]
          /\ Differs(d[t], e[t], p)
          /\ p \notin DOMAIN d[t] => e[t][p] = Journalled(row)
          /\ p \in DOMAIN d[t] => e[t][p] = Update(d[t][p], row)
      BY <3>1, <3>2, PostedUpsert
    <3> QED
      BY <3>2, <3>3 DEF Update, Journalled
  <2> QED
    BY <2>1, <2>2
<1>3. /\ p \in 1..(Len(d[t]) + 1)
      /\ \A j \in DOMAIN d[t] : SameKey(t, d[t][j], row) => p \in DOMAIN d[t] /\ p <= j
  BY PutPlace
<1>4. \A j \in DOMAIN e[t] : SameKey(t, e[t][j], row) => p <= j
  <2> SUFFICES ASSUME NEW j \in DOMAIN e[t], SameKey(t, e[t][j], row), j # p PROVE p <= j
    BY <1>1, <1>3
  <2>1. j \in DOMAIN d[t] /\ e[t][j] = d[t][j]
    BY <1>2 DEF Differs
  <2> QED
    BY <1>3, <2>1
<1>5. p \in DOMAIN e[t]
  BY <1>2 DEF Differs
<1> QED
  BY <1>2, <1>4, <1>5 DEF ShowsAt

\* An upsert that does not touch a row it finds is an upsert of what is there.
LEMMA FindOrAdd ==
    ASSUME NEW d, IsDB(d), NEW t \in Plain, NEW row \in BareRow(t), NEW key, KeyIs(t, key, row),
           \A q \in RowsOf(t) : SameKey(t, q, row) => \A g \in DOMAIN row : q[g] = row[g]
    PROVE  Put(d, t, key, row) = IF Found(d, t, key) # {} THEN d ELSE Added(d, t, row)
<1> DEFINE p == Place(d, t, key)
<1>1. t \in Tables /\ d[t] \in Seq(RowsOf(t))
  BY DEF IsDB, Plain
<1>2. CASE Found(d, t, key) # {}
  <2>1. /\ p \in 1..(Len(d[t]) + 1) /\ ~(p > Len(d[t]))
    BY <1>1, <1>2, PlaceIs
  <2>2. p \in DOMAIN d[t]
    BY <1>1, <2>1
  <2>3. /\ SameKey(t, d[t][p], row)
        /\ \A j \in DOMAIN d[t] : SameKey(t, d[t][j], row) => p <= j
    BY <1>1, <2>2, PutPlace
  <2>4. d[t][p] \in RowsOf(t)
    BY <1>1, <2>2
  <2>5. ShowsAt(d, t, row, p)
    BY <2>2, <2>3, <2>4 DEF ShowsAt
  <2> HIDE DEF p
  <2> QED
    BY <1>1, <1>2, <2>5, PutAgain
<1>3. CASE Found(d, t, key) = {}
  <2>1. p = Len(d[t]) + 1
    BY <1>3 DEF Place
  <2>2. p > Len(d[t])
    BY <1>1, <2>1
  <2>3. Upsert(d, t, key, row) = [d EXCEPT ![t] = Append(d[t], row)]
    BY <2>2 DEF Upsert
  <2> QED
    BY <1>3, <2>3 DEF Put, Added
<1> QED
  BY <1>2, <1>3

\* What the workbook says a table has in a row, beyond the columns of its key.
Net(amount) == IF amount > 0 THEN Cents(amount) ELSE 0
AgreementRow(t, r) ==
    IF t = "orders" THEN OrderOf(r)
    ELSE [ref |-> r.ref, client |-> r.client, amount |-> Cents(r.amount), date |-> r.date, until |-> r.until]
DebtOf(r, row) ==
    /\ row.date = r.date /\ row.amount > 0 /\ row.amount = (IF row.tax = "PAYE" THEN r.amount ELSE r.other)
    /\ row.paid = Cents(r.paid)

Wish(b, t, row) ==
    /\ t \in Tables /\ row \in BareRow(t) /\ t # "periods"
    /\ t = "rates" => \E i \in DOMAIN b["Settings"] :
         LET r == b["Settings"][i] IN row.key = r.key /\ row.date = r.date /\ row.value = r.value
    /\ t = "contracts" => \E i \in DOMAIN b["Contracts"] : row = AgreementRow(t, b["Contracts"][i])
    /\ t = "orders" => \E i \in DOMAIN b["Orders"] : row = AgreementRow(t, b["Orders"][i])
    /\ t = "receipts" => \E i \in DOMAIN b["Orders"] :
         LET r == b["Orders"][i]
         IN  row.order = r.ref /\ row.amount = Cents(InUSD(r, row.currency)) /\ row.date = r.date
    /\ t = "overheads" => \E i \in FirstOfMonth(b["Overheads"]) :
         LET r == b["Overheads"][i]
         IN  row.date = r.date /\ row.amount = Cents(IF row.text = "Salaries" THEN r.amount ELSE r.other)
    /\ t = "taxDebt" => \E i \in DOMAIN b["OtherTaxDebt"] : DebtOf(b["OtherTaxDebt"][i], row)
    /\ t = "taxLedger" => row.amount = Net(Total(b["OtherTaxDebt"], IF row.tax = "VAT" THEN "other" ELSE "amount"))
    /\ t = "lines" => \E i \in DOMAIN b["Payroll"] :
         LET r == b["Payroll"][i]
         IN  row.date = r.date /\ row.name = r.name /\ row.amount = Cents(r.amount) /\ row.paye = Cents(r.paye)
    /\ t = "returns" => row.amount = Cents(Total(b["Payroll"], "paye")) /\ row.status = "DUE"
    /\ t = "entries" => \E i \in DOMAIN b["Manhours"] :
         LET r == b["Manhours"][i]
         IN  row.date = r.date /\ row.name = r.name /\ row.amount = Cents(r.amount)

\* Exact rows of one sheet are of one mind.
LEMMA NoClash ==
    ASSUME NEW b, Exact(b), NEW s \in Sheets, NEW i \in DOMAIN b[s], NEW j \in DOMAIN b[s]
    PROVE  ~Clash(s, b[s][i], b[s][j])
BY DEF Exact

\* Rows of one table that agree in their columns are the same.
LEMMA SameRow ==
    ASSUME NEW t \in Tables, NEW q \in BareRow(t), NEW r \in BareRow(t), \A g \in DOMAIN r : q[g] = r[g]
    PROVE  q = r
<1>1. CASE t \in Plain
  <2>1. q \in RowsOf(t) /\ r \in RowsOf(t)
    BY <1>1 DEF BareRow, Plain
  <2> QED
    BY <1>1, <2>1, UpdateSame, Columns
<1>2. CASE t = "receipts"
  BY <1>2 DEF BareRow
<1>3. CASE t = "claims"
  BY <1>3 DEF BareRow
<1> QED
  BY <1>1, <1>2, <1>3 DEF Plain

\* An exact workbook says one thing of a row.
LEMMA WishesAgree ==
    ASSUME NEW b \in Books, Exact(b), NEW t, NEW q, NEW r, Wish(b, t, q), Wish(b, t, r), SameKey(t, q, r)
    PROVE  q = r
<1>0. SUFFICES \A g \in DOMAIN r : q[g] = r[g]
  BY SameRow DEF Wish
<1>1. t \in Tables /\ t # "periods" /\ q \in BareRow(t) /\ r \in BareRow(t)
  BY DEF Wish
<1>2. CASE t = "rates"
  <2>1. DOMAIN r = {"key", "date", "value"}
    BY <1>1, <1>2 DEF BareRow, RowsOf, TableRow
  <2>2. PICK i \in DOMAIN b["Settings"] : q.key = b["Settings"][i].key /\ q.date = b["Settings"][i].date /\ q.value = b["Settings"][i].value
    BY <1>2 DEF Wish
  <2>3. PICK j \in DOMAIN b["Settings"] : r.key = b["Settings"][j].key /\ r.date = b["Settings"][j].date /\ r.value = b["Settings"][j].value
    BY <1>2 DEF Wish
  <2>4. ~Clash("Settings", b["Settings"][i], b["Settings"][j])
    <3>1. "Settings" \in Sheets
      BY DEF Sheets, Cashflow
    <3> QED
      BY <3>1, NoClash
  <2> QED
    BY <1>1, <1>2, <2>1, <2>2, <2>3, <2>4 DEF Clash, SameKey, NaturalKey
<1>3. CASE t = "contracts"
  <2>1. PICK i \in DOMAIN b["Contracts"] : q = AgreementRow(t, b["Contracts"][i])
    BY <1>3 DEF Wish
  <2>2. PICK j \in DOMAIN b["Contracts"] : r = AgreementRow(t, b["Contracts"][j])
    BY <1>3 DEF Wish
  <2>3. b["Contracts"][i].ref = b["Contracts"][j].ref
    BY <1>3, <2>1, <2>2 DEF SameKey, NaturalKey, AgreementRow, OrderOf
  <2>4. ~Clash("Contracts", b["Contracts"][i], b["Contracts"][j])
    <3>1. "Contracts" \in Sheets
      BY DEF Sheets, Cashflow
    <3> QED
      BY <3>1, NoClash
  <2> QED
    BY <2>1, <2>2, <2>3, <2>4 DEF Clash
<1>4. CASE t = "orders"
  <2>1. PICK i \in DOMAIN b["Orders"] : q = AgreementRow(t, b["Orders"][i])
    BY <1>4 DEF Wish
  <2>2. PICK j \in DOMAIN b["Orders"] : r = AgreementRow(t, b["Orders"][j])
    BY <1>4 DEF Wish
  <2>3. b["Orders"][i].ref = b["Orders"][j].ref
    BY <1>4, <2>1, <2>2 DEF SameKey, NaturalKey, AgreementRow, OrderOf
  <2>4. ~Clash("Orders", b["Orders"][i], b["Orders"][j])
    <3>1. "Orders" \in Sheets
      BY DEF Sheets, Cashflow
    <3> QED
      BY <3>1, NoClash
  <2> QED
    BY <2>1, <2>2, <2>3, <2>4 DEF Clash
<1>5. CASE t = "receipts"
  <2>1. DOMAIN r = {"order", "currency", "amount", "date"}
    BY <1>1, <1>5 DEF BareRow
  <2>2. PICK i \in DOMAIN b["Orders"] : /\ b["Orders"][i].ref = q.order /\ q.date = b["Orders"][i].date
                                       /\ q.amount = Cents(InUSD(b["Orders"][i], q.currency))
    BY <1>5 DEF Wish
  <2>3. PICK j \in DOMAIN b["Orders"] : /\ b["Orders"][j].ref = r.order /\ r.date = b["Orders"][j].date
                                       /\ r.amount = Cents(InUSD(b["Orders"][j], r.currency))
    BY <1>5 DEF Wish
  <2>4. ~Clash("Orders", b["Orders"][i], b["Orders"][j])
    <3>1. "Orders" \in Sheets
      BY DEF Sheets, Cashflow
    <3> QED
      BY <3>1, NoClash
  <2>5. q.order = r.order /\ q.currency = r.currency
    BY <1>5 DEF SameKey, NaturalKey
  <2>6. b["Orders"][i] = b["Orders"][j]
    BY <2>2, <2>3, <2>4, <2>5 DEF Clash
  <2> QED
    BY <2>1, <2>2, <2>3, <2>5, <2>6
<1>6. CASE t = "overheads"
  <2>1. DOMAIN r = {"date", "text", "amount"}
    BY <1>1, <1>6 DEF BareRow, RowsOf, TableRow
  <2> DEFINE rows == b["Overheads"]
             amountOf(i, x) == Cents(IF x.text = "Salaries" THEN rows[i].amount ELSE rows[i].other)
  <2>2. PICK i \in FirstOfMonth(rows) : q.date = rows[i].date /\ q.amount = amountOf(i, q)
    BY <1>6 DEF Wish
  <2>3. PICK j \in FirstOfMonth(rows) : r.date = rows[j].date /\ r.amount = amountOf(j, r)
    BY <1>6 DEF Wish
  <2>4. q.date = r.date /\ q.text = r.text
    BY <1>6 DEF SameKey, NaturalKey
  <2>5. i \in Nat /\ j \in Nat /\ i >= 1 /\ j >= 1
    <3>1. "Overheads" \in Sheets
      BY DEF Sheets, Cashflow
    <3>2. rows \in Seq(SheetRow["Overheads"])
      BY <3>1, BooksAssumption
    <3>3. i \in DOMAIN rows /\ j \in DOMAIN rows
      BY DEF FirstOfMonth
    <3> QED
      BY <3>2, <3>3
  <2>6. i = j
    <3>1. rows[i].date = rows[j].date
      BY <2>2, <2>3, <2>4
    <3>2. /\ \A x \in 1..(i - 1) : rows[x].date # rows[i].date
          /\ \A x \in 1..(j - 1) : rows[x].date # rows[j].date
      BY DEF FirstOfMonth
    <3>3. j \notin 1..(i - 1) /\ i \notin 1..(j - 1)
      BY <3>1, <3>2
    <3> QED
      BY <2>5, <3>3
  <2>7. q.amount = r.amount
    BY <2>2, <2>3, <2>4, <2>6
  <2> QED
    BY <2>1, <2>4, <2>7
<1>7. CASE t = "taxDebt"
  <2>1. DOMAIN r = {"tax", "amount", "date", "paid"}
    BY <1>1, <1>7 DEF BareRow, RowsOf, TableRow
  <2>2. PICK i \in DOMAIN b["OtherTaxDebt"] : DebtOf(b["OtherTaxDebt"][i], q)
    BY <1>7 DEF Wish
  <2>3. PICK j \in DOMAIN b["OtherTaxDebt"] : DebtOf(b["OtherTaxDebt"][j], r)
    BY <1>7 DEF Wish
  <2>4. ~Clash("OtherTaxDebt", b["OtherTaxDebt"][i], b["OtherTaxDebt"][j])
    <3>1. "OtherTaxDebt" \in Sheets
      BY DEF Sheets, Cashflow
    <3> QED
      BY <3>1, NoClash
  <2> QED
    BY <1>1, <1>7, <2>1, <2>2, <2>3, <2>4 DEF Clash, SameKey, NaturalKey, BareRow, RowsOf, TableRow, DebtOf
<1>8. CASE t = "taxLedger"
  <2>1. DOMAIN r = {"tax", "amount"}
    BY <1>1, <1>8 DEF BareRow, RowsOf, TableRow
  <2>2. q.tax = r.tax
    BY <1>8 DEF SameKey, NaturalKey
  <2>3. q.amount = r.amount
    BY <1>8, <2>2 DEF Wish
  <2> QED
    BY <2>1, <2>2, <2>3
<1>9. CASE t = "lines"
  <2>1. DOMAIN r = {"date", "name", "amount", "paye"}
    BY <1>1, <1>9 DEF BareRow, RowsOf, TableRow
  <2>2. PICK i \in DOMAIN b["Payroll"] : q.date = b["Payroll"][i].date /\ q.name = b["Payroll"][i].name
          /\ q.amount = Cents(b["Payroll"][i].amount) /\ q.paye = Cents(b["Payroll"][i].paye)
    BY <1>9 DEF Wish
  <2>3. PICK j \in DOMAIN b["Payroll"] : r.date = b["Payroll"][j].date /\ r.name = b["Payroll"][j].name
          /\ r.amount = Cents(b["Payroll"][j].amount) /\ r.paye = Cents(b["Payroll"][j].paye)
    BY <1>9 DEF Wish
  <2>4. ~Clash("Payroll", b["Payroll"][i], b["Payroll"][j])
    <3>1. "Payroll" \in Sheets
      BY DEF Sheets, Cashflow
    <3> QED
      BY <3>1, NoClash
  <2> QED
    BY <1>1, <1>9, <2>1, <2>2, <2>3, <2>4 DEF Clash, SameKey, NaturalKey
<1>10. CASE t = "returns"
  <2>1. DOMAIN r = {"date", "amount", "status"}
    BY <1>1, <1>10 DEF BareRow, RowsOf, TableRow
  <2> QED
    BY <1>10, <2>1 DEF Wish, SameKey, NaturalKey
<1>11. CASE t = "entries"
  <2>1. DOMAIN r = {"date", "name", "amount"}
    BY <1>1, <1>11 DEF BareRow, RowsOf, TableRow
  <2>2. PICK i \in DOMAIN b["Manhours"] : q.date = b["Manhours"][i].date /\ q.name = b["Manhours"][i].name
          /\ q.amount = Cents(b["Manhours"][i].amount)
    BY <1>11 DEF Wish
  <2>3. PICK j \in DOMAIN b["Manhours"] : r.date = b["Manhours"][j].date /\ r.name = b["Manhours"][j].name
          /\ r.amount = Cents(b["Manhours"][j].amount)
    BY <1>11 DEF Wish
  <2>4. ~Clash("Manhours", b["Manhours"][i], b["Manhours"][j])
    <3>1. "Manhours" \in Sheets
      BY DEF Sheets, Cashflow
    <3> QED
      BY <3>1, NoClash
  <2> QED
    BY <1>1, <1>11, <2>1, <2>2, <2>3, <2>4 DEF Clash, SameKey, NaturalKey
<1>12. CASE t = "runs"
  <2>1. DOMAIN r = {"date", "status"}
    BY <1>1, <1>12 DEF BareRow, RowsOf, TableRow
  <2>2. q.status = "APPROVED" /\ r.status = "APPROVED"
    BY <1>1, <1>12 DEF BareRow, RowsOf, TableRow
  <2> QED
    BY <1>12, <2>1, <2>2 DEF SameKey, NaturalKey
<1>13. CASE t \in {"clients", "employees", "orderExpenses", "generalExpenses", "loans", "repayments", "claims"}
  <2>1. DOMAIN r = NaturalKey[t]
    <3>1. CASE t = "clients"
      BY <1>1, <3>1 DEF BareRow, RowsOf, TableRow, NaturalKey
    <3>2. CASE t = "employees"
      BY <1>1, <3>2 DEF BareRow, RowsOf, TableRow, NaturalKey
    <3>3. CASE t = "orderExpenses"
      BY <1>1, <3>3 DEF BareRow, RowsOf, TableRow, NaturalKey
    <3>4. CASE t = "generalExpenses"
      BY <1>1, <3>4 DEF BareRow, RowsOf, TableRow, NaturalKey
    <3>5. CASE t = "loans"
      BY <1>1, <3>5 DEF BareRow, RowsOf, TableRow, NaturalKey
    <3>6. CASE t = "repayments"
      BY <1>1, <3>6 DEF BareRow, RowsOf, TableRow, NaturalKey
    <3>7. CASE t = "claims"
      BY <1>1, <3>7 DEF BareRow, RowsOf, TableRow, NaturalKey
    <3> QED
      BY <1>13, <3>1, <3>2, <3>3, <3>4, <3>5, <3>6, <3>7
  <2> QED
    BY <2>1 DEF SameKey
<1> QED
  BY <1>1, <1>2, <1>3, <1>4, <1>5, <1>6, <1>7, <1>8, <1>9, <1>10, <1>11, <1>12, <1>13 DEF Tables

\* What is shown of the workbook still is, at the same place.
Follows(d, e, b) ==
    /\ Goes(d, e)
    /\ \A t, row, i : Wish(b, t, row) /\ ShowsAt(d, t, row, i) => ShowsAt(e, t, row, i)

\* Tables left alone follow themselves.
LEMMA FollowsSame == ASSUME NEW d, IsDB(d), NEW b PROVE Follows(d, d, b)
BY GoesNowhere DEF Follows

\* What follows the tables that follow, follows.
LEMMA FollowsOn == ASSUME NEW d, NEW e, NEW f, NEW b, IsDB(d), Follows(d, e, b), Follows(e, f, b) PROVE Follows(d, f, b)
BY GoesOn DEF Follows

\* A row the workbook has takes no other of its rows away.
LEMMA PutFollows ==
    ASSUME NEW d, IsDB(d), NEW b \in Books, Exact(b), NEW t, NEW row, Wish(b, t, row), NEW key, KeyIs(t, key, row),
           NEW e, e = Put(d, t, key, row), Goes(d, e)
    PROVE  Follows(d, e, b)
<1> DEFINE p == Place(d, t, key)
<1>1. t \in Tables /\ row \in BareRow(t)
  BY DEF Wish
<1>2. /\ Differs(d[t], e[t], p) /\ \A u \in Tables : u # t => e[u] = d[u]
      /\ ShowsAt(e, t, row, p)
  BY <1>1, PutShows
<1>3. p \in DOMAIN d[t] => SameKey(t, d[t][p], row)
  BY <1>1, PutPlace
<1> HIDE DEF p
<1> SUFFICES ASSUME NEW u, NEW r, NEW i, Wish(b, u, r), ShowsAt(d, u, r, i) PROVE ShowsAt(e, u, r, i)
  BY DEF Follows
<1>4. u \in Tables /\ r \in BareRow(u)
  BY DEF Wish
<1>5. CASE u # t
  BY <1>2, <1>4, <1>5 DEF ShowsAt
<1>6. CASE u = t
  <2>1. i \in DOMAIN d[t] /\ i \in Nat /\ i <= Len(d[t]) /\ Len(d[t]) \in Nat
    <3>1. d[t] \in Seq(RowsOf(t)) /\ i \in DOMAIN d[t]
      BY <1>1, <1>6 DEF IsDB, ShowsAt
    <3> QED
      BY <3>1
  <2>2. i \in DOMAIN e[t]
    <3>1. e[t] \in Seq(RowsOf(t)) /\ Len(d[t]) <= Len(e[t])
      BY <1>1 DEF Goes, Grown, IsDB
    <3>2. d[t] \in Seq(RowsOf(t))
      BY <1>1 DEF IsDB
    <3> QED
      BY <2>1, <3>1, <3>2
  <2>3. CASE i = p
    <3>1. SameKey(t, row, r)
      <4>1. SameKey(t, d[t][p], row)
        BY <1>3, <2>1, <2>3
      <4>2. \A g \in DOMAIN r : d[t][p][g] = r[g]
        BY <1>6, <2>3 DEF ShowsAt
      <4> QED
        BY <1>4, <1>6, <4>1, <4>2, KeyColumns DEF SameKey
    <3>3. row = r
      BY <1>6, <3>1, WishesAgree
    <3>5. \A g \in DOMAIN r : e[t][i][g] = r[g]
      BY <1>2, <2>3, <3>3 DEF ShowsAt
    <3>6. \A j \in DOMAIN e[t] : SameKey(t, e[t][j], r) => i <= j
      <4>1. \A j \in DOMAIN e[t] : SameKey(t, e[t][j], r) => SameKey(t, e[t][j], row)
        BY <3>1 DEF SameKey
      <4> QED
        BY <1>2, <2>3, <4>1 DEF ShowsAt
    <3> QED
      BY <1>6, <2>2, <3>5, <3>6 DEF ShowsAt
  <2>4. CASE i # p
    <3>1. e[t][i] = d[t][i]
      BY <1>2, <2>2, <2>4 DEF Differs
    <3>2. ASSUME NEW j \in DOMAIN e[t], SameKey(t, e[t][j], r) PROVE i <= j
      <4>1. CASE j \in DOMAIN d[t] /\ j # p
        <5>1. e[t][j] = d[t][j]
          BY <1>2, <4>1 DEF Differs
        <5> QED
          BY <1>6, <3>2, <4>1, <5>1 DEF ShowsAt
      <4>2. CASE j = p /\ p \in DOMAIN d[t]
        <5>1. SameKey(t, e[t][p], row)
          BY <1>1, <1>2, KeyColumns DEF ShowsAt, SameKey
        <5>2. SameKey(t, d[t][p], r)
          BY <1>3, <3>2, <4>2, <5>1 DEF SameKey
        <5> QED
          BY <1>6, <4>2, <5>2 DEF ShowsAt
      <4>3. CASE j = p /\ p \notin DOMAIN d[t]
        <5>1. p = Len(d[t]) + 1
          BY <1>2, <4>3 DEF Differs
        <5> QED
          BY <2>1, <4>3, <5>1
      <4>4. CASE j # p /\ j \notin DOMAIN d[t]
        BY <1>2, <4>4 DEF Differs
      <4> QED
        BY <4>1, <4>2, <4>3, <4>4
    <3> QED
      BY <1>6, <2>2, <3>1, <3>2 DEF ShowsAt
  <2> QED
    BY <2>3, <2>4
<1> QED
  BY <1>5, <1>6

-----------------------------------------------------------------------------
(* Once more: what a row writes is not written again.                      *)

\* A row of an exact workbook that was put is put again to no effect, as long
\* as what is shown of the workbook is.
LEMMA PutSettles ==
    ASSUME NEW d, IsDB(d), NEW b \in Books, Exact(b), NEW t, NEW row, Wish(b, t, row), NEW key, KeyIs(t, key, row),
           NEW e, e = Put(d, t, key, row), Goes(d, e)
    PROVE  /\ IsDB(e) /\ Follows(d, e, b)
           /\ \A f : Follows(e, f, b) => Put(f, t, key, row) = f /\ Place(f, t, key) = Place(d, t, key)
<1> DEFINE p == Place(d, t, key)
<1>1. t \in Tables /\ row \in BareRow(t)
  BY DEF Wish
<1>2. ShowsAt(e, t, row, p)
  BY <1>1, PutShows
<1> HIDE DEF p
<1>3. ASSUME NEW f, Follows(e, f, b) PROVE Put(f, t, key, row) = f /\ Place(f, t, key) = p
  <2>1. ShowsAt(f, t, row, p) /\ IsDB(f)
    BY <1>2, <1>3 DEF Follows, Goes
  <2> QED
    BY <1>1, <2>1, PutAgain, ShownPlace
<1>4. Follows(d, e, b)
  BY PutFollows
<1> QED
  BY <1>3, <1>4 DEF Goes, p

\* PutSettles, of a whole row of a table without journals.
LEMMA PlainSettles ==
    ASSUME NEW d, IsDB(d), NEW b \in Books, Exact(b), NEW t \in Plain, NEW row, Wish(b, t, row),
           NEW key, KeyIs(t, key, row), NEW e, e = Upsert(d, t, key, row)
    PROVE  /\ IsDB(e) /\ Follows(d, e, b)
           /\ \A f : Follows(e, f, b) => Upsert(f, t, key, row) = f /\ Place(f, t, key) = Place(d, t, key)
<1>1. row \in RowsOf(t) /\ KeyOf(key, row, t)
  BY DEF Wish, BareRow, Plain, KeyIs, KeyOf
<1>2. Goes(d, e)
  BY <1>1, UpsertKeeps, WritesGoes
<1>3. \A f : Put(f, t, key, row) = Upsert(f, t, key, row)
  BY DEF Put
<1> QED
  BY <1>2, <1>3, PutSettles

\* A row of an exact workbook.
LEMMA ExactRow ==
    ASSUME NEW b \in Books, Exact(b), NEW s \in Sheets, NEW i \in DOMAIN b[s], NEW r, r = b[s][i]
    PROVE  /\ r \in SheetRow[s]
           /\ "date" \in DOMAIN r => r.date # None
           /\ "until" \in DOMAIN r => r.until # None
           /\ "amount" \in DOMAIN r => Cents(r.amount) = r.amount
           /\ "paid" \in DOMAIN r => Cents(r.paid) = r.paid
           /\ "other" \in DOMAIN r => Cents(r.other) = r.other
<1>1. b[s] \in Seq(SheetRow[s])
  BY BooksAssumption
<1>2. /\ \A g \in {"date", "until"} \cap DOMAIN r : r[g] # None
      /\ \A g \in {"amount", "paid", "other"} \cap DOMAIN r : Cents(r[g]) = r[g]
  BY DEF Exact
<1> QED
  BY <1>1, <1>2

\* A rate that stays as it is when it is imported once more.
SettingsKept(e, b, r) == \A f : Follows(e, f, b) => UpsertSettings(f, r) = f

\* The rate of one key and day is written once.
LEMMA SettingsSettle ==
    ASSUME NEW d, IsDB(d), NEW b \in Books, Exact(b), NEW i \in DOMAIN b["Settings"], NEW r, r = b["Settings"][i],
           NEW e, e = UpsertSettings(d, r)
    PROVE  IsDB(e) /\ Follows(d, e, b) /\ SettingsKept(e, b, r)
<1> DEFINE t == "rates"
           key == [key |-> r.key, date |-> r.date]
           row == [key |-> r.key, date |-> r.date, value |-> r.value]
<1>1. r \in [key : STRING, date : Nat, value : Int]
  <2>1. "Settings" \in Sheets
    BY DEF Sheets, Cashflow
  <2> QED
    BY <2>1, ExactRow DEF SheetRow
<1>2. CASE r.value <= 0
  BY <1>2, FollowsSame DEF UpsertSettings, SettingsKept
<1>3. CASE ~(r.value <= 0)
  <2>1. \A f : UpsertSettings(f, r) = Upsert(f, t, key, row)
    BY <1>3 DEF UpsertSettings
  <2>2. t \in Plain /\ KeyIs(t, key, row) /\ Wish(b, t, row)
    BY <1>1 DEF Plain, Tables, RowsOf, TableRow, KeyIs, NaturalKey, Wish, BareRow
  <2> HIDE DEF t, key, row
  <2> QED
    BY <2>1, <2>2, PlainSettles DEF SettingsKept
<1> QED
  BY <1>2, <1>3

\* A client is created once.
LEMMA ClientsSettle ==
    ASSUME NEW d, IsDB(d), NEW b \in Books, Exact(b), NEW r, r \in [name : STRING],
           NEW e, e = UpsertClients(d, r)
    PROVE  IsDB(e) /\ Follows(d, e, b) /\ \A f : Follows(e, f, b) => UpsertClients(f, r) = f
<1> DEFINE t == "clients"
           key == [name |-> r.name]
<1>1. \A f : UpsertClients(f, r) = Upsert(f, t, key, key)
  BY DEF UpsertClients
<1>2. t \in Plain /\ KeyIs(t, key, key) /\ Wish(b, t, key)
  BY DEF Plain, Tables, RowsOf, TableRow, KeyIs, NaturalKey, Wish, BareRow
<1> HIDE DEF t, key
<1> QED
  BY <1>1, <1>2, PlainSettles

\* So is a client a contract or an order names.
LEMMA ResolveSettles ==
    ASSUME NEW d, IsDB(d), NEW b \in Books, Exact(b), NEW name, name \in STRING, NEW e, e = ResolveClient(d, name)
    PROVE  IsDB(e) /\ Follows(d, e, b) /\ \A f : Follows(e, f, b) => ResolveClient(f, name) = f
<1> DEFINE t == "clients"
           key == [name |-> name]
<1>1. t \in Plain /\ KeyIs(t, key, key) /\ Wish(b, t, key) /\ key \in BareRow(t)
  BY DEF Plain, Tables, RowsOf, TableRow, KeyIs, NaturalKey, Wish, BareRow
<1>2. \A q \in RowsOf(t) : SameKey(t, q, key) => \A g \in DOMAIN key : q[g] = key[g]
  BY DEF SameKey, NaturalKey
<1>3. \A f : IsDB(f) => ResolveClient(f, name) = Upsert(f, t, key, key)
  <2> SUFFICES ASSUME NEW f, IsDB(f) PROVE ResolveClient(f, name) = Upsert(f, t, key, key)
    OBVIOUS
  <2>1. ResolveClient(f, name) = IF Found(f, t, key) # {} THEN f ELSE Added(f, t, key)
    BY DEF ResolveClient, Added
  <2> HIDE DEF t, key
  <2>2. Put(f, t, key, key) = ResolveClient(f, name)
    BY <1>1, <1>2, <2>1, FindOrAdd
  <2> QED
    BY <1>1, <2>2 DEF Put
<1>4. \A f : Follows(e, f, b) => IsDB(f)
  BY DEF Follows, Goes
<1> HIDE DEF t, key
<1>5. e = Upsert(d, t, key, key)
  BY <1>3
<1>6. IsDB(e) /\ Follows(d, e, b) /\ \A f : Follows(e, f, b) => Upsert(f, t, key, key) = f
  BY <1>1, <1>5, PlainSettles
<1> QED
  BY <1>3, <1>4, <1>6

\* A contract, or an order without its receipts.
AgreementPut(d, t, r) ==
    Upsert(ResolveClient(d, r.client), t, [ref |-> r.ref], AgreementRow(t, r))

\* A contract, or an order, that stays as it is when it is imported once more.
AgreementKept(e, b, t, r) == \A f : Follows(e, f, b) => AgreementPut(f, t, r) = f

\* The client of the contract or the order is resolved as it was.
LEMMA AgreementSettles ==
    ASSUME NEW d, IsDB(d), NEW b \in Books, Exact(b), NEW t, NEW s, <<t, s>> \in {<<"contracts", "Contracts">>, <<"orders", "Orders">>},
           NEW i \in DOMAIN b[s], NEW r, r = b[s][i], NEW e, e = AgreementPut(d, t, r)
    PROVE  IsDB(e) /\ Follows(d, e, b) /\ AgreementKept(e, b, t, r)
<1> DEFINE key == [ref |-> r.ref]
           row == AgreementRow(t, r)
           name == r.client
           c == ResolveClient(d, name)
<1>1. name \in STRING /\ row \in RowsOf(t) /\ row.ref = r.ref
  <2>1. s \in Sheets
    BY DEF Sheets, Cashflow
  <2>2. r \in SheetRow[s]
    BY <2>1, ExactRow
  <2>3. CASE t = "contracts" /\ s = "Contracts"
    <3>1. r \in SheetRow["Contracts"] /\ "date" \in DOMAIN r /\ "until" \in DOMAIN r
      BY <2>2, <2>3 DEF SheetRow
    <3>2. r.date # None /\ r.until # None
      BY <2>1, <3>1, ExactRow
    <3>3. row = ContractOf(r, 0)
      BY <2>3, <3>2 DEF AgreementRow, ContractOf, DateOf
    <3> HIDE DEF row
    <3>4. row \in RowsOf(t) /\ name \in STRING
      BY <2>3, <3>1, <3>3, AgreementIs
    <3> QED
      BY <3>3, <3>4 DEF ContractOf
  <2>4. CASE t = "orders" /\ s = "Orders"
    <3>1. r \in OrderRow
      BY <2>2, <2>4 DEF OrderRow
    <3>2. row = OrderOf(r)
      BY <2>4 DEF AgreementRow
    <3> HIDE DEF row
    <3>3. row \in RowsOf(t) /\ name \in STRING
      <4>1. 0 \in Nat
        OBVIOUS
      <4> QED
        BY <2>4, <3>1, <3>2, <4>1, AgreementIs
    <3> QED
      BY <3>2, <3>3 DEF OrderOf
  <2> QED
    BY <2>3, <2>4
<1>2. IsDB(c) /\ Follows(d, c, b) /\ \A f : Follows(c, f, b) => ResolveClient(f, name) = f
  BY <1>1, ResolveSettles
<1>3. t \in Plain /\ KeyIs(t, key, row) /\ Wish(b, t, row)
  <2>1. CASE t = "contracts" /\ s = "Contracts"
    BY <1>1, <2>1 DEF Plain, Tables, KeyIs, NaturalKey, Wish, BareRow
  <2>2. CASE t = "orders" /\ s = "Orders"
    BY <1>1, <2>2 DEF Plain, Tables, KeyIs, NaturalKey, Wish, BareRow
  <2> QED
    BY <2>1, <2>2
<1>4. \A f : AgreementPut(f, t, r) = Upsert(ResolveClient(f, name), t, key, row)
  BY DEF AgreementPut
<1> HIDE DEF key, row, name
<1>5. e = Upsert(c, t, key, row)
  BY <1>4
<1> HIDE DEF c
<1>6. IsDB(e) /\ Follows(c, e, b) /\ \A f : Follows(e, f, b) => Upsert(f, t, key, row) = f
  BY <1>2, <1>3, <1>5, PlainSettles
<1>7. ASSUME NEW f, Follows(e, f, b) PROVE AgreementPut(f, t, r) = f
  <2>1. Follows(c, f, b)
    BY <1>2, <1>6, <1>7, FollowsOn
  <2> QED
    BY <1>2, <1>4, <1>6, <1>7, <2>1
<1> QED
  BY <1>2, <1>6, <1>7, FollowsOn DEF AgreementKept

\* A receipt that stays as it is when its order is imported once more.
ReceiptKept(e, b, r, currency) == \A f, another : Follows(e, f, b) => ReceiptLeg(f, r, currency, another) = f

\* One receipt of an order: the sheet has one amount for it in each currency,
\* and one date.
LEMMA LegSettles ==
    ASSUME NEW d, IsDB(d), NEW b \in Books, Exact(b), NEW i \in DOMAIN b["Orders"], NEW r, r = b["Orders"][i],
           NEW currency, currency \in {"USD", "ZIG"}, NEW day \in Nat, NEW e, e = ReceiptLeg(d, r, currency, day)
    PROVE  IsDB(e) /\ Follows(d, e, b) /\ ReceiptKept(e, b, r, currency)
<1> DEFINE t == "receipts"
           cents == Cents(InUSD(r, currency))
           order == r.ref
           date == r.date
           key == [order |-> order, currency |-> currency]
           row == [order |-> order, currency |-> currency, amount |-> cents, date |-> date]
<1>1. r \in OrderRow /\ r.date # None
  <2>1. "Orders" \in Sheets
    BY DEF Sheets, Cashflow
  <2>2. r \in SheetRow["Orders"]
    BY <2>1, ExactRow
  <2>3. "date" \in DOMAIN r
    BY <2>2 DEF SheetRow
  <2> QED
    BY <2>1, <2>2, <2>3, ExactRow DEF OrderRow
<1>2. CASE ~Received(r, currency)
  BY <1>2, FollowsSame DEF ReceiptLeg, ReceiptKept
<1>3. CASE Received(r, currency)
  <2>1. \A f, another : ReceiptLeg(f, r, currency, another) = Put(f, t, key, row)
    BY <1>1, <1>3 DEF ReceiptLeg, DateOf, Put, Plain
  <2>2. order \in STRING /\ cents \in Cent /\ date \in Nat
    BY <1>1, <1>3, LegIs DEF DateOf
  <2>3. KeyIs(t, key, row)
    BY DEF KeyIs, NaturalKey
  <2>4. Wish(b, t, row)
    <3>1. row \in BareRow(t)
      BY <2>2 DEF BareRow
    <3>2. row.order = b["Orders"][i].ref /\ row.amount = Cents(InUSD(b["Orders"][i], row.currency)) /\ row.date = b["Orders"][i].date
      OBVIOUS
    <3> HIDE DEF row
    <3> QED
      BY <3>1, <3>2 DEF Wish, Tables
  <2>5. Goes(d, e)
    BY <1>1, <1>3, LegGoes, WritesGoes
  <2> HIDE DEF t, key, row
  <2>6. e = Put(d, t, key, row)
    BY <2>1
  <2>7. IsDB(e) /\ Follows(d, e, b) /\ \A f : Follows(e, f, b) => Put(f, t, key, row) = f
    BY <2>3, <2>4, <2>5, <2>6, PutSettles
  <2> QED
    BY <2>1, <2>7 DEF ReceiptKept
<1> QED
  BY <1>2, <1>3

\* An order and its receipts that stay as they are when the row is imported once more.
OrderKept(e, b, r) == \A f, another : Follows(e, f, b) => UpsertOrders(f, r, another) = f

\* Its order, its client and both receipts are found as they were left.
LEMMA OrdersSettle ==
    ASSUME NEW d, IsDB(d), NEW b \in Books, Exact(b), NEW i \in DOMAIN b["Orders"], NEW r, r = b["Orders"][i],
           NEW day \in Nat, NEW e, e = UpsertOrders(d, r, day)
    PROVE  IsDB(e) /\ Follows(d, e, b) /\ OrderKept(e, b, r)
<1> DEFINE o == AgreementPut(d, "orders", r)
           u == ReceiptLeg(o, r, "USD", day)
<1>2. \A f, another : UpsertOrders(f, r, another)
                         = ReceiptLeg(ReceiptLeg(AgreementPut(f, "orders", r), r, "USD", another), r, "ZIG", another)
  BY DEF UpsertOrders, UpsertOrderReceipts, AgreementPut, AgreementRow, OrderOf
<1>4. IsDB(o) /\ Follows(d, o, b) /\ AgreementKept(o, b, "orders", r)
  <2> DEFINE t == "orders"
             s == "Orders"
  <2>1. <<t, s>> \in {<<"contracts", "Contracts">>, <<"orders", "Orders">>} /\ i \in DOMAIN b[s] /\ r = b[s][i]
        /\ o = AgreementPut(d, t, r)
    OBVIOUS
  <2>2. IsDB(o) /\ Follows(d, o, b) /\ AgreementKept(o, b, t, r)
    <3> HIDE DEF t, s, o
    <3> QED
      BY <2>1, AgreementSettles
  <2> QED
    BY <2>2
<1>6. e = ReceiptLeg(u, r, "ZIG", day)
  BY <1>2
<1> HIDE DEF o
<1>5. IsDB(u) /\ Follows(o, u, b) /\ ReceiptKept(u, b, r, "USD")
  BY <1>4, LegSettles
<1> HIDE DEF u
<1>7. IsDB(e) /\ Follows(u, e, b) /\ ReceiptKept(e, b, r, "ZIG")
  BY <1>5, <1>6, LegSettles
<1>8. ASSUME NEW f, NEW another, Follows(e, f, b) PROVE UpsertOrders(f, r, another) = f
  <2>1. Follows(u, f, b)
    BY <1>5, <1>7, <1>8, FollowsOn
  <2>2. Follows(o, f, b)
    BY <1>4, <1>5, <2>1, FollowsOn
  <2> QED
    BY <1>2, <1>4, <1>5, <1>7, <1>8, <2>1, <2>2 DEF AgreementKept, ReceiptKept
<1>9. Follows(o, e, b)
  BY <1>4, <1>5, <1>7, FollowsOn
<1> QED
  BY <1>4, <1>7, <1>8, <1>9, FollowsOn DEF OrderKept

\* An expense of an order that stays as it is when it is imported once more.
OrderExpenseKept(e, b, r, orders) == \A f : Follows(e, f, b) => UpsertOrderExpenses(f, r, orders) = f

\* The expense is written if the sheet has the order, which it still has.
LEMMA OrderExpensesSettle ==
    ASSUME NEW d, IsDB(d), NEW b \in Books, Exact(b), NEW i \in DOMAIN b["OrderExpenses"], NEW r, r = b["OrderExpenses"][i],
           NEW orders, NEW e, e = UpsertOrderExpenses(d, r, orders)
    PROVE  IsDB(e) /\ Follows(d, e, b) /\ OrderExpenseKept(e, b, r, orders)
<1> DEFINE t == "orderExpenses"
           key == [order |-> r.ref, text |-> r.text, amount |-> r.amount]
<1>1. r \in [ref : STRING, text : STRING, amount : Int] /\ Cents(r.amount) = r.amount
  <2>1. "OrderExpenses" \in Sheets
    BY DEF Sheets, Cashflow
  <2>2. r \in SheetRow["OrderExpenses"] /\ ("amount" \in DOMAIN r => Cents(r.amount) = r.amount)
    BY <2>1, ExactRow
  <2>3. r \in [ref : STRING, text : STRING, amount : Int]
    BY <2>2 DEF SheetRow
  <2> QED
    BY <2>2, <2>3
<1>2. CASE r.ref \notin orders
  BY <1>2, FollowsSame DEF UpsertOrderExpenses, OrderExpenseKept
<1>3. CASE r.ref \in orders
  <2>1. \A f : UpsertOrderExpenses(f, r, orders) = Upsert(f, t, key, key)
    BY <1>1, <1>3 DEF UpsertOrderExpenses
  <2>2. t \in Plain /\ KeyIs(t, key, key) /\ Wish(b, t, key)
    BY <1>1 DEF Plain, Tables, RowsOf, TableRow, KeyIs, NaturalKey, Wish, BareRow, Cent
  <2> HIDE DEF t, key
  <2>3. e = Upsert(d, t, key, key)
    BY <2>1
  <2>4. IsDB(e) /\ Follows(d, e, b) /\ \A f : Follows(e, f, b) => Upsert(f, t, key, key) = f
    BY <2>2, <2>3, PlainSettles
  <2> QED
    BY <2>1, <2>4 DEF OrderExpenseKept
<1> QED
  BY <1>2, <1>3

\* A general expense that stays as it is when it is imported once more.
ExpenseKept(e, b, r) == \A f, other : Follows(e, f, b) => UpsertGeneralExpenses(f, r, other) = f

\* An exact row has a date: the day of the import does not matter.
LEMMA GeneralExpensesSettle ==
    ASSUME NEW d, IsDB(d), NEW b \in Books, Exact(b), NEW i \in DOMAIN b["GeneralExpenses"], NEW r, r = b["GeneralExpenses"][i],
           NEW day, NEW e, e = UpsertGeneralExpenses(d, r, day)
    PROVE  IsDB(e) /\ Follows(d, e, b) /\ ExpenseKept(e, b, r)
<1> DEFINE t == "generalExpenses"
           key == [text |-> r.text, amount |-> r.amount, date |-> r.date]
<1>1. r \in [text : STRING, amount : Int, date : Nat \cup {None}] /\ r.date # None /\ Cents(r.amount) = r.amount
  <2>1. "GeneralExpenses" \in Sheets
    BY DEF Sheets, Cashflow
  <2>2. /\ r \in SheetRow["GeneralExpenses"]
        /\ "date" \in DOMAIN r => r.date # None
        /\ "amount" \in DOMAIN r => Cents(r.amount) = r.amount
    BY <2>1, ExactRow
  <2>3. r \in [text : STRING, amount : Int, date : Nat \cup {None}]
    BY <2>2 DEF SheetRow
  <2> QED
    BY <2>2, <2>3
<1>2. \A f, other : UpsertGeneralExpenses(f, r, other) = Upsert(f, t, key, key)
  <2> SUFFICES ASSUME NEW f, NEW other PROVE UpsertGeneralExpenses(f, r, other) = Upsert(f, t, key, key)
    OBVIOUS
  <2>1. DateOf(r, other) = r.date
    BY <1>1 DEF DateOf
  <2> QED
    BY <1>1, <2>1 DEF UpsertGeneralExpenses
<1>3. t \in Plain /\ KeyIs(t, key, key) /\ Wish(b, t, key)
  BY <1>1 DEF Plain, Tables, RowsOf, TableRow, KeyIs, NaturalKey, Wish, BareRow, Cent
<1> HIDE DEF t, key
<1>4. e = Upsert(d, t, key, key)
  BY <1>2
<1>5. IsDB(e) /\ Follows(d, e, b) /\ \A f : Follows(e, f, b) => Upsert(f, t, key, key) = f
  BY <1>3, <1>4, PlainSettles
<1> QED
  BY <1>2, <1>5 DEF ExpenseKept

\* The overhead of a month in one category.
LEMMA BucketSettles ==
    ASSUME NEW d, IsDB(d), NEW b \in Books, Exact(b), NEW i \in FirstOfMonth(b["Overheads"]),
           NEW month \in Nat, month = b["Overheads"][i].date, NEW category, category \in {"Salaries", "Other"},
           NEW amount \in Int, amount = (IF category = "Salaries" THEN b["Overheads"][i].amount ELSE b["Overheads"][i].other),
           NEW e, e = OverheadBucket(d, month, category, amount)
    PROVE  IsDB(e) /\ Follows(d, e, b) /\ \A f : Follows(e, f, b) => OverheadBucket(f, month, category, amount) = f
<1> DEFINE t == "overheads"
           key == [date |-> month, text |-> category]
           row == [date |-> month, text |-> category, amount |-> Cents(amount)]
<1>1. CASE amount = 0
  BY <1>1, FollowsSame DEF OverheadBucket
<1>2. CASE amount # 0
  <2>1. \A f : OverheadBucket(f, month, category, amount) = Upsert(f, t, key, row)
    BY <1>2 DEF OverheadBucket
  <2>2. Cents(amount) \in Cent
    BY CentsAgain
  <2>3. t \in Plain /\ KeyIs(t, key, row) /\ Wish(b, t, row)
    BY <2>2 DEF Plain, Tables, RowsOf, TableRow, KeyIs, NaturalKey, Wish, BareRow
  <2> HIDE DEF t, key, row
  <2>4. e = Upsert(d, t, key, row)
    BY <2>1
  <2>5. IsDB(e) /\ Follows(d, e, b) /\ \A f : Follows(e, f, b) => Upsert(f, t, key, row) = f
    BY <2>3, <2>4, PlainSettles
  <2> QED
    BY <2>1, <2>5
<1> QED
  BY <1>1, <1>2

\* The overheads: only the first row of a month is exact.
LEMMA OverheadsSettle ==
    ASSUME NEW d, IsDB(d), NEW b \in Books, Exact(b), NEW i \in DOMAIN b["Overheads"], NEW e, e = UpsertOverheads(d, b["Overheads"], i)
    PROVE  IsDB(e) /\ Follows(d, e, b) /\ \A f : Follows(e, f, b) => UpsertOverheads(f, b["Overheads"], i) = f
<1> DEFINE rows == b["Overheads"]
           month == rows[i].date
           amount == rows[i].amount
           other == rows[i].other
           u == OverheadBucket(d, month, "Salaries", amount)
<1>1. CASE i \notin FirstOfMonth(rows)
  BY <1>1, FollowsSame DEF UpsertOverheads
<1>2. CASE i \in FirstOfMonth(rows)
  <2>1. month \in Nat /\ amount \in Int /\ other \in Int
    <3>1. "Overheads" \in Sheets
      BY DEF Sheets, Cashflow
    <3>2. rows \in Seq(SheetRow["Overheads"])
      BY <3>1, BooksAssumption
    <3>3. rows[i] \in SheetRow["Overheads"] /\ month # None
      BY <1>2, <3>2 DEF FirstOfMonth
    <3>4. rows[i] \in [date : Nat \cup {None}, amount : Int, other : Int]
      BY <3>3 DEF SheetRow
    <3> QED
      BY <3>3, <3>4
  <2>2. \A f : UpsertOverheads(f, rows, i) = OverheadBucket(OverheadBucket(f, month, "Salaries", amount), month, "Other", other)
    BY <1>2 DEF UpsertOverheads
  <2>3. month = rows[i].date /\ amount = (IF "Salaries" = "Salaries" THEN rows[i].amount ELSE rows[i].other)
        /\ other = (IF "Other" = "Salaries" THEN rows[i].amount ELSE rows[i].other)
    OBVIOUS
  <2> HIDE DEF month, amount, other
  <2>4. IsDB(u) /\ Follows(d, u, b) /\ \A f : Follows(u, f, b) => OverheadBucket(f, month, "Salaries", amount) = f
    <3> DEFINE category == "Salaries"
    <3>1. category \in {"Salaries", "Other"} /\ amount = (IF category = "Salaries" THEN b["Overheads"][i].amount ELSE b["Overheads"][i].other)
          /\ i \in FirstOfMonth(b["Overheads"]) /\ month = b["Overheads"][i].date /\ u = OverheadBucket(d, month, category, amount)
      BY <1>2, <2>3
    <3>2. IsDB(u) /\ Follows(d, u, b) /\ \A f : Follows(u, f, b) => OverheadBucket(f, month, category, amount) = f
      <4> HIDE DEF category, u
      <4> QED
        BY <2>1, <3>1, BucketSettles
    <3> QED
      BY <3>2
  <2> HIDE DEF u
  <2>5. IsDB(e) /\ Follows(u, e, b) /\ \A f : Follows(e, f, b) => OverheadBucket(f, month, "Other", other) = f
    <3> DEFINE category == "Other"
    <3>1. category \in {"Salaries", "Other"} /\ other = (IF category = "Salaries" THEN b["Overheads"][i].amount ELSE b["Overheads"][i].other)
          /\ i \in FirstOfMonth(b["Overheads"]) /\ month = b["Overheads"][i].date /\ e = OverheadBucket(u, month, category, other)
      BY <1>2, <2>2, <2>3 DEF u
    <3>2. IsDB(e) /\ Follows(u, e, b) /\ \A f : Follows(e, f, b) => OverheadBucket(f, month, category, other) = f
      <4> HIDE DEF category
      <4> QED
        BY <2>1, <2>4, <3>1, BucketSettles
    <3> QED
      BY <3>2
  <2>6. ASSUME NEW f, Follows(e, f, b) PROVE UpsertOverheads(f, rows, i) = f
    <3>1. Follows(u, f, b)
      BY <2>4, <2>5, <2>6, FollowsOn
    <3> QED
      BY <2>2, <2>4, <2>5, <2>6, <3>1
  <2> QED
    BY <2>4, <2>5, <2>6, FollowsOn
<1> QED
  BY <1>1, <1>2

\* A loan and its repayment, whatever the day.
LEMMA LoansSettle ==
    ASSUME NEW d, IsDB(d), NEW b \in Books, Exact(b), NEW i \in DOMAIN b["Loans"], NEW r, r = b["Loans"][i],
           NEW day, NEW e, e = UpsertLoans(d, r, day)
    PROVE  IsDB(e) /\ Follows(d, e, b) /\ \A f, another : Follows(e, f, b) => UpsertLoans(f, r, another) = f
<1> DEFINE t == "loans"
           key == [text |-> r.text, amount |-> r.amount, date |-> r.date]
           paidIn(id) == [loan |-> id, amount |-> r.paid]
           lent == Upsert(d, t, key, key)
           id == Place(d, t, key)
<1>1. /\ r \in [text : STRING, amount : Int, date : Nat \cup {None}, paid : Int] /\ r.date # None
      /\ Cents(r.amount) = r.amount /\ Cents(r.paid) = r.paid
  <2>1. "Loans" \in Sheets
    BY DEF Sheets, Cashflow
  <2>2. /\ r \in SheetRow["Loans"]
        /\ "date" \in DOMAIN r => r.date # None
        /\ "amount" \in DOMAIN r => Cents(r.amount) = r.amount
        /\ "paid" \in DOMAIN r => Cents(r.paid) = r.paid
    BY <2>1, ExactRow
  <2>3. r \in [text : STRING, amount : Int, date : Nat \cup {None}, paid : Int]
    BY <2>2 DEF SheetRow
  <2> QED
    BY <2>2, <2>3
<1>2. ASSUME NEW f, NEW another
      PROVE  UpsertLoans(f, r, another) =
                IF r.paid <= 0 THEN Upsert(f, t, key, key)
                ELSE Upsert(Upsert(f, t, key, key), "repayments", paidIn(Place(f, t, key)), paidIn(Place(f, t, key)))
  <2>1. DateOf(r, another) = r.date
    BY <1>1 DEF DateOf
  <2> QED
    BY <1>1, <2>1 DEF UpsertLoans
<1>3. t \in Plain /\ KeyIs(t, key, key) /\ Wish(b, t, key)
  BY <1>1 DEF Plain, Tables, RowsOf, TableRow, KeyIs, NaturalKey, Wish, BareRow, Cent
<1>4. id \in Nat
  <2>1. d[t] \in Seq(RowsOf(t))
    BY DEF IsDB, Tables
  <2> HIDE DEF t, key
  <2>2. id \in 1..(Len(d[t]) + 1)
    BY <2>1, PlaceIs
  <2> QED
    BY <2>1, <2>2
<1> DEFINE repayments == "repayments"
           paid == paidIn(id)
<1>5. repayments \in Plain /\ KeyIs(repayments, paid, paid) /\ Wish(b, repayments, paid)
  <2>1. id \in Nat /\ r.paid \in Cent
    BY <1>1, <1>4 DEF Cent
  <2> HIDE DEF id
  <2> QED
    BY <2>1 DEF Plain, Tables, RowsOf, TableRow, KeyIs, NaturalKey, Wish, BareRow
<1>6. /\ IsDB(lent) /\ Follows(d, lent, b)
      /\ \A f : Follows(lent, f, b) => Upsert(f, t, key, key) = f /\ Place(f, t, key) = id
  <2> HIDE DEF t, key
  <2> QED
    BY <1>3, PlainSettles
<1>7. CASE r.paid <= 0
  <2>1. \A f, another : UpsertLoans(f, r, another) = Upsert(f, t, key, key)
    BY <1>2, <1>7
  <2> HIDE DEF t, key
  <2> QED
    BY <1>6, <2>1
<1>8. CASE ~(r.paid <= 0)
  <2> HIDE DEF t, key, lent
  <2>1. \A f, another : UpsertLoans(f, r, another) =
            Upsert(Upsert(f, t, key, key), repayments, paidIn(Place(f, t, key)), paidIn(Place(f, t, key)))
    BY <1>2, <1>8
  <2>2. e = Upsert(lent, repayments, paid, paid)
    BY <2>1 DEF lent
  <2>3. IsDB(e) /\ Follows(lent, e, b) /\ \A f : Follows(e, f, b) => Upsert(f, repayments, paid, paid) = f
    <3> HIDE DEF repayments, paid
    <3> QED
      BY <1>5, <1>6, <2>2, PlainSettles
  <2>4. ASSUME NEW f, NEW another, Follows(e, f, b) PROVE UpsertLoans(f, r, another) = f
    <3>1. Follows(lent, f, b)
      BY <1>6, <2>3, <2>4, FollowsOn
    <3>2. Upsert(f, t, key, key) = f /\ Place(f, t, key) = id
      BY <1>6, <3>1
    <3> QED
      BY <2>1, <2>3, <2>4, <3>2
  <2> QED
    BY <1>6, <2>3, <2>4, FollowsOn
<1> QED
  BY <1>7, <1>8

\* A payment of a contract the sheet has: its claim is posted once.
LEMMA ClaimsSettle ==
    ASSUME NEW d, IsDB(d), NEW b \in Books, Exact(b), NEW i \in DOMAIN b["ContractPayments"],
           NEW r, r = b["ContractPayments"][i], NEW contracts,
           NEW day \in Nat, NEW e, e = UpsertContractClaims(d, r, contracts, day)
    PROVE  IsDB(e) /\ Follows(d, e, b) /\ \A f, another : Follows(e, f, b) => UpsertContractClaims(f, r, contracts, another) = f
<1> DEFINE t == "claims"
           key == [contract |-> r.ref, amount |-> r.amount, date |-> r.date]
<1>1. /\ r \in [ref : STRING, amount : Int, date : Nat \cup {None}] /\ r.date # None
      /\ Cents(r.amount) = r.amount
  <2>1. "ContractPayments" \in Sheets
    BY DEF Sheets, Cashflow
  <2>2. /\ r \in SheetRow["ContractPayments"]
        /\ "date" \in DOMAIN r => r.date # None
        /\ "amount" \in DOMAIN r => Cents(r.amount) = r.amount
    BY <2>1, ExactRow
  <2>3. r \in [ref : STRING, amount : Int, date : Nat \cup {None}]
    BY <2>2 DEF SheetRow
  <2> QED
    BY <2>2, <2>3
<1>2. CASE r.ref \notin contracts
  BY <1>2, FollowsSame DEF UpsertContractClaims
<1>3. CASE r.ref \in contracts
  <2>1. ASSUME NEW f, NEW another PROVE UpsertContractClaims(f, r, contracts, another) = Put(f, t, key, key)
    <3>1. DateOf(r, another) = r.date
      BY <1>1 DEF DateOf
    <3> QED
      BY <1>1, <1>3, <3>1 DEF UpsertContractClaims, Put, Plain
  <2>2. KeyIs(t, key, key) /\ Wish(b, t, key)
    BY <1>1 DEF Tables, KeyIs, NaturalKey, Wish, BareRow, Cent
  <2>3. Goes(d, e)
    BY <1>1, ClaimsGoes DEF Beside
  <2> HIDE DEF t, key
  <2>4. e = Put(d, t, key, key)
    BY <2>1
  <2>5. IsDB(e) /\ Follows(d, e, b) /\ \A f : Follows(e, f, b) => Put(f, t, key, key) = f
    BY <2>2, <2>3, <2>4, PutSettles
  <2> QED
    BY <2>1, <2>5
<1> QED
  BY <1>2, <1>3

Principal(r, tax) == IF tax = "PAYE" THEN r.amount ELSE r.other

\* A debt of one tax that stays as it is when it is imported once more.
LegKept(e, b, r, tax, principal) == \A f, another : Follows(e, f, b) => DebtLeg(f, r, tax, principal, another) = f

\* The debt, its payment and what is paid of it.
LEMMA DebtLegSettles ==
    ASSUME NEW d, IsDB(d), NEW b \in Books, Exact(b), NEW i \in DOMAIN b["OtherTaxDebt"], NEW r, r = b["OtherTaxDebt"][i],
           NEW tax, tax \in {"PAYE", "VAT"}, NEW principal, principal = Principal(r, tax),
           r \in [amount : Int, other : Int, paid : Int, date : Nat], Cents(principal) = principal,
           r.date # None,
           NEW day, NEW e, e = DebtLeg(d, r, tax, principal, day)
    PROVE  IsDB(e) /\ Follows(d, e, b) /\ LegKept(e, b, r, tax, principal)
<1> DEFINE t == "taxDebt"
           key == [tax |-> tax, amount |-> principal, date |-> r.date]
           row == [tax |-> tax, amount |-> principal, date |-> r.date, paid |-> Cents(r.paid)]
<1>1. principal \in Int
  BY DEF Principal
<1>2. CASE principal <= 0
  BY <1>2, FollowsSame DEF DebtLeg, LegKept
<1>3. CASE ~(principal <= 0)
  <2>1. ASSUME NEW f, NEW another PROVE DebtLeg(f, r, tax, principal, another) = Upsert(f, t, key, row)
    <3>1. DateOf(r, another) = r.date
      BY DEF DateOf
    <3> QED
      BY <1>3, <3>1 DEF DebtLeg
  <2>2. Cents(r.paid) \in Cent /\ principal \in Cent /\ principal > 0
    BY <1>1, <1>3, CentsAgain DEF Cent
  <2>3. t \in Plain /\ KeyIs(t, key, row) /\ Wish(b, t, row)
    <3>1. t \in Plain /\ KeyIs(t, key, row) /\ row \in BareRow(t)
      BY <2>2 DEF Plain, Tables, RowsOf, TableRow, KeyIs, NaturalKey, BareRow
    <3>2. DebtOf(b["OtherTaxDebt"][i], row)
      BY <2>2 DEF DebtOf, Principal
    <3> HIDE DEF row, key
    <3> QED
      BY <3>1, <3>2 DEF Wish, Plain
  <2> HIDE DEF t, key, row
  <2>4. e = Upsert(d, t, key, row)
    BY <2>1
  <2>5. IsDB(e) /\ Follows(d, e, b) /\ \A f : Follows(e, f, b) => Upsert(f, t, key, row) = f
    BY <2>3, <2>4, PlainSettles
  <2> QED
    BY <2>1, <2>5 DEF LegKept
<1> QED
  BY <1>2, <1>3

\* The debts of one row, of PAYE and of VAT.
LEMMA TaxDebtSettle ==
    ASSUME NEW d, IsDB(d), NEW b \in Books, Exact(b), NEW i \in DOMAIN b["OtherTaxDebt"], NEW r, r = b["OtherTaxDebt"][i],
           NEW day, NEW e, e = UpsertTaxDebt(d, r, day)
    PROVE  IsDB(e) /\ Follows(d, e, b) /\ \A f, another : Follows(e, f, b) => UpsertTaxDebt(f, r, another) = f
<1> DEFINE amount == r.amount
           other == r.other
           paye == "PAYE"
           vat == "VAT"
<1>1. /\ r \in [amount : Int, other : Int, paid : Int, date : Nat] /\ Cents(amount) = amount /\ Cents(other) = other
      /\ r.date # None
  <2>1. "OtherTaxDebt" \in Sheets
    BY DEF Sheets, Cashflow
  <2>2. /\ r \in SheetRow["OtherTaxDebt"]
        /\ "date" \in DOMAIN r => r.date # None
        /\ "amount" \in DOMAIN r => Cents(r.amount) = r.amount
        /\ "other" \in DOMAIN r => Cents(r.other) = r.other
    BY <2>1, ExactRow
  <2>3. r \in [amount : Int, other : Int, paid : Int, date : Nat \cup {None}]
    BY <2>2 DEF SheetRow
  <2>4. r.date # None
    BY <2>2, <2>3
  <2> QED
    BY <2>2, <2>3, <2>4
<1>2. \A f, another : UpsertTaxDebt(f, r, another) = DebtLeg(DebtLeg(f, r, paye, amount, another), r, vat, other, another)
  BY DEF UpsertTaxDebt
<1>3. /\ paye \in {"PAYE", "VAT"} /\ amount = Principal(r, paye)
      /\ vat \in {"PAYE", "VAT"} /\ other = Principal(r, vat)
  BY DEF Principal
<1> HIDE DEF amount, other, paye, vat
<1>4. PICK u : u = DebtLeg(d, r, paye, amount, day)
  OBVIOUS
<1>5. IsDB(u) /\ Follows(d, u, b) /\ LegKept(u, b, r, paye, amount)
  BY <1>1, <1>3, <1>4, DebtLegSettles
<1>5a. e = DebtLeg(u, r, vat, other, day)
  BY <1>2, <1>4
<1>6. IsDB(e) /\ Follows(u, e, b) /\ LegKept(e, b, r, vat, other)
  BY <1>1, <1>3, <1>5, <1>5a, DebtLegSettles
<1>7. ASSUME NEW f, NEW another, Follows(e, f, b) PROVE UpsertTaxDebt(f, r, another) = f
  <2>1. Follows(u, f, b)
    BY <1>5, <1>6, <1>7, FollowsOn
  <2> QED
    BY <1>2, <1>5, <1>6, <1>7, <2>1 DEF LegKept
<1> QED
  BY <1>5, <1>6, <1>7, FollowsOn

\* A line of a payroll and its employee that stay as they are when the row is imported once more.
LineKept(e, b, r) == \A f : Follows(e, f, b) => UpsertPayrollLine(UpsertEmployee(f, r.name), r) = f

\* The employee is hired once, the line of the month is one.
LEMMA LinesSettle ==
    ASSUME NEW d, IsDB(d), NEW b \in Books, Exact(b), NEW i \in DOMAIN b["Payroll"], NEW r, r = b["Payroll"][i],
           NEW e, e = UpsertPayrollLine(UpsertEmployee(d, r.name), r)
    PROVE  IsDB(e) /\ Follows(d, e, b) /\ LineKept(e, b, r)
<1> DEFINE t == "lines"
           key == [date |-> r.date, name |-> r.name]
           row == [date |-> r.date, name |-> r.name, amount |-> Cents(r.amount), paye |-> Cents(r.paye)]
           employees == "employees"
           name == [name |-> r.name]
           u == Upsert(d, employees, name, name)
<1>1. r \in [name : STRING, date : Nat, amount : Int, paye : Int]
  <2>1. "Payroll" \in Sheets
    BY DEF Sheets
  <2> QED
    BY <2>1, ExactRow DEF SheetRow
<1>2. \A f : UpsertPayrollLine(UpsertEmployee(f, r.name), r) = Upsert(Upsert(f, employees, name, name), t, key, row)
  BY DEF UpsertPayrollLine, UpsertEmployee
<1>3. Cents(r.amount) \in Cent /\ Cents(r.paye) \in Cent
  BY <1>1, CentsAgain
<1>4. t \in Plain /\ KeyIs(t, key, row) /\ Wish(b, t, row)
  BY <1>1, <1>3 DEF Plain, Tables, RowsOf, TableRow, KeyIs, NaturalKey, Wish, BareRow
<1>5. employees \in Plain /\ KeyIs(employees, name, name) /\ Wish(b, employees, name)
  BY <1>1 DEF Plain, Tables, RowsOf, TableRow, KeyIs, NaturalKey, Wish, BareRow
<1> HIDE DEF t, key, row, employees, name
<1>6. IsDB(u) /\ Follows(d, u, b) /\ \A f : Follows(u, f, b) => Upsert(f, employees, name, name) = f
  BY <1>5, PlainSettles
<1>7. e = Upsert(u, t, key, row)
  BY <1>2
<1> HIDE DEF u
<1>8. IsDB(e) /\ Follows(u, e, b) /\ \A f : Follows(e, f, b) => Upsert(f, t, key, row) = f
  BY <1>4, <1>6, <1>7, PlainSettles
<1>9. ASSUME NEW f, Follows(e, f, b) PROVE Upsert(Upsert(f, employees, name, name), t, key, row) = f
  <2>1. Follows(u, f, b)
    BY <1>6, <1>8, <1>9, FollowsOn
  <2> QED
    BY <1>6, <1>8, <1>9, <2>1
<1> QED
  BY <1>2, <1>6, <1>8, <1>9, FollowsOn DEF LineKept

\* Opening a month's timesheet puts nothing of the workbook in another place.
LEMMA PeriodFollows ==
    ASSUME NEW d, IsDB(d), NEW b, NEW month \in Nat, NEW e, e = EnsureTimesheetPeriod(d, month)
    PROVE  IsDB(e) /\ Follows(d, e, b) /\ e["employees"] = d["employees"] /\ HasIn(e, "periods", [date |-> month])
<1> DEFINE t == "periods"
           key == [date |-> month]
           row == [date |-> month, status |-> "OPEN"]
<1>1. CASE Found(d, t, key) # {}
  BY <1>1, FollowsSame DEF EnsureTimesheetPeriod, HasIn
<1>2. CASE ~(Found(d, t, key) # {})
  <2>1. e = Added(d, t, row)
    BY <1>2 DEF EnsureTimesheetPeriod, Added
  <2>2. t \in Plain /\ row \in RowsOf(t) /\ \A f \in DOMAIN key : row[f] = key[f]
    BY DEF Plain, Tables, RowsOf, TableRow
  <2>3. IsDB(e) /\ Beside(d, e) /\ HasIn(e, t, key)
    <3> HIDE DEF t, key, row
    <3> QED
      BY <2>1, <2>2, AppendGoes
  <2>4. \A u \in Tables : u # t => e[u] = d[u]
    BY <2>1 DEF Added, IsDB
  <2>5. Follows(d, e, b)
    BY <2>3, <2>4 DEF Follows, Beside, Wish, ShowsAt
  <2>6. e["employees"] = d["employees"]
    BY <2>4 DEF Tables
  <2> QED
    BY <2>3, <2>5, <2>6
<1> QED
  BY <1>1, <1>2

\* A timesheet that is there is not opened again.
LEMMA PeriodAgain ==
    ASSUME NEW e, IsDB(e), NEW f, NEW b, Follows(e, f, b), NEW month, HasIn(e, "periods", [date |-> month])
    PROVE  EnsureTimesheetPeriod(f, month) = f
<1> DEFINE key == [date |-> month]
           t == "periods"
<1>1. t \in Tables /\ \A g \in DOMAIN key : g \in NaturalKey[t]
  BY DEF Tables, NaturalKey
<1>2. HasIn(f, t, key)
  <2> HIDE DEF key, t
  <2> QED
    BY <1>1, HasStays DEF Follows, t, key
<1> QED
  BY <1>2 DEF EnsureTimesheetPeriod, HasIn

\* The hours of an employee, as long as nobody is hired.
LEMMA HoursSettle ==
    ASSUME NEW d, IsDB(d), NEW b \in Books, Exact(b), NEW i \in DOMAIN b["Manhours"], NEW r, r = b["Manhours"][i],
           NEW e, e = ImportManhours(d, r)
    PROVE  /\ IsDB(e) /\ Follows(d, e, b) /\ e["employees"] = d["employees"]
           /\ \A f : Follows(e, f, b) /\ f["employees"] = e["employees"] => ImportManhours(f, r) = f
<1> DEFINE t == "entries"
           month == r.date
           open == EnsureTimesheetPeriod(d, month)
           key == [date |-> r.date, name |-> r.name]
           row == [date |-> r.date, name |-> r.name, amount |-> Cents(r.amount)]
           hired(f) == Found(f, "employees", [name |-> r.name]) # {}
<1>1. r \in [name : STRING, date : Nat, amount : Int]
  <2>1. "Manhours" \in Sheets
    BY DEF Sheets
  <2> QED
    BY <2>1, ExactRow DEF SheetRow
<1>2. \A f, g : f["employees"] = g["employees"] => hired(f) = hired(g)
  BY DEF Found
<1>3. \A f : ImportManhours(f, r) =
          IF ~hired(f) THEN f
          ELSE IF r.amount <= 0 THEN EnsureTimesheetPeriod(f, month)
          ELSE Upsert(EnsureTimesheetPeriod(f, month), t, key, row)
  BY DEF ImportManhours
<1>4. t \in Plain /\ KeyIs(t, key, row) /\ Wish(b, t, row)
  <2>1. Cents(r.amount) \in Cent
    BY <1>1, CentsAgain
  <2> QED
    BY <1>1, <2>1 DEF Plain, Tables, RowsOf, TableRow, KeyIs, NaturalKey, Wish, BareRow
<1>5. month \in Nat /\ r.amount \in Int
  BY <1>1
<1> HIDE DEF t, key, row, hired, month
<1>6. IsDB(open) /\ Follows(d, open, b) /\ open["employees"] = d["employees"] /\ HasIn(open, "periods", [date |-> month])
  BY <1>5, PeriodFollows
<1>7. CASE ~hired(d)
  BY <1>2, <1>3, <1>7, FollowsSame
<1>8. CASE hired(d) /\ r.amount <= 0
  <2>1. e = open
    BY <1>3, <1>8
  <2>2. \A f : Follows(e, f, b) => EnsureTimesheetPeriod(f, month) = f
    BY <1>6, <2>1, PeriodAgain
  <2> HIDE DEF open
  <2> QED
    BY <1>3, <1>6, <1>8, <2>1, <2>2
<1>9. CASE hired(d) /\ ~(r.amount <= 0)
  <2>1. e = Upsert(open, t, key, row)
    BY <1>3, <1>9
  <2> HIDE DEF open
  <2>2. IsDB(e) /\ Follows(open, e, b) /\ \A f : Follows(e, f, b) => Upsert(f, t, key, row) = f
    BY <1>4, <1>6, <2>1, PlainSettles
  <2>3. e["employees"] = open["employees"]
    <3>1. "employees" # t /\ "employees" \in Tables /\ DOMAIN open = Tables /\ t \in Tables
      BY <1>4, <1>6 DEF IsDB, Plain, Tables, t
    <3> QED
      BY <2>1, <3>1, UpsertLeaves
  <2>4. ASSUME NEW f, Follows(e, f, b), f["employees"] = e["employees"] PROVE ImportManhours(f, r) = f
    <3>1. Follows(open, f, b)
      BY <1>6, <2>2, <2>4, FollowsOn
    <3>2. EnsureTimesheetPeriod(f, month) = f
      BY <1>6, <3>1, PeriodAgain
    <3>3. hired(f)
      BY <1>2, <1>6, <1>9, <2>3, <2>4
    <3> QED
      BY <1>3, <1>9, <2>2, <2>4, <3>2, <3>3
  <2> QED
    BY <1>6, <2>2, <2>3, <2>4, FollowsOn
<1> QED
  BY <1>7, <1>8, <1>9

\* The run, the return of the file and the figures of the tax ledger.
LEMMA RunSettles ==
    ASSUME NEW d, IsDB(d), NEW b \in Books, Exact(b), NEW month \in Nat, NEW e, e = UpsertPayrollRun(d, month)
    PROVE  IsDB(e) /\ Follows(d, e, b) /\ \A f : Follows(e, f, b) => UpsertPayrollRun(f, month) = f
<1> DEFINE t == "runs"
           key == [date |-> month]
           row == [date |-> month, status |-> "APPROVED"]
<1>1. t \in Plain /\ KeyIs(t, key, row) /\ Wish(b, t, row) /\ row \in BareRow(t)
  BY DEF Plain, Tables, RowsOf, TableRow, KeyIs, NaturalKey, Wish, BareRow
<1>2. \A q \in RowsOf(t) : SameKey(t, q, row) => \A g \in DOMAIN row : q[g] = row[g]
  <2> SUFFICES ASSUME NEW q \in RowsOf(t), SameKey(t, q, row) PROVE q.date = row.date /\ q.status = row.status
    OBVIOUS
  <2>1. q \in [date : Nat, status : {"APPROVED"}]
    BY DEF RowsOf, TableRow
  <2>2. q.date = row.date
    BY DEF SameKey, NaturalKey
  <2> QED
    BY <2>1, <2>2
<1>3. \A f : IsDB(f) => UpsertPayrollRun(f, month) = Upsert(f, t, key, row)
  <2> SUFFICES ASSUME NEW f, IsDB(f) PROVE UpsertPayrollRun(f, month) = Upsert(f, t, key, row)
    OBVIOUS
  <2>1. UpsertPayrollRun(f, month) = IF Found(f, t, key) # {} THEN f ELSE Added(f, t, row)
    BY DEF UpsertPayrollRun, Added
  <2> HIDE DEF t, key, row
  <2>2. Put(f, t, key, row) = UpsertPayrollRun(f, month)
    BY <1>1, <1>2, <2>1, FindOrAdd
  <2> QED
    BY <1>1, <2>2 DEF Put
<1>4. \A f : Follows(e, f, b) => IsDB(f)
  BY DEF Follows, Goes
<1> HIDE DEF t, key, row
<1>5. e = Upsert(d, t, key, row)
  BY <1>3
<1>6. IsDB(e) /\ Follows(d, e, b) /\ \A f : Follows(e, f, b) => Upsert(f, t, key, row) = f
  BY <1>1, <1>5, PlainSettles
<1> QED
  BY <1>3, <1>4, <1>6

\* The return of the file: its amount is the total of the same lines.
LEMMA ReturnSettles ==
    ASSUME NEW d, IsDB(d), NEW b \in Books, Exact(b), NEW month \in Nat, NEW total \in Int, total = Total(b["Payroll"], "paye"),
           NEW e, e = PostStatutoryReturns(d, month, total)
    PROVE  IsDB(e) /\ Follows(d, e, b) /\ \A f : Follows(e, f, b) => PostStatutoryReturns(f, month, total) = f
<1> DEFINE t == "returns"
           key == [date |-> month]
           row == [date |-> month, amount |-> Cents(total), status |-> "DUE"]
<1>1. CASE total <= 0
  BY <1>1, FollowsSame DEF PostStatutoryReturns
<1>2. CASE ~(total <= 0)
  <2>1. \A f : PostStatutoryReturns(f, month, total) = Upsert(f, t, key, row)
    BY <1>2 DEF PostStatutoryReturns
  <2>2. Cents(total) \in Cent
    BY CentsAgain
  <2>3. t \in Plain /\ KeyIs(t, key, row) /\ Wish(b, t, row)
    BY <2>2 DEF Plain, Tables, RowsOf, TableRow, KeyIs, NaturalKey, Wish, BareRow
  <2> HIDE DEF t, key, row
  <2>4. e = Upsert(d, t, key, row)
    BY <2>1
  <2>5. IsDB(e) /\ Follows(d, e, b) /\ \A f : Follows(e, f, b) => Upsert(f, t, key, row) = f
    BY <2>3, <2>4, PlainSettles
  <2> QED
    BY <2>1, <2>5
<1> QED
  BY <1>1, <1>2

\* What is due of a tax: the total of the same debts.
LEMMA NetSettles ==
    ASSUME NEW d, IsDB(d), NEW b \in Books, Exact(b), NEW tax, tax \in {"PAYE", "VAT"}, NEW amount \in Int,
           amount = Total(b["OtherTaxDebt"], IF tax = "VAT" THEN "other" ELSE "amount"),
           NEW e, e = NetPayable(d, tax, amount)
    PROVE  IsDB(e) /\ Follows(d, e, b) /\ \A f : Follows(e, f, b) => NetPayable(f, tax, amount) = f
<1> DEFINE t == "taxLedger"
           net == Net(amount)
           key == [tax |-> tax]
           row == [tax |-> tax, amount |-> net]
<1>1. \A f : NetPayable(f, tax, amount) = Upsert(f, t, key, row)
  BY DEF NetPayable, Net
<1>2. net \in Cent
  <2>1. Cents(0) = 0
    BY DEF Cents
  <2> QED
    BY <2>1, CentsAgain DEF Cent, Net
<1>3. net = Net(Total(b["OtherTaxDebt"], IF tax = "VAT" THEN "other" ELSE "amount"))
  OBVIOUS
<1> HIDE DEF net
<1>4. t \in Plain /\ KeyIs(t, key, row) /\ Wish(b, t, row)
  BY <1>2, <1>3 DEF Plain, Tables, RowsOf, TableRow, KeyIs, NaturalKey, Wish, BareRow
<1> HIDE DEF t, key, row
<1>5. e = Upsert(d, t, key, row)
  BY <1>1
<1>6. IsDB(e) /\ Follows(d, e, b) /\ \A f : Follows(e, f, b) => Upsert(f, t, key, row) = f
  BY <1>4, <1>5, PlainSettles
<1> QED
  BY <1>1, <1>6

\* The row stays as it is when it is imported once more, whatever else of the
\* workbook was imported meanwhile: for the hours, unless someone was hired.
Again(f, b, s, i) == \A another : WriteRow(f, b, s, i, another) = f
RowKept(e, b, s, i) == \A f : Follows(e, f, b) /\ (s = "Manhours" => f["employees"] = e["employees"]) => Again(f, b, s, i)

\* A row of an exact workbook, written to any tables, moves no other row of the
\* workbook and is kept from then on.
LEMMA RowSettles ==
    ASSUME NEW d, IsDB(d), NEW b \in Books, Exact(b), NEW s \in Sheets, NEW i \in DOMAIN b[s], NEW day \in Nat,
           NEW e, e = WriteRow(d, b, s, i, day)
    PROVE  IsDB(e) /\ Follows(d, e, b) /\ RowKept(e, b, s, i) /\ (s = "Manhours" => e["employees"] = d["employees"])
<1> DEFINE rows == b[s]
           r == rows[i]
<1>2. CASE s = "Settings"
  <2>1. \A f, another : WriteRow(f, b, s, i, another) = UpsertSettings(f, r)
    BY <1>2 DEF WriteRow
  <2>2. i \in DOMAIN b["Settings"] /\ r = b["Settings"][i]
    BY <1>2
  <2>3. e = UpsertSettings(d, r)
    BY <2>1
  <2>4. IsDB(e) /\ Follows(d, e, b) /\ SettingsKept(e, b, r)
    <3> HIDE DEF rows, r
    <3> QED
      BY <2>2, <2>3, SettingsSettle
  <2> QED
    BY <1>2, <2>1, <2>4 DEF RowKept, Again, SettingsKept
<1>3. CASE s = "Clients"
  <2>1. \A f, another : WriteRow(f, b, s, i, another) = UpsertClients(f, r)
    BY <1>3 DEF WriteRow
  <2>2. r \in [name : STRING]
    <3>1. r \in SheetRow["Clients"]
      BY <1>3, ExactRow
    <3> QED
      BY <3>1 DEF SheetRow
  <2>3. e = UpsertClients(d, r)
    BY <2>1
  <2>4. IsDB(e) /\ Follows(d, e, b) /\ \A f : Follows(e, f, b) => UpsertClients(f, r) = f
    <3> HIDE DEF rows, r
    <3> QED
      BY <2>2, <2>3, ClientsSettle
  <2> QED
    BY <1>3, <2>1, <2>4 DEF RowKept, Again
<1>4. CASE s = "Contracts"
  <2>1. \A f, another : WriteRow(f, b, s, i, another) = AgreementPut(f, "contracts", r)
    <3>1. "Contracts" \in Sheets /\ i \in DOMAIN b["Contracts"] /\ r = b["Contracts"][i]
      BY <1>4
    <3>2. "date" \in DOMAIN r /\ "until" \in DOMAIN r
      <4>1. r \in SheetRow["Contracts"]
        BY <3>1, ExactRow
      <4> QED
        BY <4>1 DEF SheetRow
    <3>3. r.date # None /\ r.until # None
      BY <3>1, <3>2, ExactRow
    <3> QED
      BY <1>4, <3>3 DEF WriteRow, UpsertContracts, AgreementPut, AgreementRow, DateOf
  <2>2. i \in DOMAIN b["Contracts"] /\ r = b["Contracts"][i]
    BY <1>4
  <2>3. e = AgreementPut(d, "contracts", r)
    BY <2>1
  <2>4. IsDB(e) /\ Follows(d, e, b) /\ AgreementKept(e, b, "contracts", r)
    <3> HIDE DEF rows, r
    <3> QED
      BY <2>2, <2>3, AgreementSettles
  <2> QED
    BY <1>4, <2>1, <2>4 DEF RowKept, Again, AgreementKept
<1>5. CASE s = "Orders"
  <2>1. \A f, another : WriteRow(f, b, s, i, another) = UpsertOrders(f, r, another)
    BY <1>5 DEF WriteRow
  <2>2. i \in DOMAIN b["Orders"] /\ r = b["Orders"][i]
    BY <1>5
  <2>3. e = UpsertOrders(d, r, day)
    BY <2>1
  <2>4. IsDB(e) /\ Follows(d, e, b) /\ OrderKept(e, b, r)
    <3> HIDE DEF rows, r
    <3> QED
      BY <2>2, <2>3, OrdersSettle
  <2> QED
    BY <1>5, <2>1, <2>4 DEF RowKept, Again, OrderKept
<1>6. CASE s = "OrderExpenses"
  <2> DEFINE orders == Refs(b["Orders"])
  <2>1. \A f, another : WriteRow(f, b, s, i, another) = UpsertOrderExpenses(f, r, orders)
    BY <1>6 DEF WriteRow
  <2>2. i \in DOMAIN b["OrderExpenses"] /\ r = b["OrderExpenses"][i]
    BY <1>6
  <2>3. e = UpsertOrderExpenses(d, r, orders)
    BY <2>1
  <2> HIDE DEF orders
  <2>4. IsDB(e) /\ Follows(d, e, b) /\ OrderExpenseKept(e, b, r, orders)
    <3> HIDE DEF rows, r
    <3> QED
      BY <2>2, <2>3, OrderExpensesSettle
  <2> QED
    BY <1>6, <2>1, <2>4 DEF RowKept, Again, OrderExpenseKept
<1>7. CASE s = "GeneralExpenses"
  <2>1. \A f, another : WriteRow(f, b, s, i, another) = UpsertGeneralExpenses(f, r, another)
    BY <1>7 DEF WriteRow
  <2>2. i \in DOMAIN b["GeneralExpenses"] /\ r = b["GeneralExpenses"][i]
    BY <1>7
  <2>3. e = UpsertGeneralExpenses(d, r, day)
    BY <2>1
  <2>4. IsDB(e) /\ Follows(d, e, b) /\ ExpenseKept(e, b, r)
    <3> HIDE DEF rows, r
    <3> QED
      BY <2>2, <2>3, GeneralExpensesSettle
  <2> QED
    BY <1>7, <2>1, <2>4 DEF RowKept, Again, ExpenseKept
<1>8. CASE s = "Overheads"
  <2>1. \A f, another : WriteRow(f, b, s, i, another) = UpsertOverheads(f, b["Overheads"], i)
    BY <1>8 DEF WriteRow
  <2>2. i \in DOMAIN b["Overheads"] /\ r = b["Overheads"][i]
    BY <1>8
  <2>3. e = UpsertOverheads(d, b["Overheads"], i)
    BY <2>1
  <2>4. IsDB(e) /\ Follows(d, e, b) /\ \A f : Follows(e, f, b) => UpsertOverheads(f, b["Overheads"], i) = f
    <3> HIDE DEF rows, r
    <3> QED
      BY <2>2, <2>3, OverheadsSettle
  <2> QED
    BY <1>8, <2>1, <2>4 DEF RowKept, Again
<1>9. CASE s = "Loans"
  <2>1. \A f, another : WriteRow(f, b, s, i, another) = UpsertLoans(f, r, another)
    BY <1>9 DEF WriteRow
  <2>2. i \in DOMAIN b["Loans"] /\ r = b["Loans"][i]
    BY <1>9
  <2>3. e = UpsertLoans(d, r, day)
    BY <2>1
  <2>4. IsDB(e) /\ Follows(d, e, b) /\ \A f, another : Follows(e, f, b) => UpsertLoans(f, r, another) = f
    <3> HIDE DEF rows, r
    <3> QED
      BY <2>2, <2>3, LoansSettle
  <2> QED
    BY <1>9, <2>1, <2>4 DEF RowKept, Again
<1>10. CASE s = "ContractPayments"
  <2> DEFINE contracts == Refs(b["Contracts"])
  <2>1. \A f, another : WriteRow(f, b, s, i, another) = UpsertContractClaims(f, r, contracts, another)
    BY <1>10 DEF WriteRow
  <2>2. i \in DOMAIN b["ContractPayments"] /\ r = b["ContractPayments"][i]
    BY <1>10
  <2>3. e = UpsertContractClaims(d, r, contracts, day)
    BY <2>1
  <2> HIDE DEF contracts
  <2>4. IsDB(e) /\ Follows(d, e, b) /\ \A f, another : Follows(e, f, b) => UpsertContractClaims(f, r, contracts, another) = f
    <3> HIDE DEF rows, r
    <3> QED
      BY <2>2, <2>3, ClaimsSettle
  <2> QED
    BY <1>10, <2>1, <2>4 DEF RowKept, Again
<1>11. CASE s = "OtherTaxDebt"
  <2>1. \A f, another : WriteRow(f, b, s, i, another) = UpsertTaxDebt(f, r, another)
    BY <1>11 DEF WriteRow
  <2>2. i \in DOMAIN b["OtherTaxDebt"] /\ r = b["OtherTaxDebt"][i]
    BY <1>11
  <2>3. e = UpsertTaxDebt(d, r, day)
    BY <2>1
  <2>4. IsDB(e) /\ Follows(d, e, b) /\ \A f, another : Follows(e, f, b) => UpsertTaxDebt(f, r, another) = f
    <3> HIDE DEF rows, r
    <3> QED
      BY <2>2, <2>3, TaxDebtSettle
  <2> QED
    BY <1>11, <2>1, <2>4 DEF RowKept, Again
<1>12. CASE s = "Payroll"
  <2>1. \A f, another : WriteRow(f, b, s, i, another) = UpsertPayrollLine(UpsertEmployee(f, r.name), r)
    BY <1>12 DEF WriteRow
  <2>2. i \in DOMAIN b["Payroll"] /\ r = b["Payroll"][i]
    BY <1>12
  <2>3. e = UpsertPayrollLine(UpsertEmployee(d, r.name), r)
    BY <2>1
  <2>4. IsDB(e) /\ Follows(d, e, b) /\ LineKept(e, b, r)
    <3> HIDE DEF rows, r
    <3> QED
      BY <2>2, <2>3, LinesSettle
  <2> QED
    BY <1>12, <2>1, <2>4 DEF RowKept, Again, LineKept
<1>13. CASE s = "Manhours"
  <2>1. \A f, another : WriteRow(f, b, s, i, another) = ImportManhours(f, r)
    BY <1>13 DEF WriteRow
  <2>2. i \in DOMAIN b["Manhours"] /\ r = b["Manhours"][i]
    BY <1>13
  <2>3. e = ImportManhours(d, r)
    BY <2>1
  <2>4. /\ IsDB(e) /\ Follows(d, e, b) /\ e["employees"] = d["employees"]
        /\ \A f : Follows(e, f, b) /\ f["employees"] = e["employees"] => ImportManhours(f, r) = f
    <3> HIDE DEF rows, r
    <3> QED
      BY <2>2, <2>3, HoursSettle
  <2> QED
    BY <1>13, <2>1, <2>4 DEF RowKept, Again
<1> QED
  BY <1>2, <1>3, <1>4, <1>5, <1>6, <1>7, <1>8, <1>9, <1>10, <1>11, <1>12, <1>13 DEF Sheets, Cashflow

\* A row that is kept stays so when the tables follow.
LEMMA RowHolds ==
    ASSUME NEW d, IsDB(d), NEW e, NEW b, Follows(d, e, b), NEW s, NEW i, RowKept(d, b, s, i),
           s # "Manhours" \/ e["employees"] = d["employees"]
    PROVE  RowKept(e, b, s, i)
<1>1. ASSUME NEW f, Follows(e, f, b), s # "Manhours" \/ f["employees"] = e["employees"]
      PROVE Again(f, b, s, i)
  <2>1. Follows(d, f, b)
    BY <1>1, FollowsOn
  <2> QED
    BY <1>1, <2>1 DEF RowKept
<1> QED
  BY <1>1 DEF RowKept

-----------------------------------------------------------------------------
(* Once more: sheets, workbooks and steps.                                 *)

SheetKept(d, b, s) == \A i \in DOMAIN b[s] : RowKept(d, b, s, i)

\* So does a sheet, but for the hours.
LEMMA SheetHolds ==
    ASSUME NEW d, IsDB(d), NEW e, NEW b, Follows(d, e, b), NEW s, s # "Manhours", SheetKept(d, b, s)
    PROVE  SheetKept(e, b, s)
<1>1. ASSUME NEW i \in DOMAIN b[s] PROVE RowKept(e, b, s, i)
  <2>1. RowKept(d, b, s, i)
    BY <1>1 DEF SheetKept
  <2> QED
    BY <2>1, RowHolds
<1> QED
  BY <1>1 DEF SheetKept

\* A sheet whose rows are all kept writes nothing.
LEMMA SheetAgain ==
    ASSUME NEW d, IsDB(d), NEW b \in Books, NEW s \in Sheets, NEW day, SheetKept(d, b, s)
    PROVE  ImportSheet(d, b, s, day) = d
<1> DEFINE n == Len(b[s])
<1>1. n \in Nat /\ DOMAIN b[s] = 1..n /\ n = Len(b[s])
  BY BooksAssumption
<1> HIDE DEF n
<1>2. PICK g : (\A i \in 0..n : g[i] = SheetStep(g, d, b, s, day, i)) /\ ImportSheet(d, b, s, day) = g[n]
  <2>1. n \in Nat /\ n = Len(b[s])
    BY <1>1
  <2> QED
    BY <2>1, SheetUnfolds
<1> DEFINE M == {k \in Nat : k <= n => g[k] = d}
<1>3. 0 \in M
  BY <1>1, <1>2 DEF SheetStep
<1>4. \A k \in Nat : k \in M => k + 1 \in M
  <2> SUFFICES ASSUME NEW k \in Nat, k <= n => g[k] = d, k + 1 <= n PROVE g[k + 1] = d
    OBVIOUS
  <2> DEFINE i == k + 1
  <2>1. i \in 0..n /\ i \in DOMAIN b[s] /\ i # 0 /\ i - 1 = k
    BY <1>1
  <2> HIDE DEF i
  <2>2. g[i] = WriteRow(d, b, s, i, day)
    <3>1. g[k] = d
      BY <1>1 DEF i
    <3> QED
      BY <1>2, <2>1, <3>1 DEF SheetStep
  <2>3. RowKept(d, b, s, i)
    BY <2>1 DEF SheetKept
  <2>4. Follows(d, d, b)
    BY FollowsSame
  <2>5. WriteRow(d, b, s, i, day) = d
    BY <2>3, <2>4 DEF RowKept, Again
  <2> QED
    BY <2>2, <2>5 DEF i
<1>5. n \in M
  <2> HIDE DEF M
  <2> QED
    BY <1>1, <1>3, <1>4, NatSet
<1> QED
  BY <1>1, <1>2, <1>5

\* A whole sheet, by the least row that would not be kept.
LEMMA SheetSettles ==
    ASSUME NEW d, IsDB(d), NEW b \in Books, Exact(b), NEW s \in Sheets, s # "Manhours", NEW day \in Nat,
           NEW e, e = ImportSheet(d, b, s, day)
    PROVE  IsDB(e) /\ Follows(d, e, b) /\ SheetKept(e, b, s)
<1> DEFINE n == Len(b[s])
<1>1. n \in Nat /\ DOMAIN b[s] = 1..n /\ n = Len(b[s])
  BY BooksAssumption
<1> HIDE DEF n
<1>2. PICK g : (\A i \in 0..n : g[i] = SheetStep(g, d, b, s, day, i)) /\ ImportSheet(d, b, s, day) = g[n]
  <2>1. n \in Nat /\ n = Len(b[s])
    BY <1>1
  <2> QED
    BY <2>1, SheetUnfolds
<1> DEFINE Upto(k) == IsDB(g[k]) /\ Follows(d, g[k], b) /\ \A i \in 1..k : RowKept(g[k], b, s, i)
           M == {k \in Nat : k <= n => Upto(k)}
<1>3. 0 \in M
  <2>1. g[0] = d
    BY <1>1, <1>2 DEF SheetStep
  <2> QED
    BY <2>1, FollowsSame
<1>4. \A k \in Nat : k \in M => k + 1 \in M
  <2> SUFFICES ASSUME NEW k \in Nat, Upto(k), k + 1 <= n PROVE Upto(k + 1)
    BY <1>1
  <2> DEFINE i == k + 1
             f == g[k]
             h == g[i]
  <2>1. i \in 0..n /\ i \in DOMAIN b[s] /\ i # 0 /\ i - 1 = k
    BY <1>1
  <2>2. h = WriteRow(f, b, s, i, day)
    BY <1>2, <2>1 DEF SheetStep
  <2>3. IsDB(f) /\ Follows(d, f, b)
    OBVIOUS
  <2>4. \A j \in 1..k : RowKept(f, b, s, j)
    OBVIOUS
  <2> HIDE DEF f, h
  <2>5. IsDB(h) /\ Follows(f, h, b) /\ RowKept(h, b, s, i)
    <3> HIDE DEF i
    <3> QED
      BY <2>1, <2>2, <2>3, RowSettles
  <2>6. Follows(d, h, b)
    BY <2>3, <2>5, FollowsOn
  <2>7. \A j \in 1..k : RowKept(h, b, s, j)
    <3> TAKE j \in 1..k
    <3>1. RowKept(f, b, s, j)
      BY <2>4
    <3> QED
      BY <2>3, <2>5, <3>1, RowHolds
  <2>8. \A j \in 1..i : j \in 1..k \/ j = i
    OBVIOUS
  <2> QED
    BY <2>5, <2>6, <2>7, <2>8 DEF h
<1>5. n \in M
  <2> HIDE DEF M
  <2> QED
    BY <1>1, <1>3, <1>4, NatSet
<1> QED
  BY <1>1, <1>2, <1>5 DEF SheetKept

\* The figures of the tax ledger stay as they are.
LedgerKept(d, b) == \A f : Follows(d, f, b) => ConsolidateOperationalTax(f, b["OtherTaxDebt"]) = f

\* They are totals of the sheet of debts.
LEMMA LedgerSettles ==
    ASSUME NEW d, IsDB(d), NEW b \in Books, Exact(b), NEW e, e = ConsolidateOperationalTax(d, b["OtherTaxDebt"])
    PROVE  IsDB(e) /\ Follows(d, e, b) /\ LedgerKept(e, b)
<1> DEFINE rows == b["OtherTaxDebt"]
           n == Len(rows)
           vat == Total(rows, "other")
           paye == Total(rows, "amount")
           VAT == "VAT"
           PAYE == "PAYE"
           u == NetPayable(d, VAT, vat)
<1>1. \A f : ConsolidateOperationalTax(f, b["OtherTaxDebt"]) = NetPayable(NetPayable(f, VAT, vat), PAYE, paye)
  BY DEF ConsolidateOperationalTax
<1>2. n \in Nat /\ \A i \in 1..n : rows[i]["other"] \in Int /\ rows[i]["amount"] \in Int
  <2>1. "OtherTaxDebt" \in Sheets
    BY DEF Sheets, Cashflow
  <2>2. rows \in Seq(SheetRow["OtherTaxDebt"])
    BY <2>1, BooksAssumption
  <2>3. n \in Nat /\ \A i \in 1..n : rows[i] \in SheetRow["OtherTaxDebt"]
    BY <2>2
  <2>4. SheetRow["OtherTaxDebt"] = [amount : Int, other : Int, paid : Int, date : Nat \cup {None}]
    BY DEF SheetRow
  <2> QED
    BY <2>3, <2>4
<1>3. /\ vat \in Int /\ vat = Total(b["OtherTaxDebt"], IF VAT = "VAT" THEN "other" ELSE "amount")
      /\ paye \in Int /\ paye = Total(b["OtherTaxDebt"], IF PAYE = "VAT" THEN "other" ELSE "amount")
      /\ VAT \in {"PAYE", "VAT"} /\ PAYE \in {"PAYE", "VAT"}
  <2>1. vat \in Int /\ paye \in Int
    <3> HIDE DEF rows
    <3> QED
      BY <1>2, TotalIsInt
  <2> QED
    BY <2>1
<1> HIDE DEF vat, paye, VAT, PAYE
<1>4. IsDB(u) /\ Follows(d, u, b) /\ \A f : Follows(u, f, b) => NetPayable(f, VAT, vat) = f
  BY <1>3, NetSettles
<1>5. e = NetPayable(u, PAYE, paye)
  BY <1>1
<1> HIDE DEF u
<1>6. IsDB(e) /\ Follows(u, e, b) /\ \A f : Follows(e, f, b) => NetPayable(f, PAYE, paye) = f
  BY <1>3, <1>4, <1>5, NetSettles
<1>7. ASSUME NEW f, Follows(e, f, b) PROVE NetPayable(NetPayable(f, VAT, vat), PAYE, paye) = f
  <2>1. Follows(u, f, b)
    BY <1>4, <1>6, <1>7, FollowsOn
  <2> QED
    BY <1>4, <1>6, <1>7, <2>1
<1> QED
  BY <1>1, <1>4, <1>6, <1>7, FollowsOn DEF LedgerKept

\* The cashflow workbook changes nothing when it is imported again.
CashflowKept(d, b) == (\A s \in Cashflow : SheetKept(d, b, s)) /\ LedgerKept(d, b)

\* A cashflow workbook that is kept stays so when the tables follow.
LEMMA CashflowHolds ==
    ASSUME NEW d, IsDB(d), NEW e, NEW b, Follows(d, e, b), CashflowKept(d, b)
    PROVE  CashflowKept(e, b)
<1>1. \A s \in Cashflow : SheetKept(e, b, s)
  <2> TAKE s \in Cashflow
  <2>1. s # "Manhours" /\ SheetKept(d, b, s)
    BY DEF Cashflow, CashflowKept
  <2> QED
    BY <2>1, SheetHolds
<1>2. ASSUME NEW f, Follows(e, f, b) PROVE Follows(d, f, b)
  BY <1>2, FollowsOn
<1>3. LedgerKept(e, b)
  BY <1>2 DEF CashflowKept, LedgerKept
<1> QED
  BY <1>1, <1>3 DEF CashflowKept

\* A cashflow workbook that is kept is imported again to no effect.
LEMMA CashflowAgain ==
    ASSUME NEW d, IsDB(d), NEW b \in Books, NEW day, CashflowKept(d, b)
    PROVE  ImportCashflow(d, b, day) = d
<1> DEFINE settings == ImportSheet(d, b, "Settings", day)
           clients == ImportSheet(settings, b, "Clients", day)
           contracts == ImportSheet(clients, b, "Contracts", day)
           orders == ImportSheet(contracts, b, "Orders", day)
           orderExpenses == ImportSheet(orders, b, "OrderExpenses", day)
           expenses == ImportSheet(orderExpenses, b, "GeneralExpenses", day)
           overheads == ImportSheet(expenses, b, "Overheads", day)
           loans == ImportSheet(overheads, b, "Loans", day)
           claims == ImportSheet(loans, b, "ContractPayments", day)
           debts == ImportSheet(claims, b, "OtherTaxDebt", day)
<1>1. ImportCashflow(d, b, day) = ConsolidateOperationalTax(debts, b["OtherTaxDebt"])
  BY DEF ImportCashflow
<1>2. \A s \in Cashflow : s \in Sheets /\ s # "Manhours"
  BY DEF Sheets, Cashflow
<1>3. \A s \in Cashflow : ImportSheet(d, b, s, day) = d
  <2> TAKE s \in Cashflow
  <2>1. s \in Sheets /\ SheetKept(d, b, s)
    BY <1>2 DEF CashflowKept
  <2> QED
    BY <2>1, SheetAgain
<1>4. settings = d
  BY <1>3 DEF Cashflow
<1> HIDE DEF settings
<1>5. clients = d
  BY <1>3, <1>4 DEF Cashflow
<1> HIDE DEF clients
<1>6. contracts = d
  BY <1>3, <1>5 DEF Cashflow
<1> HIDE DEF contracts
<1>7. orders = d
  BY <1>3, <1>6 DEF Cashflow
<1> HIDE DEF orders
<1>8. orderExpenses = d
  BY <1>3, <1>7 DEF Cashflow
<1> HIDE DEF orderExpenses
<1>9. expenses = d
  BY <1>3, <1>8 DEF Cashflow
<1> HIDE DEF expenses
<1>10. overheads = d
  BY <1>3, <1>9 DEF Cashflow
<1> HIDE DEF overheads
<1>11. loans = d
  BY <1>3, <1>10 DEF Cashflow
<1> HIDE DEF loans
<1>12. claims = d
  BY <1>3, <1>11 DEF Cashflow
<1> HIDE DEF claims
<1>13. debts = d
  BY <1>3, <1>12 DEF Cashflow
<1> HIDE DEF debts
<1>14. Follows(d, d, b)
  BY FollowsSame
<1> QED
  BY <1>1, <1>13, <1>14 DEF CashflowKept, LedgerKept

\* A cashflow workbook of exact rows, imported into any tables, is kept.
LEMMA CashflowSettles ==
    ASSUME NEW d, IsDB(d), NEW b \in Books, Exact(b), NEW day \in Nat, NEW e, e = ImportCashflow(d, b, day)
    PROVE  IsDB(e) /\ Follows(d, e, b) /\ CashflowKept(e, b)
<1> DEFINE settings == ImportSheet(d, b, "Settings", day)
           clients == ImportSheet(settings, b, "Clients", day)
           contracts == ImportSheet(clients, b, "Contracts", day)
           orders == ImportSheet(contracts, b, "Orders", day)
           orderExpenses == ImportSheet(orders, b, "OrderExpenses", day)
           expenses == ImportSheet(orderExpenses, b, "GeneralExpenses", day)
           overheads == ImportSheet(expenses, b, "Overheads", day)
           loans == ImportSheet(overheads, b, "Loans", day)
           claims == ImportSheet(loans, b, "ContractPayments", day)
           debts == ImportSheet(claims, b, "OtherTaxDebt", day)
<1>1. e = ConsolidateOperationalTax(debts, b["OtherTaxDebt"])
  BY DEF ImportCashflow
<1>2. {"Settings", "Clients", "Contracts", "Orders", "OrderExpenses",
       "GeneralExpenses", "Overheads", "Loans", "ContractPayments", "OtherTaxDebt"} \subseteq Sheets
  BY DEF Sheets, Cashflow
<1>3. IsDB(settings) /\ Follows(d, settings, b) /\ SheetKept(settings, b, "Settings")
  BY <1>2, SheetSettles
<1> HIDE DEF settings
<1>4. IsDB(clients) /\ Follows(settings, clients, b) /\ SheetKept(clients, b, "Clients")
  BY <1>2, <1>3, SheetSettles
<1> HIDE DEF clients
<1>5. IsDB(contracts) /\ Follows(clients, contracts, b) /\ SheetKept(contracts, b, "Contracts")
  BY <1>2, <1>4, SheetSettles
<1> HIDE DEF contracts
<1>6. IsDB(orders) /\ Follows(contracts, orders, b) /\ SheetKept(orders, b, "Orders")
  BY <1>2, <1>5, SheetSettles
<1> HIDE DEF orders
<1>7. IsDB(orderExpenses) /\ Follows(orders, orderExpenses, b) /\ SheetKept(orderExpenses, b, "OrderExpenses")
  BY <1>2, <1>6, SheetSettles
<1> HIDE DEF orderExpenses
<1>8. IsDB(expenses) /\ Follows(orderExpenses, expenses, b) /\ SheetKept(expenses, b, "GeneralExpenses")
  BY <1>2, <1>7, SheetSettles
<1> HIDE DEF expenses
<1>9. IsDB(overheads) /\ Follows(expenses, overheads, b) /\ SheetKept(overheads, b, "Overheads")
  BY <1>2, <1>8, SheetSettles
<1> HIDE DEF overheads
<1>10. IsDB(loans) /\ Follows(overheads, loans, b) /\ SheetKept(loans, b, "Loans")
  BY <1>2, <1>9, SheetSettles
<1> HIDE DEF loans
<1>11. IsDB(claims) /\ Follows(loans, claims, b) /\ SheetKept(claims, b, "ContractPayments")
  BY <1>2, <1>10, SheetSettles
<1> HIDE DEF claims
<1>12. IsDB(debts) /\ Follows(claims, debts, b) /\ SheetKept(debts, b, "OtherTaxDebt")
  BY <1>2, <1>11, SheetSettles
<1> HIDE DEF debts
<1>13. IsDB(e) /\ Follows(debts, e, b) /\ LedgerKept(e, b)
  BY <1>1, <1>12, LedgerSettles
<1>14. Follows(claims, e, b)
  BY <1>11, <1>12, <1>13, FollowsOn
<1>15. Follows(loans, e, b)
  BY <1>10, <1>11, <1>14, FollowsOn
<1>16. Follows(overheads, e, b)
  BY <1>9, <1>10, <1>15, FollowsOn
<1>17. Follows(expenses, e, b)
  BY <1>8, <1>9, <1>16, FollowsOn
<1>18. Follows(orderExpenses, e, b)
  BY <1>7, <1>8, <1>17, FollowsOn
<1>19. Follows(orders, e, b)
  BY <1>6, <1>7, <1>18, FollowsOn
<1>20. Follows(contracts, e, b)
  BY <1>5, <1>6, <1>19, FollowsOn
<1>21. Follows(clients, e, b)
  BY <1>4, <1>5, <1>20, FollowsOn
<1>22. Follows(settings, e, b)
  BY <1>3, <1>4, <1>21, FollowsOn
<1>23. Follows(d, e, b)
  BY <1>3, <1>22, FollowsOn
<1>24. SheetKept(e, b, "Settings")
  BY <1>3, <1>22, SheetHolds
<1>25. SheetKept(e, b, "Clients")
  BY <1>4, <1>21, SheetHolds
<1>26. SheetKept(e, b, "Contracts")
  BY <1>5, <1>20, SheetHolds
<1>27. SheetKept(e, b, "Orders")
  BY <1>6, <1>19, SheetHolds
<1>28. SheetKept(e, b, "OrderExpenses")
  BY <1>7, <1>18, SheetHolds
<1>29. SheetKept(e, b, "GeneralExpenses")
  BY <1>8, <1>17, SheetHolds
<1>30. SheetKept(e, b, "Overheads")
  BY <1>9, <1>16, SheetHolds
<1>31. SheetKept(e, b, "Loans")
  BY <1>10, <1>15, SheetHolds
<1>32. SheetKept(e, b, "ContractPayments")
  BY <1>11, <1>14, SheetHolds
<1>33. SheetKept(e, b, "OtherTaxDebt")
  BY <1>12, <1>13, SheetHolds
<1> QED
  BY <1>13, <1>23, <1>24, <1>25, <1>26, <1>27, <1>28, <1>29, <1>30, <1>31, <1>32, <1>33 DEF Cashflow, CashflowKept

\* The payroll file changes nothing when it is imported again.
PayrollAgain(f, b) == \A another : ImportOnePayroll(f, b, another) = f
PayrollKept(d, b) == \A f : IsDB(f) /\ Follows(d, f, b) => PayrollAgain(f, b)

\* It stays so when the tables follow.
LEMMA PayrollHolds ==
    ASSUME NEW d, IsDB(d), NEW e, NEW b, Follows(d, e, b), PayrollKept(d, b)
    PROVE  PayrollKept(e, b)
<1>1. ASSUME NEW f, Follows(e, f, b) PROVE Follows(d, f, b)
  BY <1>1, FollowsOn
<1> QED
  BY <1>1 DEF PayrollKept

\* A payroll file of exact rows, imported into any tables, is kept.
LEMMA PayrollSettles ==
    ASSUME NEW d, IsDB(d), NEW b \in Books, Exact(b), NEW day \in Nat, NEW e, e = ImportOnePayroll(d, b, day)
    PROVE  IsDB(e) /\ Follows(d, e, b) /\ PayrollKept(e, b)
<1> DEFINE rows == b["Payroll"]
           n == Len(rows)
           month == rows[1].date
           total == Total(rows, "paye")
           payroll == "Payroll"
<1>1. payroll \in Sheets /\ payroll # "Manhours"
  BY DEF Sheets
<1>2. rows \in Seq(SheetRow["Payroll"])
  BY <1>1, BooksAssumption
<1>3. CASE rows = <<>>
  <2>1. \A f, another : ImportOnePayroll(f, b, another) = f
    BY <1>3 DEF ImportOnePayroll
  <2>2. e = d
    BY <2>1
  <2> QED
    BY <2>1, <2>2, FollowsSame DEF PayrollKept, PayrollAgain
<1>4. CASE rows # <<>>
  <2> DEFINE run == UpsertPayrollRun(d, month)
             lines == ImportSheet(run, b, payroll, day)
  <2>1. \A f, another : ImportOnePayroll(f, b, another) =
            PostStatutoryReturns(ImportSheet(UpsertPayrollRun(f, month), b, payroll, another), month, total)
    BY <1>4 DEF ImportOnePayroll
  <2>2. SheetRow["Payroll"] = [name : STRING, date : Nat, amount : Int, paye : Int]
    BY DEF SheetRow
  <2>3. n \in Nat /\ \A i \in 1..n : rows[i] \in SheetRow["Payroll"]
    BY <1>2
  <2>4. month \in Nat /\ \A i \in 1..n : rows[i]["paye"] \in Int
    <3>1. 1 \in 1..n
      BY <1>2, <1>4
    <3> HIDE DEF n, rows
    <3> QED
      BY <2>2, <2>3, <3>1
  <2>5. total \in Int /\ total = Total(b["Payroll"], "paye")
    <3>1. total \in Int
      <4> HIDE DEF rows
      <4> QED
        BY <2>3, <2>4, TotalIsInt
    <3> QED
      BY <3>1
  <2> HIDE DEF month, total, payroll
  <2>6. IsDB(run) /\ Follows(d, run, b) /\ \A f : Follows(run, f, b) => UpsertPayrollRun(f, month) = f
    BY <2>4, RunSettles
  <2>7. e = PostStatutoryReturns(lines, month, total)
    BY <2>1
  <2> HIDE DEF run
  <2>8. IsDB(lines) /\ Follows(run, lines, b) /\ SheetKept(lines, b, payroll)
    BY <1>1, <2>6, SheetSettles
  <2> HIDE DEF lines
  <2>9. IsDB(e) /\ Follows(lines, e, b) /\ \A f : Follows(e, f, b) => PostStatutoryReturns(f, month, total) = f
    BY <2>4, <2>5, <2>7, <2>8, ReturnSettles
  <2>10. ASSUME NEW f, IsDB(f), Follows(e, f, b), NEW another PROVE ImportOnePayroll(f, b, another) = f
    <3>1. Follows(lines, f, b)
      BY <2>8, <2>9, <2>10, FollowsOn
    <3>2. Follows(run, f, b)
      BY <2>6, <2>8, <3>1, FollowsOn
    <3>3. UpsertPayrollRun(f, month) = f
      BY <2>6, <3>2
    <3>4. SheetKept(f, b, payroll)
      BY <1>1, <2>8, <3>1, SheetHolds
    <3>5. ImportSheet(f, b, payroll, another) = f
      BY <1>1, <2>10, <3>4, SheetAgain
    <3>6. PostStatutoryReturns(f, month, total) = f
      BY <2>9, <2>10
    <3> QED
      BY <2>1, <3>3, <3>5, <3>6
  <2>11. PayrollKept(e, b)
    BY <2>10 DEF PayrollKept, PayrollAgain
  <2>12. Follows(run, e, b)
    BY <2>6, <2>8, <2>9, FollowsOn
  <2>13. Follows(d, e, b)
    BY <2>6, <2>12, FollowsOn
  <2> QED
    BY <2>9, <2>11, <2>13
<1> QED
  BY <1>3, <1>4

\* Importing is repeatable: whatever the tables held before, a cashflow workbook or a
\* payroll file of exact rows that was imported changes no table when it is
\* imported again, on that day or another.
THEOREM ImportedTwice ==
    ASSUME NEW d, IsDB(d), NEW b \in Books, Exact(b), NEW day \in Nat, NEW another \in Nat
    PROVE  /\ ImportCashflow(ImportCashflow(d, b, day), b, another) = ImportCashflow(d, b, day)
           /\ ImportOnePayroll(ImportOnePayroll(d, b, day), b, another) = ImportOnePayroll(d, b, day)
<1>1. ASSUME NEW e, e = ImportCashflow(d, b, day) PROVE ImportCashflow(e, b, another) = e
  <2>1. IsDB(e) /\ CashflowKept(e, b)
    BY <1>1, CashflowSettles
  <2> QED
    BY <2>1, CashflowAgain
<1>2. ASSUME NEW e, e = ImportOnePayroll(d, b, day) PROVE ImportOnePayroll(e, b, another) = e
  <2>1. IsDB(e) /\ PayrollKept(e, b)
    BY <1>2, PayrollSettles
  <2>2. Follows(e, e, b)
    BY <2>1, FollowsSame
  <2> QED
    BY <2>1, <2>2 DEF PayrollKept, PayrollAgain
<1> QED
  BY <1>1, <1>2

AllKept(d, b) == CashflowKept(d, b) /\ PayrollKept(d, b) /\ SheetKept(d, b, "Manhours")

\* As much of the workbook as a call has written, the payroll unless it was
\* left out.
SoFar(d, b, c, has) ==
    /\ c.at \in {"payroll", "manhours"} => CashflowKept(d, b)
    /\ c.at = "manhours" /\ has # "partly" =>
         PayrollKept(d, b) /\ \A i \in DOMAIN b["Manhours"] : i < c.saw.next => RowKept(d, b, "Manhours", i)

\* The importer, when it imports a workbook of exact rows again: one import at a
\* time, and what it has written stays as it is when it is written again.
RepeatInv ==
    /\ \A v, w \in Workers : call[v].at \in Importing /\ call[w].at \in Importing => v = w
    /\ \A w \in Workers : call[w].at = "manhours" => call[w].saw.next \in Nat \ {0}
    /\ Exact(book) /\ imported # "no" =>
         (\A w \in Workers : SoFar(db, book, call[w], imported)) /\ (imported = "yes" => AllKept(db, book))

\* Before the import nothing needs to be kept.
LEMMA RepeatStarts == HandlersInit /\ ImportInit => RepeatInv
<1> SUFFICES ASSUME HandlersInit, ImportInit PROVE RepeatInv
  OBVIOUS
<1>1. imported = "no" /\ \A w \in Workers : call[w].at = "none"
  BY DEF HandlersInit, RequestsInit, ImportInit, NoCall
<1> QED
  BY <1>1 DEF RepeatInv, Importing

\* What is kept of all three files is imported again to no effect.
LEMMA AllAgain ==
    ASSUME NEW d, IsDB(d), NEW b \in Books, NEW day, AllKept(d, b)
    PROVE  /\ ImportCashflow(d, b, day) = d /\ ImportOnePayroll(d, b, day) = d
           /\ \A i \in DOMAIN b["Manhours"] : WriteRow(d, b, "Manhours", i, day) = d
<1>1. Follows(d, d, b)
  BY FollowsSame
<1>2. ImportCashflow(d, b, day) = d
  BY CashflowAgain DEF AllKept
<1>3. ImportOnePayroll(d, b, day) = d
  BY <1>1 DEF AllKept, PayrollKept, PayrollAgain
<1>4. ASSUME NEW i \in DOMAIN b["Manhours"] PROVE WriteRow(d, b, "Manhours", i, day) = d
  <2>1. RowKept(d, b, "Manhours", i)
    BY <1>4 DEF AllKept, SheetKept
  <2> QED
    BY <1>1, <2>1 DEF RowKept, Again
<1> QED
  BY <1>2, <1>3, <1>4

\* A step of the one call that imports.
LEMMA RepeatStep ==
    ASSUME DOMAIN call = Workers, NEW w \in Workers, NEW c, call' = [call EXCEPT ![w] = c],
           \A v \in Workers \ {w} : call[v].at \notin Importing,
           c.at # "manhours" \/ c.saw.next \in Nat \ {0},
           book' = book,
           Exact(book) /\ imported' # "no" => SoFar(db', book, c, imported') /\ (imported' = "yes" => AllKept(db', book))
    PROVE  RepeatInv'
<1>1. call'[w] = c /\ \A v \in Workers \ {w} : call'[v].at \notin Importing
  OBVIOUS
<1>2. \A v \in Workers \ {w} : call'[v].at \notin {"payroll", "manhours"}
  BY <1>1 DEF Importing
<1>3. \A v \in Workers \ {w} : SoFar(db', book, call'[v], imported')
  BY <1>2 DEF SoFar
<1>4. Exact(book') /\ imported' # "no" =>
         (\A v \in Workers : SoFar(db', book', call'[v], imported')) /\ (imported' = "yes" => AllKept(db', book'))
  BY <1>1, <1>3
<1>5. \A v \in Workers : call'[v].at = "manhours" => call'[v].saw.next \in Nat \ {0}
  BY <1>1, <1>2
<1>6. \A u, v \in Workers : call'[u].at \in Importing /\ call'[v].at \in Importing => u = v
  BY <1>1
<1> QED
  BY <1>4, <1>5, <1>6 DEF RepeatInv

\* Every step of the importer keeps the invariant, and once all is imported no
\* step of an exact workbook's import changes a table.
LEMMA RepeatGoesOn == ASSUME ImportInv, RepeatInv, ImportNext PROVE RepeatInv' /\ ImportRepeats
<1>1. DOMAIN call = Workers /\ book \in Books /\ today \in Nat /\ IsDB(db)
  BY ImportAssumption DEF ImportInv
<1>2. ASSUME NEW w \in Workers, call[w].at \in Importing PROVE \A v \in Workers \ {w} : call[v].at \notin Importing
  BY <1>2 DEF RepeatInv
<1>3. ASSUME NEW w \in Workers, RunImport(w) PROVE RepeatInv' /\ ImportRepeats
  <2> DEFINE c == [at |-> "cashflow", saw |-> None]
  <2>1. /\ call' = [call EXCEPT ![w] = c]
        /\ \A v \in Workers : call[v].at \notin Importing
        /\ imported' = (IF imported = "yes" THEN "yes" ELSE "began")
        /\ UNCHANGED <<book, today, db, corrected>>
    BY <1>3 DEF RunImport, Begin, Go, NoImport
  <2>2. c.at # "manhours" /\ SoFar(db', book, c, imported')
    BY DEF SoFar
  <2> HIDE DEF c
  <2>3. Exact(book) /\ imported' = "yes" => AllKept(db', book)
    BY <2>1 DEF RepeatInv
  <2>4. RepeatInv'
    BY <1>1, <2>1, <2>2, <2>3, RepeatStep
  <2> QED
    BY <2>1, <2>4 DEF ImportRepeats
<1>4. ASSUME NEW w \in Workers, CashflowTx(w) PROVE RepeatInv' /\ ImportRepeats
  <2> DEFINE c == [at |-> "payroll", saw |-> None]
  <2>1. /\ call[w].at \in Importing /\ call' = [call EXCEPT ![w] = c]
        /\ db' = ImportCashflow(db, book, today) /\ UNCHANGED <<book, today, imported, corrected>>
    BY <1>4 DEF CashflowTx, Step, Go, In, Importing
  <2>2. c.at = "payroll"
    OBVIOUS
  <2> HIDE DEF c
  <2>3. Exact(book) => SoFar(db', book, c, imported')
    BY <1>1, <2>1, <2>2, CashflowSettles DEF SoFar
  <2>4. Exact(book) /\ imported = "yes" => db' = db /\ AllKept(db, book)
    <3>1. Exact(book) /\ imported = "yes" => AllKept(db, book)
      BY DEF RepeatInv
    <3> QED
      BY <1>1, <2>1, <3>1, AllAgain
  <2>5. RepeatInv'
    BY <1>1, <1>2, <2>1, <2>2, <2>3, <2>4, RepeatStep
  <2> QED
    BY <2>1, <2>4, <2>5 DEF ImportRepeats
<1>5. ASSUME NEW w \in Workers, PayrollTx(w) PROVE RepeatInv' /\ ImportRepeats
  <2> DEFINE c == [at |-> "manhours", saw |-> [next |-> 1]]
  <2>1. /\ call[w].at = "payroll" /\ call' = [call EXCEPT ![w] = c]
        /\ db' = ImportOnePayroll(db, book, today) /\ UNCHANGED <<book, today, imported, corrected>>
    BY <1>5 DEF PayrollTx, Step, Go, In
  <2>2. c.at = "manhours" /\ c.saw.next = 1 /\ c.saw.next \in Nat \ {0}
    OBVIOUS
  <2> HIDE DEF c
  <2>3. ASSUME Exact(book), imported # "no" PROVE SoFar(db', book, c, imported')
    <3>1. Follows(db, db', book) /\ PayrollKept(db', book)
      BY <1>1, <2>1, <2>3, PayrollSettles
    <3>2. CashflowKept(db, book)
      BY <2>1, <2>3 DEF RepeatInv, SoFar
    <3>3. CashflowKept(db', book)
      BY <1>1, <3>1, <3>2, CashflowHolds
    <3>4. \A i \in DOMAIN book["Manhours"] : ~(i < 1)
      <4>1. book["Manhours"] \in Seq(SheetRow["Manhours"])
        BY <1>1, BooksAssumption DEF Sheets
      <4> QED
        BY <4>1
    <3> QED
      BY <2>2, <3>1, <3>3, <3>4 DEF SoFar
  <2>4. Exact(book) /\ imported = "yes" => db' = db /\ AllKept(db, book)
    <3>1. Exact(book) /\ imported = "yes" => AllKept(db, book)
      BY DEF RepeatInv
    <3> QED
      BY <1>1, <2>1, <3>1, AllAgain
  <2>5. \A v \in Workers \ {w} : call[v].at \notin Importing
    BY <1>2, <2>1 DEF Importing
  <2>6. RepeatInv'
    BY <1>1, <2>1, <2>2, <2>3, <2>4, <2>5, RepeatStep
  <2> QED
    BY <2>1, <2>4, <2>6 DEF ImportRepeats
<1>6. ASSUME NEW w \in Workers, ManhoursRow(w) PROVE RepeatInv' /\ ImportRepeats
  <2>1. call[w].at = "manhours" /\ call[w].at \in Importing
    BY <1>6 DEF ManhoursRow, In, Importing
  <2>2. \A v \in Workers \ {w} : call[v].at \notin Importing
    BY <1>2, <2>1
  <2>3. call[w].saw.next \in Nat \ {0}
    BY <2>1 DEF RepeatInv
  <2>4. Exact(book) /\ imported = "yes" => AllKept(db, book)
    BY DEF RepeatInv
  <2>5. ASSUME Exact(book), imported # "no"
        PROVE  /\ CashflowKept(db, book)
               /\ imported # "partly" =>
                    /\ PayrollKept(db, book)
                    /\ \A i \in DOMAIN book["Manhours"] : i < call[w].saw.next => RowKept(db, book, "Manhours", i)
    BY <2>1, <2>5 DEF RepeatInv, SoFar
  <2>6. CASE call[w].saw.next \in DOMAIN book["Manhours"]
    <3> DEFINE k == call[w].saw.next
               c == [at |-> "manhours", saw |-> [next |-> k + 1]]
    <3>1. /\ call' = [call EXCEPT ![w] = c]
          /\ db' = WriteRow(db, book, "Manhours", k, today) /\ UNCHANGED <<book, today, imported, corrected>>
      BY <1>6, <2>6 DEF ManhoursRow, Step, Go
    <3>2. c.at = "manhours" /\ c.saw.next = k + 1 /\ c.saw.next \in Nat \ {0}
      BY <2>3
    <3>3. k \in DOMAIN book["Manhours"] /\ k \in Nat
      BY <2>3, <2>6
    <3>4. Exact(book) /\ imported = "yes" => db' = db
      BY <1>1, <2>4, <3>1, <3>3, AllAgain
    <3>5. ASSUME Exact(book), imported # "no" PROVE SoFar(db', book, c, imported')
      <4>1. imported # "partly" => \A i \in DOMAIN book["Manhours"] : i < k => RowKept(db, book, "Manhours", i)
        BY <2>5, <3>5
      <4>2. CashflowKept(db, book) /\ (imported # "partly" => PayrollKept(db, book))
        BY <2>5, <3>5
      <4> HIDE DEF c, k
      <4>3. /\ Follows(db, db', book) /\ RowKept(db', book, "Manhours", k) /\ db'["employees"] = db["employees"]
        <5> DEFINE s == "Manhours"
        <5>1. s \in Sheets /\ k \in DOMAIN book[s] /\ db' = WriteRow(db, book, s, k, today)
          BY <3>1, <3>3 DEF Sheets
        <5>2. Follows(db, db', book) /\ RowKept(db', book, s, k) /\ (s = "Manhours" => db'["employees"] = db["employees"])
          <6> HIDE DEF s
          <6> QED
            BY <1>1, <3>5, <5>1, RowSettles
        <5> QED
          BY <5>2
      <4>4. ASSUME imported # "partly", NEW i \in DOMAIN book["Manhours"], i < k + 1 PROVE RowKept(db', book, "Manhours", i)
        <5>1. CASE i = k
          BY <4>3, <5>1
        <5>2. CASE i < k
          BY <1>1, <4>1, <4>3, <4>4, <5>2, RowHolds
        <5>3. i \in Nat
          <6>1. book["Manhours"] \in Seq(SheetRow["Manhours"])
            BY <1>1, BooksAssumption DEF Sheets
          <6> QED
            BY <6>1
        <5> QED
          BY <3>3, <4>4, <5>1, <5>2, <5>3
      <4>5. CashflowKept(db', book) /\ (imported # "partly" => PayrollKept(db', book))
        BY <1>1, <4>2, <4>3, CashflowHolds, PayrollHolds
      <4> QED
        BY <3>1, <3>2, <4>4, <4>5 DEF SoFar
    <3> HIDE DEF c, k
    <3>6. RepeatInv'
      BY <1>1, <2>2, <2>4, <3>1, <3>2, <3>4, <3>5, RepeatStep
    <3> QED
      BY <3>1, <3>4, <3>6 DEF ImportRepeats
  <2>7. CASE call[w].saw.next \notin DOMAIN book["Manhours"]
    <3>1. /\ call' = [call EXCEPT ![w] = NoCall]
          /\ imported' = (IF imported = "began" THEN "yes" ELSE imported) /\ UNCHANGED <<book, today, db, corrected>>
      BY <1>6, <2>7 DEF ManhoursRow, Done, Leave
    <3>2. SoFar(db', book, NoCall, imported') /\ NoCall.at # "manhours"
      BY DEF SoFar, NoCall
    <3>3. ASSUME Exact(book), imported' = "yes" PROVE AllKept(db, book)
      <4>1. \A i \in DOMAIN book["Manhours"] : i < call[w].saw.next
        <5>1. book["Manhours"] \in Seq(SheetRow["Manhours"])
          BY <1>1, BooksAssumption DEF Sheets
        <5> QED
          BY <2>3, <2>7, <5>1
      <4>2. CASE imported = "yes"
        BY <2>4, <3>3, <4>2
      <4>3. CASE imported = "began"
        BY <2>5, <3>3, <4>1, <4>3 DEF AllKept, SheetKept
      <4> QED
        BY <3>1, <3>3, <4>2, <4>3
    <3>4. RepeatInv'
      BY <1>1, <2>2, <3>1, <3>2, <3>3, RepeatStep
    <3> QED
      BY <3>1, <3>4 DEF ImportRepeats
  <2> QED
    BY <2>6, <2>7
<1>6a. ASSUME NEW w \in Workers, PayrollSkipped(w) PROVE RepeatInv' /\ ImportRepeats
  <2> DEFINE c == [at |-> "manhours", saw |-> [next |-> 1]]
  <2>1. /\ call[w].at = "payroll" /\ call' = [call EXCEPT ![w] = c]
        /\ imported' = LeftOut(imported) /\ UNCHANGED <<book, today, db, corrected>>
    BY <1>6a DEF PayrollSkipped, Step, Go, In
  <2>2. c.at = "manhours" /\ c.saw.next = 1 /\ c.saw.next \in Nat \ {0}
    OBVIOUS
  <2> HIDE DEF c
  <2>3. /\ imported' \in {"no", "partly", "yes"} /\ (imported' = "yes" => imported = "yes")
        /\ imported' # "no" => imported # "no"
    BY <2>1 DEF ImportInv, LeftOut
  <2>4. Exact(book) /\ imported' = "yes" => AllKept(db', book)
    BY <2>1, <2>3 DEF RepeatInv
  <2>5. ASSUME Exact(book), imported' # "no" PROVE SoFar(db', book, c, imported')
    <3>1. CashflowKept(db', book)
      BY <2>1, <2>3, <2>5 DEF RepeatInv, SoFar
    <3>2. imported' # "partly" => PayrollKept(db', book)
      BY <2>3, <2>4, <2>5 DEF AllKept
    <3>3. \A i \in DOMAIN book["Manhours"] : ~(i < 1)
      <4>1. book["Manhours"] \in Seq(SheetRow["Manhours"])
        BY <1>1, BooksAssumption DEF Sheets
      <4> QED
        BY <4>1
    <3> QED
      BY <2>2, <3>1, <3>2, <3>3 DEF SoFar
  <2>6. \A v \in Workers \ {w} : call[v].at \notin Importing
    BY <1>2, <2>1 DEF Importing
  <2>7. RepeatInv'
    BY <1>1, <2>1, <2>2, <2>4, <2>5, <2>6, RepeatStep
  <2> QED
    BY <2>1, <2>7 DEF ImportRepeats
<1>6b. ASSUME NEW w \in Workers, ManhoursSkipped(w) PROVE RepeatInv' /\ ImportRepeats
  <2>1. /\ call[w].at \in Importing /\ call' = [call EXCEPT ![w] = NoCall]
        /\ imported' = LeftOut(imported) /\ UNCHANGED <<book, today, db, corrected>>
    BY <1>6b DEF ManhoursSkipped, Done, Leave, In, Importing
  <2>2. SoFar(db', book, NoCall, imported') /\ NoCall.at # "manhours"
    BY DEF SoFar, NoCall
  <2>3. Exact(book) /\ imported' = "yes" => AllKept(db', book)
    BY <2>1 DEF RepeatInv, LeftOut
  <2>4. RepeatInv'
    BY <1>1, <1>2, <2>1, <2>2, <2>3, RepeatStep
  <2> QED
    BY <2>1, <2>4 DEF ImportRepeats
<1>7. ASSUME NEW w \in Workers, call[w].at \in Importing, Crash(w), UNCHANGED importVars PROVE RepeatInv' /\ ImportRepeats
  <2>1. call' = [call EXCEPT ![w] = NoCall] /\ UNCHANGED <<book, today, db, imported, corrected>>
    BY <1>7 DEF Crash, Stop, Leave, importVars
  <2>2. SoFar(db', book, NoCall, imported') /\ NoCall.at # "manhours"
    BY DEF SoFar, NoCall
  <2>3. Exact(book) /\ imported' = "yes" => AllKept(db', book)
    BY <2>1 DEF RepeatInv
  <2>4. RepeatInv'
    BY <1>1, <1>2, <1>7, <2>1, <2>2, <2>3, RepeatStep
  <2> QED
    BY <2>1, <2>4 DEF ImportRepeats
<1>8. ASSUME NextDay PROVE RepeatInv' /\ ImportRepeats
  BY <1>8 DEF NextDay, handlerVars, RepeatInv, ImportRepeats
<1>9. ASSUME Correct \/ FileReturn \/ LockPeriod PROVE RepeatInv' /\ ImportRepeats
  <2>1. imported' = "no" /\ UNCHANGED call
    BY <1>9 DEF Correct, FileReturn, LockPeriod, handlerVars
  <2> QED
    BY <2>1 DEF RepeatInv, ImportRepeats
<1> QED
  BY <1>3, <1>4, <1>5, <1>6, <1>6a, <1>6b, <1>7, <1>8, <1>9 DEF ImportNext, ImportStep

=============================================================================

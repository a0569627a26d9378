------------------------------ MODULE MCMoney ------------------------------
(* Money for TLC: small sets, and the workbooks a person may hand in. *)
EXTENDS Money, TLC

CONSTANTS c1, c2, w1, w2, u1, u2, b1, b2, e1, e2, x1, x2, r1, r2, s1, s2

\* One client, order and contract; the rows of one more sheet.
Base == [s \in Sheets |->
    CASE s = "Clients" -> <<[name |-> "client"]>>
      [] s = "Orders" -> <<[ref |-> "order", client |-> "client", amount |-> 10, usd |-> 10, zig |-> 0,
                          rate |-> 0, date |-> 1]>>
      [] s = "Contracts" -> <<[ref |-> "contract", client |-> "other", amount |-> 10, date |-> 1, until |-> 2]>>
      [] OTHER -> <<>>]

Amounts == {10, 14}
Dates == {None, 1}

RowsOf ==
    [Settings |-> [key : {"vat_pct"}, date : {1}, value : {10, 20}],
     Orders |-> [ref : {"order"}, client : {"client"}, amount : {10}, usd : {10, 20}, zig : {10},
                rate : {0, 2}, date : Dates],
     Contracts |-> [ref : {"contract"}, client : {"other"}, amount : {10}, date : Dates, until : Dates],
     OrderExpenses |-> [ref : {"order", "unknown"}, text : {"fuel"}, amount : Amounts],
     GeneralExpenses |-> [text : {"rent"}, amount : Amounts, date : Dates],
     Overheads |-> [date : Dates, amount : Amounts, other : {0, 10}],
     Loans |-> [text : {"bank"}, amount : Amounts, date : Dates, paid : {0, 10}],
     ContractPayments |-> [ref : {"contract"}, amount : Amounts, date : Dates],
     OtherTaxDebt |-> [amount : Amounts, other : {0, 10}, paid : {0}, date : Dates],
     Payroll |-> [name : {"worker"}, date : {1}, amount : {10, 20}, paye : {10}]]

MCBooks ==
    LET One(s) == {[Base EXCEPT ![s] = <<r>>] : r \in RowsOf[s]}
        Hours == [name : {"worker", "nobody"}, date : {1}, amount : {10}]
    IN UNION {One(s) : s \in DOMAIN RowsOf}
       \cup {[Base EXCEPT !["GeneralExpenses"] = <<q, r>>] :
                q \in RowsOf["GeneralExpenses"], r \in RowsOf["GeneralExpenses"]}
       \cup {[Base EXCEPT !["Orders"] = <<q, r>>] : q, r \in {o \in RowsOf["Orders"] : o.date = 1}}
       \cup {[Base EXCEPT !["Payroll"] = <<r>>, !["Manhours"] = <<h>>] :
                r \in RowsOf["Payroll"], h \in Hours}

TwoMonths == <<2, 3>>

\* Bounds: a behaviour with overlapping requests has no failure, and little
\* withheld and remitted tax; each outcome of a chain is delivered once, and
\* at most two allowances are raised.
Bounded ==
    /\ overlapped => failures = 0 /\ withheld + remitted["WHT"] + remitted["PAYE"] <= 2
    /\ \A c \in Chains, s \in Outcomes : delivered[c][s] <= 1
    /\ BagCardinality(allowances) <= 2

Interchangeable == Permutations(Chains) \cup Permutations(Workers) \cup Permutations(Budgets) \cup Permutations(Sites)

=============================================================================

------------------------------- MODULE Import -------------------------------
(***************************************************************************)
(* The migration importer (apps/api/src/data-migration/import.service.ts): *)
(* every sheet of the operational workbooks is written into the tables of  *)
(* the platform by upsert, looking a row up by its natural key.  The       *)
(* cashflow workbook is one transaction, a payroll file another, and the   *)
(* hours of a manhours sheet are written one by one.  An error of the      *)
(* cashflow workbook ends the import; one of a payroll file or a manhours  *)
(* sheet is logged, and the import goes on without it.                     *)
(*                                                                         *)
(* A table is a sequence of rows in the order they were created.  Amounts  *)
(* count tenths of a cent, the tables keep cents (Decimal(20, 2)); a date  *)
(* is a day or None, a cell left empty.                                    *)
(***************************************************************************)
EXTENDS Handlers, Integers, Sequences

CONSTANTS
    Books,      \* the workbooks a person may hand in: sheet -> rows
    LastImportDay,       \* bound: the days on which something happens, 1..LastImportDay
    MaxRows     \* bound: no import begins when a table has more rows than this

VARIABLES
    book,       \* the workbook, as it is now
    today,
    db,         \* the tables
    imported,   \* history: nothing but an import of this workbook changed the
                \* tables since it began ("began"), and it ended ("yes"), or
                \* ended with its payroll or its hours left out ("partly")
    corrected   \* history: the workbook was changed

importVars == <<book, today, db, imported, corrected>>

Cashflow == {"Settings", "Clients", "Contracts", "Orders", "OrderExpenses", "GeneralExpenses",
             "Overheads", "Loans", "ContractPayments", "OtherTaxDebt"}
Sheets == Cashflow \cup {"Payroll", "Manhours"}

\* A row of a sheet, as it is parsed: a number may be anything, and a date left
\* out wherever it does not come from the name of the file or the tab.  The date
\* of an order is the first there is of serviced, closing and issued.
SheetRow ==
    LET Date == Nat \cup {None} IN
    [Settings |-> [key : STRING, date : Nat, value : Int],
     Clients |-> [name : STRING],
     Contracts |-> [ref : STRING, client : STRING, amount : Int, date : Date, until : Date],
     Orders |-> [ref : STRING, client : STRING, amount : Int, usd : Int, zig : Int, rate : Int, date : Date],
     OrderExpenses |-> [ref : STRING, text : STRING, amount : Int],
     GeneralExpenses |-> [text : STRING, amount : Int, date : Date],
     Overheads |-> [date : Date, amount : Int, other : Int],
     Loans |-> [text : STRING, amount : Int, date : Date, paid : Int],
     ContractPayments |-> [ref : STRING, amount : Int, date : Date],
     OtherTaxDebt |-> [amount : Int, other : Int, paid : Int, date : Date],
     Payroll |-> [name : STRING, date : Nat, amount : Int, paye : Int],
     Manhours |-> [name : STRING, date : Nat, amount : Int]]

ASSUME ImportAssumption == LastImportDay \in Nat \ {0} /\ MaxRows \in Nat
ASSUME BooksAssumption == \A b \in Books : DOMAIN b = Sheets /\ \A s \in Sheets : b[s] \in Seq(SheetRow[s])

Tables == {"rates", "clients", "contracts", "orders", "receipts", "orderExpenses",
           "generalExpenses", "overheads", "loans", "repayments", "claims", "taxDebt",
           "taxLedger", "runs", "employees", "lines", "returns", "periods", "entries"}

ImportInit ==
    /\ book \in Books
    /\ today = 1
    /\ db = [t \in Tables |-> <<>>]
    /\ imported = "no" /\ corrected = FALSE

-----------------------------------------------------------------------------
(* Rows and keys. *)

\* What a column of cents keeps of a number of the sheet, half a cent being
\* rounded away from zero.
Cents(amount) ==
    IF amount >= 0 THEN ((amount + 5) \div 10) * 10 ELSE -(((5 - amount) \div 10) * 10)

\* findFirst by the key: an amount of the sheet is compared as it is with
\* the amounts the table keeps.
Found(d, t, key) == {i \in DOMAIN d[t] : \A f \in DOMAIN key : d[t][i][f] = key[f]}

\* The row the key finds, or the one that will be created.
Place(d, t, key) ==
    LET at == Found(d, t, key) IN
    IF at = {} THEN Len(d[t]) + 1 ELSE CHOOSE i \in at : \A j \in at : i <= j

\* An update sets the columns it names.
Update(old, row) ==
    [f \in DOMAIN old \cup DOMAIN row |-> IF f \in DOMAIN row THEN row[f] ELSE old[f]]

Upsert(d, t, key, row) ==
    LET i == Place(d, t, key)
        rows == d[t]
    IN [d EXCEPT ![t] = IF i > Len(rows) THEN Append(rows, row)
                        ELSE [rows EXCEPT ![i] = Update(rows[i], row)]]

\* The sheet says no date: the day of the import.
DateOf(r, day) == IF r.date = None THEN day ELSE r.date

Refs(rows) == {rows[i].ref : i \in DOMAIN rows}

\* The rows that are the first of their month; one without a month is not.
FirstOfMonth(rows) ==
    {i \in DOMAIN rows : rows[i].date # None /\ \A j \in 1..(i - 1) : rows[j].date # rows[i].date}

-----------------------------------------------------------------------------
(* The sheets of the cashflow workbook: what one row of each writes. *)

UpsertSettings(d, r) ==
    IF r.value <= 0 THEN d
    ELSE Upsert(d, "rates", [key |-> r.key, date |-> r.date],
                [key |-> r.key, date |-> r.date, value |-> r.value])

UpsertClients(d, r) == Upsert(d, "clients", [name |-> r.name], [name |-> r.name])

\* A client the Clients sheet does not have is created by name.
ResolveClient(d, name) ==
    IF Found(d, "clients", [name |-> name]) # {} THEN d
    ELSE [d EXCEPT !["clients"] = Append(@, [name |-> name])]

\* The dates are written again at each import: those of a contract without
\* dates are the day of the last one.
UpsertContracts(d, r, day) ==
    Upsert(ResolveClient(d, r.client), "contracts", [ref |-> r.ref],
           [ref |-> r.ref, client |-> r.client, amount |-> Cents(r.amount),
            date |-> DateOf(r, day), until |-> IF r.until = None THEN day ELSE r.until])

\* The journal of a receipt or a claim: once, with the amount it had then
\* (LedgerService.postOrderReceipt, postContractClaim).
Post(d, t, i) ==
    LET row == d[t][i] IN
    IF "posted" \in DOMAIN row THEN d
    ELSE [d EXCEPT ![t][i] = Update(row, [posted |-> row.amount])]

\* Whether money came in a currency, ZiG counting only with an official rate,
\* and what it is in USD.
Received(r, currency) == IF currency = "USD" THEN r.usd > 0 ELSE r.zig > 0 /\ r.rate > 0
InUSD(r, currency) == IF currency = "USD" THEN r.usd ELSE r.zig \div r.rate

ReceiptLeg(d, r, currency, day) ==
    LET key == [order |-> r.ref, currency |-> currency]
        row == [order |-> r.ref, currency |-> currency, amount |-> Cents(InUSD(r, currency)), date |-> DateOf(r, day)]
    IN IF ~Received(r, currency) THEN d
       ELSE Post(Upsert(d, "receipts", key, row), "receipts", Place(d, "receipts", key))

\* One receipt for the money in each currency.
UpsertOrderReceipts(d, r, day) == ReceiptLeg(ReceiptLeg(d, r, "USD", day), r, "ZIG", day)

UpsertOrders(d, r, day) ==
    UpsertOrderReceipts(
        Upsert(ResolveClient(d, r.client), "orders", [ref |-> r.ref],
               [ref |-> r.ref, client |-> r.client, amount |-> Cents(r.amount)]), r, day)

\* Only for an order of the Orders sheet.
UpsertOrderExpenses(d, r, orders) ==
    IF r.ref \notin orders THEN d
    ELSE Upsert(d, "orderExpenses", [order |-> r.ref, text |-> r.text, amount |-> r.amount],
                [order |-> r.ref, text |-> r.text, amount |-> Cents(r.amount)])

UpsertGeneralExpenses(d, r, day) ==
    Upsert(d, "generalExpenses", [text |-> r.text, amount |-> r.amount, date |-> DateOf(r, day)],
           [text |-> r.text, amount |-> Cents(r.amount), date |-> DateOf(r, day)])

OverheadBucket(d, month, category, amount) ==
    IF amount = 0 THEN d
    ELSE Upsert(d, "overheads", [date |-> month, text |-> category],
                [date |-> month, text |-> category, amount |-> Cents(amount)])

\* A row is a month with an amount for each category; only the first of a
\* month counts.
UpsertOverheads(d, rows, i) ==
    IF i \notin FirstOfMonth(rows) THEN d
    ELSE OverheadBucket(OverheadBucket(d, rows[i].date, "Salaries", rows[i].amount),
                        rows[i].date, "Other", rows[i].other)

UpsertLoans(d, r, day) ==
    LET loan == [text |-> r.text, amount |-> r.amount, date |-> DateOf(r, day)]
        lent == Upsert(d, "loans", loan, [text |-> r.text, amount |-> Cents(r.amount), date |-> DateOf(r, day)])
        id == Place(d, "loans", loan)
    IN IF r.paid <= 0 THEN lent
       ELSE Upsert(lent, "repayments", [loan |-> id, amount |-> r.paid],
                   [loan |-> id, amount |-> Cents(r.paid)])

\* Only for a contract of the Contracts sheet.
UpsertContractClaims(d, r, contracts, day) ==
    LET key == [contract |-> r.ref, amount |-> r.amount, date |-> DateOf(r, day)]
        row == [contract |-> r.ref, amount |-> Cents(r.amount), date |-> DateOf(r, day)]
    IN IF r.ref \notin contracts THEN d
       ELSE Post(Upsert(d, "claims", key, row), "claims", Place(d, "claims", key))

DebtLeg(d, r, tax, principal, day) ==
    IF principal <= 0 THEN d
    ELSE Upsert(d, "taxDebt", [tax |-> tax, amount |-> principal, date |-> DateOf(r, day)],
                [tax |-> tax, amount |-> Cents(principal), date |-> DateOf(r, day), paid |-> Cents(r.paid)])

UpsertTaxDebt(d, r, day) == DebtLeg(DebtLeg(d, r, "PAYE", r.amount, day), r, "VAT", r.other, day)

-----------------------------------------------------------------------------
(* Payroll files and manhours sheets. *)

\* The run of the site and month as it is, or a new one that counts as
\* approved.
UpsertPayrollRun(d, month) ==
    IF Found(d, "runs", [date |-> month]) # {} THEN d
    ELSE [d EXCEPT !["runs"] = Append(@, [date |-> month, status |-> "APPROVED"])]

UpsertEmployee(d, name) == Upsert(d, "employees", [name |-> name], [name |-> name])

UpsertPayrollLine(d, r) ==
    Upsert(d, "lines", [date |-> r.date, name |-> r.name],
           [date |-> r.date, name |-> r.name, amount |-> Cents(r.amount), paye |-> Cents(r.paye)])

\* The return of the file's total is DUE, whatever became of it.
PostStatutoryReturns(d, month, total) ==
    IF total <= 0 THEN d
    ELSE Upsert(d, "returns", [date |-> month], [date |-> month, amount |-> Cents(total), status |-> "DUE"])

EnsureTimesheetPeriod(d, month) ==
    IF Found(d, "periods", [date |-> month]) # {} THEN d
    ELSE [d EXCEPT !["periods"] = Append(@, [date |-> month, status |-> "OPEN"])]

\* The hours of one employee on one day, whatever the period's status; a row
\* of a works number nobody has is passed over.
ImportManhours(d, r) ==
    LET open == EnsureTimesheetPeriod(d, r.date) IN
    IF Found(d, "employees", [name |-> r.name]) = {} THEN d
    ELSE IF r.amount <= 0 THEN open
    ELSE Upsert(open, "entries", [date |-> r.date, name |-> r.name],
                [date |-> r.date, name |-> r.name, amount |-> Cents(r.amount)])

-----------------------------------------------------------------------------
(* A sheet is written row by row. *)

WriteRow(d, b, s, i, day) ==
    LET r == b[s][i] IN
    CASE s = "Settings" -> UpsertSettings(d, r)
      [] s = "Clients" -> UpsertClients(d, r)
      [] s = "Contracts" -> UpsertContracts(d, r, day)
      [] s = "Orders" -> UpsertOrders(d, r, day)
      [] s = "OrderExpenses" -> UpsertOrderExpenses(d, r, Refs(b["Orders"]))
      [] s = "GeneralExpenses" -> UpsertGeneralExpenses(d, r, day)
      [] s = "Overheads" -> UpsertOverheads(d, b[s], i)
      [] s = "Loans" -> UpsertLoans(d, r, day)
      [] s = "ContractPayments" -> UpsertContractClaims(d, r, Refs(b["Contracts"]), day)
      [] s = "OtherTaxDebt" -> UpsertTaxDebt(d, r, day)
      [] s = "Payroll" -> UpsertPayrollLine(UpsertEmployee(d, r.name), r)
      [] s = "Manhours" -> ImportManhours(d, r)

ImportSheet(d, b, s, day) ==
    LET after[i \in 0..Len(b[s])] == IF i = 0 THEN d ELSE WriteRow(after[i - 1], b, s, i, day)
    IN after[Len(b[s])]

\* What the rows add up to in one column.
Total(rows, column) ==
    LET upto[i \in 0..Len(rows)] == IF i = 0 THEN 0 ELSE upto[i - 1] + rows[i][column]
    IN upto[Len(rows)]

\* One row for each tax head, found by its synthetic period; what is to be
\* recovered counts as nothing.  What the workbook owes is the principals
\* brought forward, the other figures of consolidateVat and consolidatePaye
\* being no part of the instance.
NetPayable(d, tax, amount) ==
    Upsert(d, "taxLedger", [tax |-> tax], [tax |-> tax, amount |-> IF amount > 0 THEN Cents(amount) ELSE 0])

ConsolidateOperationalTax(d, rows) ==
    NetPayable(NetPayable(d, "VAT", Total(rows, "other")), "PAYE", Total(rows, "amount"))

ImportCashflow(d, b, day) ==
    LET settings == ImportSheet(d, b, "Settings", day)
        clients == ImportSheet(settings, b, "Clients", day)
        contracts == ImportSheet(clients, b, "Contracts", day)
        orders == ImportSheet(contracts, b, "Orders", day)
        orderExpenses == ImportSheet(orders, b, "OrderExpenses", day)
        expenses == ImportSheet(orderExpenses, b, "GeneralExpenses", day)
        overheads == ImportSheet(expenses, b, "Overheads", day)
        loans == ImportSheet(overheads, b, "Loans", day)
        claims == ImportSheet(loans, b, "ContractPayments", day)
        debts == ImportSheet(claims, b, "OtherTaxDebt", day)
    IN ConsolidateOperationalTax(debts, b["OtherTaxDebt"])

\* A sheet without rows stands for no file.
ImportOnePayroll(d, b, day) ==
    LET rows == b["Payroll"]
        month == rows[1].date
    IN IF rows = <<>> THEN d
       ELSE PostStatutoryReturns(ImportSheet(UpsertPayrollRun(d, month), b, "Payroll", day),
                                 month, Total(rows, "paye"))

-----------------------------------------------------------------------------
(* run: one workbook after the other. *)

Importing == {"cashflow", "payroll", "manhours"}
NoImport == \A w \in Workers : call[w].at \notin Importing

\* Bound: one import at a time, of everything there is to import ("all").
RunImport(w) ==
    /\ NoImport
    /\ \A t \in Tables : Len(db[t]) <= MaxRows
    /\ Begin(w, "cashflow", None)
    /\ imported' = IF imported = "yes" THEN "yes" ELSE "began"
    /\ UNCHANGED <<book, today, db, corrected>>

CashflowTx(w) ==
    /\ In(w, "cashflow")
    /\ db' = ImportCashflow(db, book, today)
    /\ Step(w, "payroll", None)
    /\ UNCHANGED <<book, today, imported, corrected>>

PayrollTx(w) ==
    /\ In(w, "payroll")
    /\ db' = ImportOnePayroll(db, book, today)
    /\ Step(w, "manhours", [next |-> 1])
    /\ UNCHANGED <<book, today, imported, corrected>>

\* A step of the import was left out: it will not end with every sheet.
LeftOut(was) == IF was = "began" THEN "partly" ELSE was

\* The file cannot be read, the platform has no site of its name, or an error
\* undid its transaction: that is logged, and the import goes on.
PayrollSkipped(w) ==
    /\ In(w, "payroll")
    /\ Step(w, "manhours", [next |-> 1])
    /\ imported' = LeftOut(imported)
    /\ UNCHANGED <<book, today, db, corrected>>

ManhoursRow(w) ==
    /\ In(w, "manhours")
    /\ LET i == call[w].saw.next IN
         IF i \in DOMAIN book["Manhours"]
           THEN /\ db' = WriteRow(db, book, "Manhours", i, today)
                /\ Step(w, "manhours", [next |-> i + 1])
                /\ UNCHANGED imported
           ELSE /\ Done(w)
                /\ imported' = IF imported = "began" THEN "yes" ELSE imported
                /\ UNCHANGED db
    /\ UNCHANGED <<book, today, corrected>>

\* The workbook cannot be read, or an error ends its sheet; the hours that were
\* written stay.
ManhoursSkipped(w) ==
    /\ In(w, "manhours")
    /\ Done(w)
    /\ imported' = LeftOut(imported)
    /\ UNCHANGED <<book, today, db, corrected>>

-----------------------------------------------------------------------------
(* Meanwhile. *)

\* Someone hands in another workbook (bound: once, and one that corrects a
\* sheet of the first).
Correct ==
    /\ NoImport /\ ~corrected
    /\ book' \in {b \in Books : \E s \in Sheets : b = [book EXCEPT ![s] = b[s]]}
    /\ book' # book
    /\ imported' = "no" /\ corrected' = TRUE
    /\ UNCHANGED <<handlerVars, today, db>>

\* Without date cells the day is part of what is imported.
NextDay ==
    /\ today < LastImportDay
    /\ NoImport
    /\ today' = today + 1
    /\ UNCHANGED <<handlerVars, book, db, imported, corrected>>

\* The platform goes on: a return is filed (ReturnsService), a period locked.
FileReturn ==
    /\ \E i \in DOMAIN db.returns : db' = [db EXCEPT !.returns[i].status = "FILED"]
    /\ imported' = "no"
    /\ UNCHANGED <<handlerVars, book, today, corrected>>

LockPeriod ==
    /\ \E i \in DOMAIN db.periods : db' = [db EXCEPT !.periods[i].status = "LOCKED"]
    /\ imported' = "no"
    /\ UNCHANGED <<handlerVars, book, today, corrected>>

ImportStep(w) ==
    \/ RunImport(w) \/ CashflowTx(w) \/ PayrollTx(w) \/ PayrollSkipped(w)
    \/ ManhoursRow(w) \/ ManhoursSkipped(w)
    \/ call[w].at \in Importing /\ Crash(w) /\ UNCHANGED importVars

ImportNext ==
    \/ \E w \in Workers : ImportStep(w)
    \/ Correct \/ NextDay \/ FileReturn \/ LockPeriod

-----------------------------------------------------------------------------
(* Properties. *)

\* An amount the tables keep, and the columns of each table; the journals of
\* a receipt or a claim may be missing.
Cent == {a \in Int : Cents(a) = a}

TableRow ==
    LET Receipt == [order : STRING, currency : {"USD", "ZIG"}, amount : Cent, date : Nat]
        PostedReceipt == [order : STRING, currency : {"USD", "ZIG"}, amount : Cent, date : Nat, posted : Cent]
        Claim == [contract : STRING, amount : Cent, date : Nat]
        PostedClaim == [contract : STRING, amount : Cent, date : Nat, posted : Cent]
    IN [rates |-> [key : STRING, date : Nat, value : Int],
        clients |-> [name : STRING],
        contracts |-> [ref : STRING, client : STRING, amount : Cent, date : Nat, until : Nat],
        orders |-> [ref : STRING, client : STRING, amount : Cent],
        receipts |-> Receipt \cup PostedReceipt,
        orderExpenses |-> [order : STRING, text : STRING, amount : Cent],
        generalExpenses |-> [text : STRING, amount : Cent, date : Nat],
        overheads |-> [date : Nat, text : {"Salaries", "Other"}, amount : Cent],
        loans |-> [text : STRING, amount : Cent, date : Nat],
        repayments |-> [loan : Nat, amount : Cent],
        claims |-> Claim \cup PostedClaim,
        taxDebt |-> [tax : {"PAYE", "VAT"}, amount : Cent, date : Nat, paid : Cent],
        taxLedger |-> [tax : {"PAYE", "VAT"}, amount : Cent],
        runs |-> [date : Nat, status : {"APPROVED"}],
        employees |-> [name : STRING],
        lines |-> [date : Nat, name : STRING, amount : Cent, paye : Cent],
        returns |-> [date : Nat, amount : Cent, status : {"DUE", "FILED"}],
        periods |-> [date : Nat, status : {"OPEN", "LOCKED"}],
        entries |-> [date : Nat, name : STRING, amount : Cent]]

ImportTypeOK ==
    /\ book \in Books /\ today \in 1..LastImportDay
    /\ DOMAIN db = Tables /\ \A t \in Tables : db[t] \in Seq(TableRow[t])
    /\ imported \in {"no", "began", "partly", "yes"} /\ corrected \in BOOLEAN

\* Two rows that find the same row of a table and would have it differ.
Clash(s, q, r) ==
    \/ s = "Settings" /\ q.key = r.key /\ q.date = r.date /\ q # r
    \/ s \in {"Contracts", "Orders"} /\ q.ref = r.ref /\ q # r
    \/ /\ s = "OtherTaxDebt" /\ q.date = r.date /\ q.paid # r.paid
       /\ \/ q.amount = r.amount /\ r.amount > 0
          \/ q.other = r.other /\ r.other > 0
    \/ s \in {"Payroll", "Manhours"} /\ q.name = r.name /\ q.date = r.date /\ q # r

\* The rows that may be found again: dated, in cents, and of one mind.
Exact(b) ==
    \A s \in Sheets : \A i \in DOMAIN b[s] :
        /\ \A f \in {"date", "until"} \cap DOMAIN b[s][i] : b[s][i][f] # None
        /\ \A f \in {"amount", "paid", "other"} \cap DOMAIN b[s][i] : Cents(b[s][i][f]) = b[s][i][f]
        /\ \A j \in DOMAIN b[s] : ~Clash(s, b[s][i], b[s][j])

\* An order on two rows of the sheet.
Twice(ref) == \E i, j \in DOMAIN book["Orders"] : i # j /\ {ref} = {book["Orders"][i].ref, book["Orders"][j].ref}

\* What the journals say: every receipt and claim was posted, a claim with
\* its amount and, as long as nobody corrects the workbook and no two rows of
\* it are about its order, a receipt too.
ImportPosted ==
    /\ \A i \in DOMAIN db.claims : "posted" \in DOMAIN db.claims[i] /\ db.claims[i].posted = db.claims[i].amount
    /\ \A i \in DOMAIN db.receipts :
         /\ "posted" \in DOMAIN db.receipts[i]
         /\ corrected \/ Twice(db.receipts[i].order) \/ db.receipts[i].posted = db.receipts[i].amount

Has(t, key) == Found(db, t, key) # {}

\* On that day, or on some day if the row says none.
HasOn(t, key, date) == \E i \in Found(db, t, key) : date \in {None, db[t][i].date}

\* Once an import has ended no row of the cashflow workbook is lost, whatever
\* became of the payroll and the hours, other than one with no order or
\* contract, money in ZiG with no rate, or the second row of a month; nor, when
\* nothing was left out, a line of the payroll.
ImportComplete ==
    LET Rows(s) == {book[s][i] : i \in DOMAIN book[s]}
    IN /\ imported \in {"partly", "yes"} =>
         /\ \A r \in Rows("Settings") : r.value > 0 => Has("rates", [key |-> r.key, date |-> r.date])
         /\ \A r \in Rows("Clients") : Has("clients", [name |-> r.name])
         /\ \A r \in Rows("Contracts") : Has("contracts", [ref |-> r.ref]) /\ Has("clients", [name |-> r.client])
         /\ \A r \in Rows("Orders") :
                /\ Has("orders", [ref |-> r.ref]) /\ Has("clients", [name |-> r.client])
                /\ r.usd > 0 => Has("receipts", [order |-> r.ref, currency |-> "USD"])
                /\ r.zig > 0 /\ r.rate > 0 => Has("receipts", [order |-> r.ref, currency |-> "ZIG"])
         /\ \A r \in Rows("OrderExpenses") : r.ref \in Refs(book["Orders"]) =>
                Has("orderExpenses", [order |-> r.ref, text |-> r.text, amount |-> Cents(r.amount)])
         /\ \A r \in Rows("GeneralExpenses") :
                HasOn("generalExpenses", [text |-> r.text, amount |-> Cents(r.amount)], r.date)
         /\ \A i \in FirstOfMonth(book["Overheads"]) :
                LET r == book["Overheads"][i] IN
                /\ r.amount # 0 => Has("overheads", [date |-> r.date, text |-> "Salaries"])
                /\ r.other # 0 => Has("overheads", [date |-> r.date, text |-> "Other"])
         /\ \A r \in Rows("Loans") : HasOn("loans", [text |-> r.text, amount |-> Cents(r.amount)], r.date)
         /\ \A r \in Rows("ContractPayments") : r.ref \in Refs(book["Contracts"]) =>
                HasOn("claims", [contract |-> r.ref, amount |-> Cents(r.amount)], r.date)
         /\ \A r \in Rows("OtherTaxDebt") :
                /\ r.amount > 0 => HasOn("taxDebt", [tax |-> "PAYE", amount |-> Cents(r.amount)], r.date)
                /\ r.other > 0 => HasOn("taxDebt", [tax |-> "VAT", amount |-> Cents(r.other)], r.date)
       /\ imported = "yes" => \A r \in Rows("Payroll") : Has("lines", [name |-> r.name, date |-> r.date])

\* Importing again a workbook that was imported with nothing left out changes
\* nothing, be anything left out this time: its rows are found by their keys,
\* and what was posted is not posted again.  So it is for a workbook of Exact
\* rows, which leave no date to the day of the import.
ImportRepeats == (imported = "yes" /\ imported' = "yes" /\ Exact(book)) => db' = db

=============================================================================

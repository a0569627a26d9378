------------------------------ MODULE Returns ------------------------------
(***************************************************************************)
(* Statutory returns of one month (apps/api/src/returns/): the return of   *)
(* withholding tax grows with every payment tax is withheld from, the one  *)
(* of a payroll head is posted from the approved runs, and both are paid   *)
(* by remittances.  A payment, a run and a remittance are 1 each; whether  *)
(* the filing deadline passed is a switch.                                 *)
(***************************************************************************)
EXTENDS Handlers

CONSTANTS
    Sites,
    MaxMoney    \* bound: how much is withheld, and remitted for each return

VARIABLES
    ret,        \* the return of each head: findFirst finds the oldest row
    withheld,   \* wht_transactions: the tax withheld
    remitted,   \* return_remittances of each return
    runs,       \* the sites with an approved payroll run
    posted,     \* history: the sites the last posting of the head was for
    late        \* the filing deadline passed

returnVars == <<ret, withheld, remitted, runs, posted, late>>

Heads == {"WHT", "PAYE"}
NoReturn == [due |-> 0, paid |-> 0, status |-> "NONE"]
Exists(h) == ret[h].status # "NONE"

ASSUME ReturnsAssumption == MaxMoney \in Nat /\ IsFiniteSet(Sites)

ReturnsInit ==
    /\ ret = [h \in Heads |-> NoReturn]
    /\ withheld = 0 /\ remitted = [h \in Heads |-> 0]
    /\ runs = {} /\ posted = {}
    /\ late \in BOOLEAN

\* computeReturnState.
State(due, paid) ==
    CASE paid >= due -> "PAID"
      [] paid < due /\ late -> "OVERDUE"
      [] paid < due /\ ~late /\ paid > 0 -> "PARTIAL"
      [] OTHER -> "DUE"

-----------------------------------------------------------------------------
(* WhtService.payable, for a payment tax is withheld from: the transaction,*)
(* then the return it adds to.                                             *)

Payable(w) ==
    /\ withheld < MaxMoney
    /\ withheld' = withheld + 1
    /\ Begin(w, "whtFind", None)
    /\ UNCHANGED <<ret, remitted, runs, posted, late>>

WhtFind(w) ==
    /\ In(w, "whtFind")
    /\ Step(w, "whtWrite", ret["WHT"])
    /\ UNCHANGED returnVars

\* The status is only set back from PAID, and a new return is DUE.  A return
\* another handler created in between is left behind, the second row not
\* being found again.
WhtWrite(w) ==
    /\ In(w, "whtWrite")
    /\ LET saw == call[w].saw
           due == saw.due + 1
       IN ret' = IF saw.status = "NONE"
                   THEN IF Exists("WHT") THEN ret
                        ELSE [ret EXCEPT !["WHT"] = [due |-> 1, paid |-> 0, status |-> "DUE"]]
                   ELSE [ret EXCEPT !["WHT"].due = due,
                                    !["WHT"].status = IF saw.paid >= due THEN "PAID"
                                                      ELSE IF saw.status = "PAID" THEN "PARTIAL"
                                                      ELSE saw.status]
    /\ Done(w)
    /\ UNCHANGED <<withheld, remitted, runs, posted, late>>

-----------------------------------------------------------------------------
(* ReturnsService.postFromPayroll, for all sites or for one: the total of  *)
(* the approved runs replaces what is due.                                 *)

PostRuns(w, sites) ==
    /\ runs \cap sites # {}
    /\ Begin(w, "headFind", [sites |-> runs \cap sites])
    /\ UNCHANGED returnVars

HeadFind(w) ==
    /\ In(w, "headFind")
    /\ Step(w, "headWrite", [sites |-> call[w].saw.sites, row |-> ret["PAYE"]])
    /\ UNCHANGED returnVars

HeadWriteUnpaid(w) ==
    /\ In(w, "headWrite")
    /\ LET due == Cardinality(call[w].saw.sites) IN
         ret' = [ret EXCEPT !["PAYE"] = [due |-> due, paid |-> 0, status |-> State(due, 0)]]
    /\ posted' = call[w].saw.sites
    /\ Done(w)
    /\ UNCHANGED <<withheld, remitted, runs, late>>

HeadWrite(w) ==
    /\ In(w, "headWrite")
    /\ LET due == Cardinality(call[w].saw.sites)
           row == call[w].saw.row
       IN IF row.status = "NONE" /\ Exists("PAYE")
            THEN UNCHANGED <<ret, posted>>
            ELSE /\ ret' = [ret EXCEPT !["PAYE"].due = due, !["PAYE"].status = State(due, row.paid)]
                 /\ posted' = call[w].saw.sites
    /\ Done(w)
    /\ UNCHANGED <<withheld, remitted, runs, late>>

-----------------------------------------------------------------------------
(* remit: the return is read, the remittance created, the return written.  *)

RemitRead(w, h) ==
    /\ Exists(h) /\ remitted[h] < MaxMoney
    /\ Begin(w, "remit", [head |-> h, row |-> ret[h]])
    /\ UNCHANGED returnVars

RemitCreate(w) ==
    /\ In(w, "remit")
    /\ remitted' = [remitted EXCEPT ![call[w].saw.head] = @ + 1]
    /\ Step(w, "remitWrite", call[w].saw)
    /\ UNCHANGED <<ret, withheld, runs, posted, late>>

RemitWrite(w) ==
    /\ In(w, "remitWrite")
    /\ LET h == call[w].saw.head
           row == call[w].saw.row
       IN ret' = [ret EXCEPT ![h].paid = row.paid + 1, ![h].status = State(row.due, row.paid + 1)]
    /\ Done(w)
    /\ UNCHANGED <<withheld, remitted, runs, posted, late>>

-----------------------------------------------------------------------------
(* persistStatuses: every return is read, then one after the other that    *)
(* has another status is written.                                          *)

PersistRead(w) ==
    /\ \E h \in Heads : Exists(h)
    /\ Begin(w, "persist", ret)
    /\ UNCHANGED returnVars

PersistWrite(w) ==
    /\ In(w, "persist")
    /\ LET saw == call[w].saw
           stale == {h \in Heads : saw[h].status \notin {"NONE", State(saw[h].due, saw[h].paid)}}
       IN IF stale = {} THEN Done(w) /\ UNCHANGED ret
          ELSE \E h \in stale :
                 LET fresh == State(saw[h].due, saw[h].paid) IN
                 /\ ret' = [ret EXCEPT ![h].status = fresh]
                 /\ Step(w, "persist", [saw EXCEPT ![h].status = fresh])
    /\ UNCHANGED <<withheld, remitted, runs, posted, late>>

-----------------------------------------------------------------------------

\* A run is approved (Payroll), and the deadline passes.
RunApproved(s) ==
    /\ s \notin runs
    /\ runs' = runs \cup {s}
    /\ UNCHANGED <<handlerVars, ret, withheld, remitted, posted, late>>

DeadlinePasses ==
    /\ ~late
    /\ late' = TRUE
    /\ UNCHANGED <<handlerVars, ret, withheld, remitted, runs, posted>>

Filing == {"whtFind", "whtWrite", "headFind", "headWrite", "remit", "remitWrite", "persist"}

ReturnsStep(w) ==
    \/ Payable(w) \/ WhtFind(w) \/ WhtWrite(w)
    \/ PostRuns(w, Sites) \/ (\E s \in Sites : PostRuns(w, {s})) \/ HeadFind(w) \/ HeadWrite(w)
    \/ (\E h \in Heads : RemitRead(w, h)) \/ RemitCreate(w) \/ RemitWrite(w)
    \/ PersistRead(w) \/ PersistWrite(w)
    \/ (call[w].at \in Filing /\ Crash(w) /\ UNCHANGED returnVars)

ReturnsNext ==
    \/ \E w \in Workers : ReturnsStep(w)
    \/ \E s \in Sites : RunApproved(s)
    \/ DeadlinePasses

-----------------------------------------------------------------------------

ReturnStatuses == {"NONE", "DUE", "PARTIAL", "OVERDUE", "PAID"}

ReturnsTypeOK ==
    /\ ret \in [Heads -> [due : Nat, paid : Nat, status : ReturnStatuses]]
    /\ withheld \in 0..MaxMoney /\ remitted \in [Heads -> Nat]
    /\ runs \subseteq Sites /\ posted \subseteq runs /\ late \in BOOLEAN

\* No return owes more than was withheld or the runs posted have, or counts
\* money nobody remitted as paid.
ReturnsAuthorised ==
    /\ ret["WHT"].due <= withheld /\ ret["PAYE"].due = Cardinality(posted)
    /\ \A h \in Heads : ret[h].paid <= remitted[h]

\* The withholding tax, the remittances and what the return says add up, and
\* it is PAID if and only if nothing remains to be paid.
ReturnsAgree ==
    AtRest =>
        /\ ret["WHT"].due = withheld
        /\ \A h \in Heads :
             /\ ret[h].paid = remitted[h]
             /\ Exists(h) => (ret[h].status = "PAID" <=> ret[h].paid >= ret[h].due)

\* What is paid stays paid, however often the head is posted again.
ReturnsKept == ~overlapped' => \A h \in Heads : ret'[h].paid >= ret[h].paid

=============================================================================

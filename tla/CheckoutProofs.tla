---------------------------- MODULE CheckoutProofs ----------------------------
(***************************************************************************)
(* Proofs about Checkout, for any sets of offers, invoices, references,    *)
(* request slots and workers and any bounds.                               *)
(***************************************************************************)
EXTENDS Checkout, FiniteSetTheorems, TLAPS

-----------------------------------------------------------------------------
(* Lemmas about the two ways a handler moves on *)

\* Goto keeps the handlers' labels and locals well typed.
LEMMA GotoType ==
    ASSUME pc \in [Handlers -> Labels], local \in [Handlers -> Locals],
           NEW h \in Handlers, NEW label \in Labels, NEW l \in Locals,
           Goto(h, label, l)
    PROVE  pc' \in [Handlers -> Labels] /\ local' \in [Handlers -> Locals]
  BY DEF Goto

\* The empty locals are well typed.
LEMMA NoLocalType == NoLocal \in Locals
  BY OffersAssumption DEF NoLocal, Locals, Plans

\* So are those a job keeps to the end.
LEMMA OnlyRefType ==
    ASSUME local \in [Handlers -> Locals], NEW h \in Handlers
    PROVE  OnlyRef(h) \in Locals /\ OnlyRef(h).ref = local[h].ref
  BY NoLocalType DEF OnlyRef, Locals, NoLocal

\* So does Return.
LEMMA ReturnType ==
    ASSUME pc \in [Handlers -> Labels], local \in [Handlers -> Locals],
           NEW h \in Handlers, Return(h)
    PROVE  pc' \in [Handlers -> Labels] /\ local' \in [Handlers -> Locals]
  BY NoLocalType, OnlyRefType DEF Return, Goto, Labels

\* And Decide, for a row read from the ledger.
LEMMA DecideType ==
    ASSUME pc \in [Handlers -> Labels], local \in [Handlers -> Locals],
           NEW h \in Handlers, NEW i \in Invoices, NEW row \in InvoiceRows,
           Decide(h, i, row)
    PROVE  pc' \in [Handlers -> Labels] /\ local' \in [Handlers -> Locals]
  <1>1. CASE Terminal(row)
    BY <1>1, ReturnType DEF Decide
  <1>2. CASE ~Terminal(row)
    <2>1. [local[h] EXCEPT !.inv = i, !.offer = row.offer] \in Locals
      BY DEF Locals, InvoiceRows
    <2>2. (IF Verified(h, row) THEN "activate" ELSE "markFailed") \in Labels
      BY DEF Labels
    <2> QED
      BY <1>2, <2>1, <2>2, GotoType DEF Decide
  <1> QED
    BY <1>1, <1>2

-----------------------------------------------------------------------------
(* Rows only grow: what a handler has learned of them stays true *)

\* No step deletes an invoice or an event, changes the plan an invoice is for,
\* forgets an activation, or changes or un-pays an opened transaction.
Grows ==
    /\ \A i \in Invoices : invoice[i].status # "NONE" =>
          invoice'[i].status # "NONE" /\ invoice'[i].offer.plan = invoice[i].offer.plan
    /\ \A i \in Invoices : activations[i] > 0 => activations'[i] > 0
    /\ \A r \in Refs : tx[r].state # "none" =>
          /\ tx'[r].state # "none"
          /\ tx'[r].inv = tx[r].inv /\ tx'[r].offer = tx[r].offer
          /\ tx[r].state = "paid" => tx'[r].state = "paid"
    /\ \A r \in Refs : event[r] # "NONE" => event'[r] # "NONE"

\* What has been paid for stays paid for.
LEMMA NumberPaidGrows ==
    ASSUME TypeOK, Grows, NEW a, NumberPaid(a)
    PROVE  NumberPaid(a)'
  BY DEF Grows, NumberPaid

\* A handler that does not move keeps its invariant.
LEMMA HandlerStable ==
    ASSUME TypeOK, TypeOK', Grows, NEW g \in Handlers, HandlerOK(g),
           pc'[g] = pc[g], local'[g] = local[g]
    PROVE  HandlerOK(g)'
  <1> DEFINE l == local[g]
  <1>1. pc[g] = "apply" => NumberPaid(l.offer.amount)'
    BY NumberPaidGrows DEF HandlerOK
  <1>2. \A i : HasRow(i) =>
            HasRow(i)' /\ invoice'[i].offer.plan = invoice[i].offer.plan
    BY DEF Grows, HasRow
  <1>3. \A r : Opened(r) => /\ Opened(r)'
                            /\ tx'[r].inv = tx[r].inv /\ tx'[r].offer = tx[r].offer
                            /\ tx[r].state = "paid" => tx'[r].state = "paid"
    BY DEF Grows, Opened
  <1>4. \A i : PaidFor(i) => PaidFor(i)'
    BY DEF Grows, PaidFor
  <1>5. \A r \in Refs : tx[r].state = "paid" => tx'[r] = tx[r]
    <2> SUFFICES ASSUME NEW r \in Refs, tx[r].state = "paid" PROVE tx'[r] = tx[r]
      OBVIOUS
    <2>1. tx[r] \in Transactions /\ tx'[r] \in Transactions
      BY DEF TypeOK
    <2> QED
      BY <2>1 DEF Grows, Transactions
  <1>6. \A i : HasRow(i) /\ activations[i] > 0 => activations'[i] > 0
    BY DEF Grows, HasRow
  <1>7. /\ pc[g] \in {"refresh", "initialize"} =>
              HasRow(l.inv)' /\ invoice'[l.inv].offer.plan = l.offer.plan
        /\ pc[g] = "attachNew" => Opened(l.ref)' /\ tx'[l.ref].inv = l.inv
    BY <1>2, <1>3 DEF HandlerOK
  <1>8. /\ pc[g] \in {"lookup", "lookupById", "attach"} =>
              Opened(l.ref)' /\ (l.ok => tx'[l.ref].state = "paid")
        /\ pc[g] = "attach" => tx'[l.ref].inv = l.inv
    BY <1>3 DEF HandlerOK
  <1>9. /\ pc[g] = "activate" =>
              l.ref \in Refs /\ HasRow(l.inv)'
              /\ tx'[l.ref] = [state |-> "paid", inv |-> l.inv, offer |-> l.offer]
        /\ pc[g] = "markPaid" =>
              HasRow(l.inv)' /\ PaidFor(l.inv)' /\ activations'[l.inv] > 0
        /\ pc[g] = "markFailed" => HasRow(l.inv)'
    BY <1>2, <1>4, <1>5, <1>6 DEF HandlerOK
  <1>10. /\ g \in Workers /\ pc[g] # "idle" => l.ref \in Refs /\ event'[l.ref] # "NONE"
         /\ pc[g] = "initialize" => g \in Requests
         /\ pc[g] \in {"finish", "ack"} => g \in Workers
    BY DEF HandlerOK, Grows
  <1> QED
    BY <1>1, <1>7, <1>8, <1>9, <1>10 DEF HandlerOK

\* Frame of every step of one handler: it is enough to look at the rows and at
\* the handler that moved.
LEMMA StepOfOne ==
    ASSUME IInv, TypeOK', Grows, LedgerOK', PaidMeansChargedAndActivated',
           NumbersPaidFor', NEW h \in Handlers, HandlerOK(h)',
           \A g \in Handlers \ {h} : pc'[g] = pc[g] /\ local'[g] = local[g]
    PROVE  IInv'
  <1>1. ASSUME NEW g \in Handlers PROVE HandlerOK(g)'
    BY <1>1, HandlerStable DEF IInv
  <1> QED
    BY <1>1 DEF IInv

\* Goto leaves the other handlers alone.
LEMMA GotoOthers ==
    ASSUME TypeOK, NEW h \in Handlers, NEW label, NEW l, Goto(h, label, l)
    PROVE  /\ pc'[h] = label /\ local'[h] = l
           /\ \A g \in Handlers \ {h} : pc'[g] = pc[g] /\ local'[g] = local[g]
  BY DEF TypeOK, Goto

\* Return leaves a handler where nothing is claimed of it but, in a worker, the
\* event it works for.
LEMMA ReturnOK ==
    ASSUME TypeOK, Grows, NEW h \in Handlers, HandlerOK(h), pc[h] # "idle", Return(h)
    PROVE  /\ HandlerOK(h)'
           /\ \A g \in Handlers \ {h} : pc'[g] = pc[g] /\ local'[g] = local[g]
  <1>1. /\ h \in Workers => pc'[h] = "finish" /\ local'[h].ref = local[h].ref
        /\ h \notin Workers => pc'[h] = "idle"
    BY GotoOthers, OnlyRefType DEF Return, TypeOK
  <1>2. h \in Workers => local[h].ref \in Refs /\ event'[local[h].ref] # "NONE"
    BY DEF HandlerOK, Grows
  <1>3. HandlerOK(h)'
    BY <1>1, <1>2 DEF HandlerOK
  <1>4. \A g \in Handlers \ {h} : pc'[g] = pc[g] /\ local'[g] = local[g]
    BY GotoOthers DEF Return
  <1> QED
    BY <1>3, <1>4

\* A step that leaves every row alone only has to answer for its handler.
LEMMA RowsUnchanged ==
    ASSUME IInv, NEW h \in Handlers, UNCHANGED rows, faults' \in 0..MaxFaults,
           pc' \in [Handlers -> Labels], local' \in [Handlers -> Locals],
           HandlerOK(h)',
           \A g \in Handlers \ {h} : pc'[g] = pc[g] /\ local'[g] = local[g]
    PROVE  IInv'
  <1>1. TypeOK'
    BY DEF rows, IInv, TypeOK
  <1>2. Grows
    BY DEF rows, Grows
  <1>3. LedgerOK' /\ PaidMeansChargedAndActivated' /\ NumbersPaidFor'
    BY DEF rows, IInv, LedgerOK, PaidMeansChargedAndActivated, NumbersPaidFor,
           HasRow, Opened, NumberPaid
  <1> QED
    BY <1>1, <1>2, <1>3, StepOfOne

-----------------------------------------------------------------------------
(* Steps that only read *)

\* Only a lateral move or a downgrade skips the invoice, and what it is about to
\* write is covered by what covers the current plan.
LEMMA SelectPlanStep ==
    ASSUME IInv, NEW h \in Handlers, NEW o \in Offers, SelectPlan(h, o)
    PROVE  IInv'
  <1> DEFINE label == IF o.amount > sub.amount THEN "find" ELSE "apply"
             l == [NoLocal EXCEPT !.offer = o]
  <1>1. TypeOK /\ sub \in Offers /\ Goto(h, label, l) /\ UNCHANGED rows /\ faults' \in 0..MaxFaults
    BY DEF IInv, TypeOK, SelectPlan, RequiresPayment
  <1>2. label \in Labels /\ l \in Locals /\ l.offer = o
    BY NoLocalType DEF Labels, Locals, NoLocal
  <1>3. pc' \in [Handlers -> Labels] /\ local' \in [Handlers -> Locals]
    BY <1>1, <1>2, GotoType DEF TypeOK
  <1>4. ~(o.amount > sub.amount) => NumberPaid(o.amount)'
    BY <1>1, OffersAssumption DEF IInv, NumbersPaidFor, NumberPaid, TypeOK, Transactions, rows
  <1>5. pc'[h] = label /\ local'[h] = l
    BY <1>1, GotoOthers
  <1>6. h \in Requests /\ h \notin Workers
    BY NamesAssumption DEF SelectPlan
  <1>7. HandlerOK(h)'
    BY <1>2, <1>4, <1>5, <1>6 DEF HandlerOK
  <1> QED
    BY <1>1, <1>3, <1>7, GotoOthers, RowsUnchanged

\* A pending invoice found is one of the ledger, for the plan selected.
LEMMA FindPendingStep ==
    ASSUME IInv, NEW h \in Handlers, FindPending(h)
    PROVE  IInv'
  <1>1. TypeOK /\ local[h] \in Locals /\ UNCHANGED rows /\ faults' \in 0..MaxFaults
        /\ (h \in Workers => local[h].ref \in Refs /\ event'[local[h].ref] # "NONE")
    BY DEF IInv, TypeOK, FindPending, HandlerOK, rows
  <1>2. CASE Goto(h, "count", local[h])
    <2>1. pc' \in [Handlers -> Labels] /\ local' \in [Handlers -> Locals]
      BY <1>1, <1>2, GotoType DEF TypeOK, Labels
    <2>2. pc'[h] = "count" /\ local'[h] = local[h]
      BY <1>1, <1>2, GotoOthers
    <2>3. HandlerOK(h)'
      BY <1>1, <2>2 DEF HandlerOK
    <2> QED
      BY <1>1, <1>2, <2>1, <2>3, GotoOthers, RowsUnchanged
  <1>3. ASSUME NEW i \in PendingFor(local[h].offer.plan),
               Goto(h, "refresh", [local[h] EXCEPT !.inv = i])
        PROVE  IInv'
    <2> DEFINE l == [local[h] EXCEPT !.inv = i]
    <2>1. i \in Invoices /\ invoice[i].status = "PENDING"
          /\ invoice[i].offer.plan = local[h].offer.plan
      BY DEF PendingFor
    <2>2. l \in Locals /\ l.inv = i /\ l.offer = local[h].offer /\ l.ref = local[h].ref
      BY <1>1, <2>1 DEF Locals
    <2>3. Goto(h, "refresh", l) /\ "refresh" \in Labels
      BY <1>3 DEF Labels
    <2>4. pc' \in [Handlers -> Labels] /\ local' \in [Handlers -> Locals]
      BY <1>1, <2>2, <2>3, GotoType DEF TypeOK
    <2>5. HasRow(i)' /\ invoice'[i].offer.plan = l.offer.plan
      BY <1>1, <2>1, <2>2 DEF HasRow, rows
    <2>6. pc'[h] = "refresh" /\ local'[h] = l
      BY <1>1, <2>3, GotoOthers
    <2>7. HandlerOK(h)'
      BY <1>1, <2>2, <2>5, <2>6 DEF HandlerOK
    <2> QED
      BY <1>1, <2>3, <2>4, <2>7, GotoOthers, RowsUnchanged
  <1> QED
    BY <1>2, <1>3 DEF FindPending

\* The count of a finite ledger is a natural number.
LEMMA CountInvoicesStep ==
    ASSUME IInv, NEW h \in Handlers, CountInvoices(h)
    PROVE  IInv'
  <1> DEFINE l == [local[h] EXCEPT !.count = Cardinality(Existing)]
  <1>1. TypeOK /\ local[h] \in Locals /\ UNCHANGED rows /\ faults' \in 0..MaxFaults
        /\ Goto(h, "create", l)
        /\ (h \in Workers => local[h].ref \in Refs /\ event'[local[h].ref] # "NONE")
    BY DEF IInv, TypeOK, CountInvoices, HandlerOK, rows
  <1>2. Cardinality(Existing) \in Nat
    BY NamesAssumption, FS_Subset, FS_CardinalityType DEF Existing
  <1>3. l \in Locals /\ l.ref = local[h].ref
    BY <1>1, <1>2 DEF Locals
  <1>4. pc' \in [Handlers -> Labels] /\ local' \in [Handlers -> Locals]
    BY <1>1, <1>3, GotoType DEF TypeOK, Labels
  <1>5. pc'[h] = "create" /\ local'[h] = l
    BY <1>1, GotoOthers
  <1>6. HandlerOK(h)'
    BY <1>1, <1>3, <1>5 DEF HandlerOK
  <1> QED
    BY <1>1, <1>4, <1>6, GotoOthers, RowsUnchanged

\* proceedToPayment starts from an invoice that exists.
LEMMA ProceedStep ==
    ASSUME IInv, NEW h \in Handlers, NEW i \in Invoices, Proceed(h, i)
    PROVE  IInv'
  <1> DEFINE l == [NoLocal EXCEPT !.inv = i, !.offer = invoice[i].offer]
  <1>1. TypeOK /\ UNCHANGED rows /\ faults' \in 0..MaxFaults /\ Goto(h, "initialize", l)
    BY DEF IInv, TypeOK, Proceed
  <1>2. l \in Locals /\ l.inv = i /\ l.offer = invoice[i].offer
    BY <1>1, NoLocalType DEF Locals, NoLocal, TypeOK, InvoiceRows
  <1>3. pc' \in [Handlers -> Labels] /\ local' \in [Handlers -> Locals]
    BY <1>1, <1>2, GotoType DEF TypeOK, Labels
  <1>4. HasRow(i)' /\ invoice'[i].offer.plan = l.offer.plan
    BY <1>1, <1>2 DEF Proceed, HasRow, rows
  <1>5. pc'[h] = "initialize" /\ local'[h] = l
    BY <1>1, GotoOthers
  <1>6. h \in Requests /\ h \notin Workers
    BY NamesAssumption DEF Proceed
  <1>7. HandlerOK(h)'
    BY <1>2, <1>4, <1>5, <1>6 DEF HandlerOK
  <1> QED
    BY <1>1, <1>3, <1>7, GotoOthers, RowsUnchanged

\* The callback knows the transaction exists, and whether it is paid.
LEMMA CallbackStep ==
    ASSUME IInv, NEW h \in Handlers, NEW r \in Refs, Callback(h, r)
    PROVE  IInv'
  <1> DEFINE l == [NoLocal EXCEPT !.ref = r, !.ok = (tx[r].state = "paid")]
  <1>1. TypeOK /\ UNCHANGED rows /\ faults' \in 0..MaxFaults /\ Goto(h, "lookup", l)
    BY DEF IInv, TypeOK, Callback
  <1>2. l \in Locals /\ l.ref = r /\ l.ok = (tx[r].state = "paid")
    BY <1>1, NoLocalType DEF Locals, NoLocal
  <1>3. pc' \in [Handlers -> Labels] /\ local' \in [Handlers -> Locals]
    BY <1>1, <1>2, GotoType DEF TypeOK, Labels
  <1>4. Opened(r)' /\ tx'[r] = tx[r]
    BY <1>1 DEF Callback, Opened, rows
  <1>5. pc'[h] = "lookup" /\ local'[h] = l
    BY <1>1, GotoOthers
  <1>6. h \notin Workers
    BY NamesAssumption DEF Callback
  <1>7. HandlerOK(h)'
    BY <1>2, <1>4, <1>5, <1>6 DEF HandlerOK
  <1> QED
    BY <1>1, <1>3, <1>7, GotoOthers, RowsUnchanged

\* A job exists only for a transaction that was paid.
LEMMA RunJobStep ==
    ASSUME IInv, NEW h \in Handlers, NEW r \in Refs, RunJob(h, r)
    PROVE  IInv'
  <1> DEFINE l == [NoLocal EXCEPT !.ref = r, !.ok = TRUE]
             label == IF event[r] = "PROCESSED" THEN "ack" ELSE "lookup"
  <1>1. TypeOK /\ UNCHANGED rows /\ faults' \in 0..MaxFaults /\ Goto(h, label, l)
    BY DEF IInv, TypeOK, RunJob
  <1>2. l \in Locals /\ l.ref = r /\ label \in Labels
    BY <1>1, NoLocalType DEF Locals, NoLocal, Labels
  <1>3. pc' \in [Handlers -> Labels] /\ local' \in [Handlers -> Locals]
    BY <1>1, <1>2, GotoType DEF TypeOK
  <1>4. tx[r].state = "paid" /\ event[r] # "NONE" /\ h \in Workers
    BY DEF RunJob, IInv, LedgerOK
  <1>5. Opened(r)' /\ tx'[r].state = "paid" /\ event'[r] # "NONE"
    BY <1>1, <1>4 DEF Opened, rows
  <1>6. pc'[h] = label /\ local'[h] = l
    BY <1>1, GotoOthers
  <1>7. HandlerOK(h)'
    BY <1>2, <1>4, <1>5, <1>6 DEF HandlerOK
  <1> QED
    BY <1>1, <1>3, <1>7, GotoOthers, RowsUnchanged

-----------------------------------------------------------------------------
(* confirmAndActivate *)

\* Deciding on a row that belongs to the handler's own transaction: what is then
\* activated is, in plan, amount and currency, that transaction.
LEMMA DecideOK ==
    ASSUME TypeOK, Grows, NEW h \in Handlers, HandlerOK(h), UNCHANGED <<tx, activations>>,
           pc[h] \in {"lookup", "lookupById", "attach"},
           NEW i \in Invoices, NEW row \in InvoiceRows, Decide(h, i, row),
           tx[local[h].ref].inv = i, row.offer.plan = tx[local[h].ref].offer.plan,
           HasRow(i)'
    PROVE  /\ HandlerOK(h)'
           /\ \A g \in Handlers \ {h} : pc'[g] = pc[g] /\ local'[g] = local[g]
  <1> DEFINE l == [local[h] EXCEPT !.inv = i, !.offer = row.offer]
             t == tx[local[h].ref]
  <1>1. local[h] \in Locals /\ local[h].ref \in Refs /\ t \in Transactions
        /\ (local[h].ok => t.state = "paid")
        /\ (h \in Workers => event'[local[h].ref] # "NONE")
    BY DEF TypeOK, HandlerOK, Opened, Grows
  <1>2. l.ref = local[h].ref /\ l.inv = i /\ l.offer = row.offer
    BY <1>1 DEF Locals
  <1>3. CASE Terminal(row)
    BY <1>3, ReturnOK DEF Decide
  <1>4. CASE ~Terminal(row) /\ ~Verified(h, row)
    <2>1. Goto(h, "markFailed", l)
      BY <1>4 DEF Decide
    <2>2. pc'[h] = "markFailed" /\ local'[h] = l
      BY <2>1, GotoOthers
    <2>3. HandlerOK(h)'
      BY <1>1, <1>2, <2>2 DEF HandlerOK
    <2> QED
      BY <2>1, <2>3, GotoOthers
  <1>5. CASE ~Terminal(row) /\ Verified(h, row)
    <2>1. Goto(h, "activate", l)
      BY <1>5 DEF Decide
    <2>2. pc'[h] = "activate" /\ local'[h] = l
      BY <2>1, GotoOthers
    <2>3. t.offer = row.offer
      BY <1>1, <1>5, OffersAssumption DEF Verified, Transactions, InvoiceRows
    <2>4. t = [state |-> "paid", inv |-> i, offer |-> row.offer]
      BY <1>1, <1>5, <2>3 DEF Verified, Transactions
    <2>5. HandlerOK(h)'
      BY <1>1, <1>2, <2>2, <2>4 DEF HandlerOK
    <2> QED
      BY <2>1, <2>5, GotoOthers
  <1> QED
    BY <1>3, <1>4, <1>5

\* A row found by reference belongs to the transaction of that reference.
LEMMA LookupByReferenceStep ==
    ASSUME IInv, NEW h \in Handlers, LookupByReference(h)
    PROVE  IInv'
  <1>1. TypeOK /\ local[h] \in Locals /\ UNCHANGED rows /\ faults' \in 0..MaxFaults
        /\ HandlerOK(h) /\ LedgerOK /\ pc[h] = "lookup"
    BY DEF IInv, TypeOK, LookupByReference
  <1>2. Grows
    BY <1>1 DEF Grows, rows
  <1>3. local[h].ref \in Refs /\ tx[local[h].ref].state # "none"
    BY <1>1 DEF HandlerOK, Opened
  <1>4. CASE Goto(h, "lookupById", local[h])
    <2>1. pc' \in [Handlers -> Labels] /\ local' \in [Handlers -> Locals]
      BY <1>1, <1>4, GotoType DEF TypeOK, Labels
    <2>2. pc'[h] = "lookupById" /\ local'[h] = local[h]
      BY <1>1, <1>4, GotoOthers
    <2>3. HandlerOK(h)'
      BY <1>1, <2>2 DEF HandlerOK, Opened, rows
    <2> QED
      BY <1>1, <1>4, <2>1, <2>3, GotoOthers, RowsUnchanged
  <1>5. ASSUME NEW i \in Existing, invoice[i].ref = local[h].ref, Decide(h, i, invoice[i])
        PROVE  IInv'
    <2>1. i \in Invoices /\ invoice[i] \in InvoiceRows /\ HasRow(i)'
      BY <1>1 DEF Existing, TypeOK, HasRow, rows
    <2>2. invoice[i].ref # NoRef
      BY <1>3, <1>5, NamesAssumption
    <2>3. tx[local[h].ref].inv = i
      BY <1>1, <1>5, <2>1, <2>2 DEF LedgerOK
    <2>4. invoice[i].offer.plan = tx[local[h].ref].offer.plan
      BY <1>1, <1>3, <2>3 DEF LedgerOK
    <2>5. UNCHANGED <<tx, activations>>
      BY <1>1 DEF rows
    <2>6. HandlerOK(h)' /\ \A g \in Handlers \ {h} : pc'[g] = pc[g] /\ local'[g] = local[g]
      BY <1>1, <1>2, <1>5, <2>1, <2>3, <2>4, <2>5, DecideOK
    <2>7. pc' \in [Handlers -> Labels] /\ local' \in [Handlers -> Locals]
      BY <1>1, <1>5, <2>1, DecideType DEF TypeOK
    <2> QED
      BY <1>1, <2>6, <2>7, RowsUnchanged
  <1> QED
    BY <1>4, <1>5 DEF LookupByReference

\* So does the row named by the transaction's own metadata.
LEMMA LookupByIdStep ==
    ASSUME IInv, NEW h \in Handlers, LookupById(h)
    PROVE  IInv'
  <1>1. TypeOK /\ local[h] \in Locals /\ UNCHANGED rows /\ faults' \in 0..MaxFaults
        /\ HandlerOK(h) /\ LedgerOK /\ pc[h] = "lookupById"
    BY DEF IInv, TypeOK, LookupById
  <1>2. Grows
    BY <1>1 DEF Grows, rows
  <1>3. local[h].ref \in Refs /\ tx[local[h].ref].state # "none"
    BY <1>1 DEF HandlerOK, Opened
  <1>4. PICK i \in Invoices : i = tx[local[h].ref].inv
    BY <1>1, <1>3 DEF LedgerOK, HasRow
  <1> DEFINE l == [local[h] EXCEPT !.inv = i]
  <1>5. /\ invoice[i] \in InvoiceRows /\ HasRow(i)'
        /\ invoice[i].offer.plan = tx[local[h].ref].offer.plan
    BY <1>1, <1>3, <1>4 DEF LedgerOK, HasRow, TypeOK, rows
  <1>6. CASE Goto(h, "attach", l)
    <2>1. l \in Locals /\ l.inv = i /\ l.ref = local[h].ref /\ l.ok = local[h].ok
      BY <1>1, <1>5 DEF Locals
    <2>2. pc' \in [Handlers -> Labels] /\ local' \in [Handlers -> Locals]
      BY <1>1, <1>6, <2>1, GotoType DEF TypeOK, Labels
    <2>3. pc'[h] = "attach" /\ local'[h] = l
      BY <1>1, <1>6, GotoOthers
    <2>4. UNCHANGED <<tx, event>>
      BY <1>1 DEF rows
    <2>5. HandlerOK(h)'
      BY <1>1, <1>4, <2>1, <2>3, <2>4 DEF HandlerOK, Opened
    <2> QED
      BY <1>1, <1>6, <2>2, <2>5, GotoOthers, RowsUnchanged
  <1>7. CASE Decide(h, i, invoice[i])
    <2>1. UNCHANGED <<tx, activations>>
      BY <1>1 DEF rows
    <2>2. HandlerOK(h)' /\ \A g \in Handlers \ {h} : pc'[g] = pc[g] /\ local'[g] = local[g]
      BY <1>1, <1>2, <1>4, <1>5, <1>7, <2>1, DecideOK
    <2>3. pc' \in [Handlers -> Labels] /\ local' \in [Handlers -> Locals]
      BY <1>1, <1>5, <1>7, DecideType DEF TypeOK
    <2> QED
      BY <1>1, <2>2, <2>3, RowsUnchanged
  <1> QED
    BY <1>6, <1>7, <1>4 DEF LookupById

\* Attaching a reference to its transaction's own invoice.
LEMMA AttachReferenceStep ==
    ASSUME IInv, NEW h \in Handlers, AttachReference(h)
    PROVE  IInv'
  <1>1. TypeOK /\ HandlerOK(h) /\ LedgerOK /\ local[h] \in Locals
        /\ UNCHANGED <<sub, tx, event, job, role, activations, faults>> /\ pc[h] = "attach"
    BY DEF IInv, TypeOK, AttachReference
  <1>2. local[h].ref \in Refs /\ tx[local[h].ref].state # "none"
        /\ tx[local[h].ref].inv = local[h].inv
    BY <1>1 DEF HandlerOK, Opened
  <1>3. PICK i \in Invoices : i = local[h].inv /\ HasRow(i)
                              /\ invoice[i].offer.plan = tx[local[h].ref].offer.plan
    BY <1>1, <1>2 DEF LedgerOK, HasRow
  <1>4. invoice' = [invoice EXCEPT ![i].ref = local[h].ref] /\ Decide(h, i, invoice'[i])
    BY <1>3 DEF AttachReference
  <1>5. invoice' \in [Invoices -> InvoiceRows]
    BY <1>1, <1>2, <1>4 DEF TypeOK, InvoiceRows
  <1>6. \A j \in Invoices : /\ invoice'[j].status = invoice[j].status
                            /\ invoice'[j].offer = invoice[j].offer
                            /\ j # i => invoice'[j].ref = invoice[j].ref
    BY <1>1, <1>4 DEF TypeOK, InvoiceRows
  <1>7. invoice'[i].ref = local[h].ref
    BY <1>1, <1>4 DEF TypeOK, InvoiceRows
  <1>8. Grows
    BY <1>1, <1>6 DEF Grows
  <1>9. HasRow(i)' /\ invoice'[i] \in InvoiceRows
        /\ invoice'[i].offer.plan = tx[local[h].ref].offer.plan
    BY <1>3, <1>5, <1>6 DEF HasRow
  <1>10. HandlerOK(h)' /\ \A g \in Handlers \ {h} : pc'[g] = pc[g] /\ local'[g] = local[g]
    BY <1>1, <1>2, <1>3, <1>4, <1>8, <1>9, DecideOK
  <1>11. TypeOK'
    <2>1. pc' \in [Handlers -> Labels] /\ local' \in [Handlers -> Locals]
      BY <1>1, <1>4, <1>9, DecideType DEF TypeOK
    <2> QED
      BY <1>1, <1>5, <2>1 DEF TypeOK
  <1>12. LedgerOK'
    BY <1>1, <1>2, <1>3, <1>6, <1>7 DEF LedgerOK, HasRow, Opened
  <1>13. PaidMeansChargedAndActivated' /\ NumbersPaidFor'
    BY <1>1, <1>6 DEF IInv, PaidMeansChargedAndActivated, NumbersPaidFor, NumberPaid
  <1> QED
    BY <1>8, <1>10, <1>11, <1>12, <1>13, StepOfOne

\* What is written to the subscription is a paid transaction's own offer.
LEMMA ActivateStep ==
    ASSUME IInv, NEW h \in Handlers, Activate(h)
    PROVE  IInv'
  <1>1. TypeOK /\ HandlerOK(h) /\ LedgerOK /\ local[h] \in Locals /\ pc[h] = "activate"
        /\ UNCHANGED <<invoice, tx, event, job, role, faults>> /\ Goto(h, "markPaid", local[h])
    BY DEF IInv, TypeOK, Activate
  <1>2. local[h].ref \in Refs /\ HasRow(local[h].inv)
        /\ tx[local[h].ref] = [state |-> "paid", inv |-> local[h].inv, offer |-> local[h].offer]
    BY <1>1 DEF HandlerOK
  <1>3. PICK i \in Invoices : i = local[h].inv
    BY <1>2 DEF HasRow
  <1>4. sub' = local[h].offer /\ sub' \in Offers
        /\ activations' = [activations EXCEPT ![i] = @ + 1]
    BY <1>1, <1>3 DEF Activate, Locals
  <1>5. activations' \in [Invoices -> Nat] /\ activations'[i] > 0
        /\ \A j \in Invoices : activations[j] > 0 => activations'[j] > 0
    BY <1>1, <1>4 DEF TypeOK
  <1>6. Grows
    BY <1>1, <1>5 DEF Grows
  <1>7. pc' \in [Handlers -> Labels] /\ local' \in [Handlers -> Locals]
    BY <1>1, GotoType DEF TypeOK, Labels
  <1>8. TypeOK'
    BY <1>1, <1>4, <1>5, <1>7 DEF TypeOK
  <1>9. LedgerOK'
    BY <1>1 DEF LedgerOK, HasRow, Opened
  <1>10. NumbersPaidFor'
    <2>1. tx'[local[h].ref].state = "paid" /\ tx'[local[h].ref].offer.amount >= sub'.amount
      BY <1>1, <1>2, <1>4, OffersAssumption
    <2> QED
      BY <1>2, <2>1 DEF NumbersPaidFor, NumberPaid
  <1>11. PaidMeansChargedAndActivated'
    BY <1>1, <1>5 DEF IInv, PaidMeansChargedAndActivated
  <1>12. pc'[h] = "markPaid" /\ local'[h] = local[h]
    BY <1>1, GotoOthers
  <1>13. HandlerOK(h)'
    <2>1. PaidFor(local[h].inv)' /\ HasRow(local[h].inv)' /\ activations'[local[h].inv] > 0
      BY <1>1, <1>2, <1>3, <1>5, <1>12 DEF PaidFor, HasRow
    <2>2. h \in Workers => event'[local[h].ref] # "NONE"
      BY <1>1 DEF HandlerOK
    <2> QED
      BY <1>2, <1>12, <2>1, <2>2 DEF HandlerOK
  <1> QED
    BY <1>1, <1>6, <1>8, <1>9, <1>10, <1>11, <1>13, GotoOthers, StepOfOne

-----------------------------------------------------------------------------
(* Steps that write one invoice *)

\* Rewriting rows without losing one, changing a plan or inventing a PAID status
\* or a reference keeps everything the ledger promises.
LEMMA InvoiceWrite ==
    ASSUME IInv, invoice' \in [Invoices -> InvoiceRows],
           UNCHANGED <<sub, tx, event, job, activations>>,
           \A j \in Invoices : invoice[j].status # "NONE" =>
               invoice'[j].status # "NONE" /\ invoice'[j].offer.plan = invoice[j].offer.plan,
           \A j \in Invoices : invoice'[j].ref # NoRef =>
               \/ invoice'[j].ref = invoice[j].ref
               \/ Opened(invoice'[j].ref) /\ tx[invoice'[j].ref].inv = j,
           \A j \in Invoices : invoice'[j].status = "PAID" =>
               \/ invoice[j].status = "PAID"
               \/ activations[j] > 0 /\ PaidFor(j)
    PROVE  Grows /\ LedgerOK' /\ PaidMeansChargedAndActivated' /\ NumbersPaidFor'
  <1>1. Grows
    BY DEF Grows
  <1>2. LedgerOK'
    <2>1. \A i : HasRow(i) => HasRow(i)'
      BY DEF HasRow
    <2>2. \A r \in Refs : tx'[r].state # "none" =>
              HasRow(tx[r].inv)' /\ invoice'[tx'[r].inv].offer.plan = tx'[r].offer.plan
      BY <2>1 DEF IInv, LedgerOK, HasRow
    <2>3. \A i \in Invoices : invoice'[i].ref # NoRef =>
              Opened(invoice[i].ref)' /\ tx'[invoice'[i].ref].inv = i
      BY DEF IInv, LedgerOK, Opened
    <2> QED
      BY <2>2, <2>3 DEF IInv, LedgerOK
  <1>3. PaidMeansChargedAndActivated'
    BY DEF IInv, PaidMeansChargedAndActivated, PaidFor
  <1>4. NumbersPaidFor'
    BY DEF IInv, NumbersPaidFor, NumberPaid
  <1> QED
    BY <1>1, <1>2, <1>3, <1>4

\* A write of invoices after which the handler returns.
LEMMA InvoiceWriteReturn ==
    ASSUME IInv, invoice' \in [Invoices -> InvoiceRows],
           Grows, LedgerOK', PaidMeansChargedAndActivated', NumbersPaidFor',
           UNCHANGED <<sub, tx, event, job, role, activations, faults>>,
           NEW h \in Handlers, pc[h] # "idle", Return(h)
    PROVE  IInv'
  <1>1. TypeOK'
    BY ReturnType DEF IInv, TypeOK
  <1>2. HandlerOK(h)' /\ \A g \in Handlers \ {h} : pc'[g] = pc[g] /\ local'[g] = local[g]
    BY ReturnOK DEF IInv
  <1> QED
    BY <1>1, <1>2, StepOfOne

\* A refresh changes the quote, never the plan, of a row that exists.
LEMMA RefreshQuoteStep ==
    ASSUME IInv, NEW h \in Handlers, RefreshQuote(h)
    PROVE  IInv'
  <1>1. TypeOK /\ HandlerOK(h) /\ local[h] \in Locals /\ pc[h] = "refresh" /\ Return(h)
        /\ UNCHANGED <<sub, tx, event, job, role, activations, faults>>
    BY DEF IInv, TypeOK, RefreshQuote
  <1>2. PICK i \in Invoices : i = local[h].inv /\ invoice[i].offer.plan = local[h].offer.plan
    BY <1>1 DEF HandlerOK, HasRow
  <1>3. invoice' = [invoice EXCEPT ![i].offer = local[h].offer]
    BY <1>2 DEF RefreshQuote
  <1>4. local[h].offer \in Offers
    BY <1>1 DEF Locals
  <1>5. invoice' \in [Invoices -> InvoiceRows]
    BY <1>1, <1>3, <1>4 DEF TypeOK, InvoiceRows
  <1>6. \A j \in Invoices : /\ invoice'[j].status = invoice[j].status
                            /\ invoice'[j].ref = invoice[j].ref
                            /\ invoice'[j].offer.plan = invoice[j].offer.plan
    BY <1>1, <1>2, <1>3 DEF TypeOK, InvoiceRows
  <1> QED
    BY <1>1, <1>5, <1>6, InvoiceWrite, InvoiceWriteReturn

\* A new row is PENDING, and no transaction or reference knew it before.
LEMMA CreateInvoiceStep ==
    ASSUME IInv, NEW h \in Handlers, CreateInvoice(h)
    PROVE  IInv'
  <1>1. TypeOK /\ local[h] \in Locals /\ pc[h] = "create" /\ Return(h)
        /\ UNCHANGED <<sub, tx, event, job, role, activations, faults>>
    BY DEF IInv, TypeOK, CreateInvoice
  <1>2. CASE UNCHANGED invoice
    <2>1. invoice' \in [Invoices -> InvoiceRows]
      BY <1>1, <1>2 DEF TypeOK
    <2> QED
      BY <1>1, <1>2, <2>1, InvoiceWrite, InvoiceWriteReturn
  <1>3. ASSUME NEW i \in Invoices \ Existing,
               invoice' = [invoice EXCEPT ![i] =
                   [status |-> "PENDING", offer |-> local[h].offer,
                    ref |-> NoRef, number |-> local[h].count + 1]]
        PROVE  IInv'
    <2>1. invoice[i].status = "NONE"
      BY DEF Existing
    <2>2. invoice' \in [Invoices -> InvoiceRows]
      BY <1>1, <1>3 DEF TypeOK, InvoiceRows, InvoiceStatus, Locals
    <2>3. /\ invoice'[i].status = "PENDING" /\ invoice'[i].ref = NoRef
          /\ \A j \in Invoices \ {i} : invoice'[j] = invoice[j]
      BY <1>1, <1>3 DEF TypeOK
    <2> QED
      BY <1>1, <2>1, <2>2, <2>3, InvoiceWrite, InvoiceWriteReturn
  <1> QED
    BY <1>2, <1>3 DEF CreateInvoice

\* The reference stored is that of the transaction opened for the row.
LEMMA AttachNewReferenceStep ==
    ASSUME IInv, NEW h \in Handlers, AttachNewReference(h)
    PROVE  IInv'
  <1>1. TypeOK /\ LedgerOK /\ HandlerOK(h) /\ local[h] \in Locals /\ Return(h)
        /\ pc[h] = "attachNew"
        /\ UNCHANGED <<sub, tx, event, job, role, activations, faults>>
    BY DEF IInv, TypeOK, AttachNewReference
  <1>2. Opened(local[h].ref) /\ tx[local[h].ref].inv = local[h].inv
    BY <1>1 DEF HandlerOK
  <1>3. PICK i \in Invoices : i = local[h].inv
    BY <1>1, <1>2 DEF LedgerOK, HasRow, Opened
  <1>4. invoice' = [invoice EXCEPT ![i].ref = local[h].ref]
    BY <1>3 DEF AttachNewReference
  <1>5. invoice' \in [Invoices -> InvoiceRows]
    BY <1>1, <1>4 DEF TypeOK, InvoiceRows, Locals
  <1>6. /\ \A j \in Invoices : /\ invoice'[j].status = invoice[j].status
                               /\ invoice'[j].offer = invoice[j].offer
                               /\ j # i => invoice'[j].ref = invoice[j].ref
        /\ invoice'[i].ref = local[h].ref
    BY <1>1, <1>4 DEF TypeOK, InvoiceRows
  <1> QED
    BY <1>1, <1>2, <1>3, <1>5, <1>6, InvoiceWrite, InvoiceWriteReturn

\* MarkPaid comes after the subscription was written for a paid transaction.
LEMMA MarkPaidStep ==
    ASSUME IInv, NEW h \in Handlers, MarkPaid(h)
    PROVE  IInv'
  <1>1. TypeOK /\ HandlerOK(h) /\ local[h] \in Locals /\ pc[h] = "markPaid"
        /\ Goto(h, "sync", local[h])
        /\ UNCHANGED <<sub, tx, event, job, role, activations, faults>>
    BY DEF IInv, TypeOK, MarkPaid
  <1>2. PICK i \in Invoices : i = local[h].inv /\ invoice[i].status # "NONE"
                              /\ PaidFor(i) /\ activations[i] > 0
    BY <1>1 DEF HandlerOK, HasRow
  <1>3. invoice' = [invoice EXCEPT ![i].status = "PAID"]
    BY <1>2 DEF MarkPaid
  <1>4. invoice' \in [Invoices -> InvoiceRows]
    BY <1>1, <1>3 DEF TypeOK, InvoiceRows, InvoiceStatus
  <1>5. /\ \A j \in Invoices : /\ invoice'[j].offer = invoice[j].offer
                               /\ invoice'[j].ref = invoice[j].ref
                               /\ j # i => invoice'[j].status = invoice[j].status
        /\ invoice'[i].status = "PAID"
    BY <1>1, <1>3 DEF TypeOK, InvoiceRows
  <1>6. Grows /\ LedgerOK' /\ PaidMeansChargedAndActivated' /\ NumbersPaidFor'
    BY <1>1, <1>2, <1>4, <1>5, InvoiceWrite
  <1>7. TypeOK'
    <2>1. pc' \in [Handlers -> Labels] /\ local' \in [Handlers -> Locals]
      BY <1>1, GotoType DEF TypeOK, Labels
    <2> QED
      BY <1>1, <1>4, <2>1 DEF TypeOK
  <1>8. pc'[h] = "sync" /\ local'[h] = local[h]
    BY <1>1, GotoOthers
  <1>9. HandlerOK(h)'
    BY <1>1, <1>8 DEF HandlerOK
  <1> QED
    BY <1>1, <1>6, <1>7, <1>9, GotoOthers, StepOfOne

\* MarkFailed keeps the row, its plan and its reference.
LEMMA MarkFailedStep ==
    ASSUME IInv, NEW h \in Handlers, MarkFailed(h)
    PROVE  IInv'
  <1>1. TypeOK /\ HandlerOK(h) /\ pc[h] = "markFailed" /\ Return(h)
        /\ UNCHANGED <<sub, tx, event, job, role, activations, faults>>
    BY DEF IInv, TypeOK, MarkFailed
  <1>2. PICK i \in Invoices : i = local[h].inv /\ invoice[i].status # "NONE"
    BY <1>1 DEF HandlerOK, HasRow
  <1>3. invoice' = [invoice EXCEPT ![i].status = "FAILED"]
    BY <1>2 DEF MarkFailed
  <1>4. invoice' \in [Invoices -> InvoiceRows]
    BY <1>1, <1>3 DEF TypeOK, InvoiceRows, InvoiceStatus
  <1>5. /\ \A j \in Invoices : /\ invoice'[j].offer = invoice[j].offer
                               /\ invoice'[j].ref = invoice[j].ref
                               /\ j # i => invoice'[j].status = invoice[j].status
        /\ invoice'[i].status = "FAILED"
    BY <1>1, <1>3 DEF TypeOK, InvoiceRows
  <1> QED
    BY <1>1, <1>2, <1>4, <1>5, InvoiceWrite, InvoiceWriteReturn

-----------------------------------------------------------------------------
(* Steps that write the subscription directly, the role, the event or the job *)

\* A direct move was covered when it was decided and still is.
LEMMA ApplyDirectlyStep ==
    ASSUME IInv, NEW h \in Handlers, ApplyDirectly(h)
    PROVE  IInv'
  <1>1. TypeOK /\ HandlerOK(h) /\ local[h] \in Locals /\ pc[h] = "apply"
        /\ sub' = local[h].offer /\ Goto(h, "sync", local[h])
        /\ UNCHANGED <<invoice, tx, event, job, role, activations, faults>>
    BY DEF IInv, TypeOK, ApplyDirectly
  <1>2. pc' \in [Handlers -> Labels] /\ local' \in [Handlers -> Locals]
    BY <1>1, GotoType DEF TypeOK, Labels
  <1>3. TypeOK'
    BY <1>1, <1>2 DEF TypeOK, Locals
  <1>4. Grows
    BY <1>1 DEF Grows
  <1>5. LedgerOK' /\ PaidMeansChargedAndActivated'
    BY <1>1 DEF IInv, LedgerOK, PaidMeansChargedAndActivated, HasRow, Opened
  <1>6. NumberPaid(local[h].offer.amount)
    BY <1>1 DEF HandlerOK
  <1>7. NumbersPaidFor'
    BY <1>1, <1>6 DEF NumbersPaidFor, NumberPaid
  <1>8. pc'[h] = "sync" /\ local'[h] = local[h]
    BY <1>1, GotoOthers
  <1>9. HandlerOK(h)'
    BY <1>1, <1>8 DEF HandlerOK
  <1> QED
    BY <1>1, <1>3, <1>4, <1>5, <1>7, <1>9, GotoOthers, StepOfOne

\* Reading the stored role.
LEMMA SyncRoleStep ==
    ASSUME IInv, NEW h \in Handlers, SyncRole(h)
    PROVE  IInv'
  <1> DEFINE l == [local[h] EXCEPT !.seen = role]
  <1>1. TypeOK /\ HandlerOK(h) /\ local[h] \in Locals /\ pc[h] = "sync"
        /\ UNCHANGED rows /\ faults' \in 0..MaxFaults /\ Goto(h, "resolve", l)
    BY DEF IInv, TypeOK, SyncRole
  <1>2. l \in Locals /\ l.ref = local[h].ref
    BY <1>1 DEF Locals, TypeOK
  <1>3. pc' \in [Handlers -> Labels] /\ local' \in [Handlers -> Locals]
    BY <1>1, <1>2, GotoType DEF TypeOK, Labels
  <1>4. pc'[h] = "resolve" /\ local'[h] = l
    BY <1>1, GotoOthers
  <1>5. HandlerOK(h)'
    BY <1>1, <1>2, <1>4 DEF HandlerOK, rows
  <1> QED
    BY <1>1, <1>3, <1>5, GotoOthers, RowsUnchanged

\* Reading the subscription for the role sync.
LEMMA ResolveRoleStep ==
    ASSUME IInv, NEW h \in Handlers, ResolveRole(h)
    PROVE  IInv'
  <1> DEFINE l == [local[h] EXCEPT !.offer = sub]
  <1>1. TypeOK /\ HandlerOK(h) /\ local[h] \in Locals /\ pc[h] = "resolve"
        /\ UNCHANGED rows /\ faults' \in 0..MaxFaults
    BY DEF IInv, TypeOK, ResolveRole
  <1>2. Grows
    BY <1>1 DEF Grows, rows
  <1>3. CASE Return(h)
    <2>1. pc' \in [Handlers -> Labels] /\ local' \in [Handlers -> Locals]
      BY <1>1, <1>3, ReturnType DEF TypeOK
    <2>2. HandlerOK(h)' /\ \A g \in Handlers \ {h} : pc'[g] = pc[g] /\ local'[g] = local[g]
      BY <1>1, <1>2, <1>3, ReturnOK
    <2> QED
      BY <1>1, <2>1, <2>2, RowsUnchanged
  <1>4. CASE Goto(h, "store", l)
    <2>1. l \in Locals /\ l.ref = local[h].ref
      BY <1>1 DEF Locals, TypeOK
    <2>2. pc' \in [Handlers -> Labels] /\ local' \in [Handlers -> Locals]
      BY <1>1, <1>4, <2>1, GotoType DEF TypeOK, Labels
    <2>3. pc'[h] = "store" /\ local'[h] = l
      BY <1>1, <1>4, GotoOthers
    <2>4. HandlerOK(h)'
      BY <1>1, <2>1, <2>3 DEF HandlerOK, rows
    <2> QED
      BY <1>1, <1>4, <2>2, <2>4, GotoOthers, RowsUnchanged
  <1> QED
    BY <1>3, <1>4 DEF ResolveRole

\* Steps that write none of the rows the invariant relates.
LEMMA OtherRows ==
    ASSUME IInv, UNCHANGED <<sub, invoice, tx, activations>>,
           \A r \in Refs : event[r] # "NONE" => event'[r] # "NONE",
           \A r \in Refs : event'[r] # "NONE" => event[r] # "NONE" \/ tx[r].state = "paid",
           \A r \in Refs : job'[r] # "none" => job[r] # "none" \/ event'[r] # "NONE"
    PROVE  Grows /\ LedgerOK' /\ PaidMeansChargedAndActivated' /\ NumbersPaidFor'
  <1>1. Grows
    BY DEF Grows
  <1>2. LedgerOK'
    BY DEF IInv, LedgerOK, HasRow, Opened
  <1>3. PaidMeansChargedAndActivated' /\ NumbersPaidFor'
    BY DEF IInv, PaidMeansChargedAndActivated, NumbersPaidFor, NumberPaid
  <1> QED
    BY <1>1, <1>2, <1>3

\* The role stored is that of some offer.
LEMMA StoreRoleStep ==
    ASSUME IInv, NEW h \in Handlers, StoreRole(h)
    PROVE  IInv'
  <1>1. TypeOK /\ HandlerOK(h) /\ local[h] \in Locals /\ pc[h] = "store" /\ Return(h)
        /\ role' = local[h].offer.plan
        /\ UNCHANGED <<sub, invoice, tx, event, job, activations, faults>>
    BY DEF IInv, TypeOK, StoreRole
  <1>2. role' \in Plans
    BY <1>1 DEF Plans, Locals
  <1>3. TypeOK'
    BY <1>1, <1>2, ReturnType DEF TypeOK
  <1>4. Grows /\ LedgerOK' /\ PaidMeansChargedAndActivated' /\ NumbersPaidFor'
    BY <1>1, OtherRows
  <1>5. HandlerOK(h)' /\ \A g \in Handlers \ {h} : pc'[g] = pc[g] /\ local'[g] = local[g]
    BY <1>1, <1>4, ReturnOK
  <1> QED
    BY <1>3, <1>4, <1>5, StepOfOne

\* Only a worker reaches the end of a job, and its event exists.
LEMMA MarkProcessedStep ==
    ASSUME IInv, NEW h \in Handlers, MarkProcessed(h)
    PROVE  IInv'
  <1>1. TypeOK /\ HandlerOK(h) /\ local[h] \in Locals /\ pc[h] = "finish"
        /\ event' = [event EXCEPT ![local[h].ref] = "PROCESSED"] /\ Goto(h, "ack", local[h])
        /\ UNCHANGED <<sub, invoice, tx, job, role, activations, faults>>
    BY DEF IInv, TypeOK, MarkProcessed
  <1>2. local[h].ref \in Refs /\ event[local[h].ref] # "NONE" /\ h \in Workers
    BY <1>1 DEF HandlerOK
  <1>3. /\ event' \in [Refs -> {"NONE", "PENDING", "PROCESSED", "FAILED"}]
        /\ event'[local[h].ref] = "PROCESSED"
        /\ \A r \in Refs \ {local[h].ref} : event'[r] = event[r]
    BY <1>1, <1>2 DEF TypeOK
  <1>4. pc' \in [Handlers -> Labels] /\ local' \in [Handlers -> Locals]
    BY <1>1, GotoType DEF TypeOK, Labels
  <1>5. TypeOK'
    BY <1>1, <1>3, <1>4 DEF TypeOK
  <1>6. Grows /\ LedgerOK' /\ PaidMeansChargedAndActivated' /\ NumbersPaidFor'
    BY <1>1, <1>2, <1>3, OtherRows
  <1>7. pc'[h] = "ack" /\ local'[h] = local[h]
    BY <1>1, GotoOthers
  <1>8. HandlerOK(h)'
    BY <1>2, <1>3, <1>7 DEF HandlerOK
  <1> QED
    BY <1>1, <1>5, <1>6, <1>8, GotoOthers, StepOfOne

\* An acknowledged job had an event.
LEMMA AcknowledgeStep ==
    ASSUME IInv, NEW h \in Handlers, Acknowledge(h)
    PROVE  IInv'
  <1>1. TypeOK /\ HandlerOK(h) /\ local[h] \in Locals /\ pc[h] = "ack"
        /\ job' = [job EXCEPT ![local[h].ref] = "done"] /\ Goto(h, "idle", NoLocal)
        /\ UNCHANGED <<sub, invoice, tx, event, role, activations, faults>>
    BY DEF IInv, TypeOK, Acknowledge
  <1>2. local[h].ref \in Refs /\ event[local[h].ref] # "NONE"
    BY <1>1 DEF HandlerOK
  <1>3. /\ job' \in [Refs -> {"none", "queued", "stalled", "done", "lost"}]
        /\ \A r \in Refs \ {local[h].ref} : job'[r] = job[r]
    BY <1>1, <1>2 DEF TypeOK
  <1>4. pc' \in [Handlers -> Labels] /\ local' \in [Handlers -> Locals]
    BY <1>1, NoLocalType, GotoType DEF TypeOK, Labels
  <1>5. TypeOK'
    BY <1>1, <1>3, <1>4 DEF TypeOK
  <1>6. Grows /\ LedgerOK' /\ PaidMeansChargedAndActivated' /\ NumbersPaidFor'
    BY <1>1, <1>2, <1>3, OtherRows
  <1>7. pc'[h] = "idle"
    BY <1>1, GotoOthers
  <1>8. HandlerOK(h)'
    BY <1>7 DEF HandlerOK
  <1> QED
    BY <1>1, <1>5, <1>6, <1>8, GotoOthers, StepOfOne

-----------------------------------------------------------------------------
(* Steps that open, pay or announce a transaction *)

\* Writing one transaction that was not paid before, leaving the handlers' other
\* knowledge alone.
LEMMA TransactionWrite ==
    ASSUME IInv, NEW r \in Refs, NEW t \in Transactions,
           tx' = [tx EXCEPT ![r] = t], t.state # "none", HasRow(t.inv),
           invoice[t.inv].offer.plan = t.offer.plan,
           tx[r].state # "none" => t.inv = tx[r].inv /\ t.offer = tx[r].offer,
           tx[r].state # "paid",
           UNCHANGED <<sub, invoice, event, job, activations>>
    PROVE  /\ tx' \in [Refs -> Transactions]
           /\ Grows /\ LedgerOK' /\ PaidMeansChargedAndActivated' /\ NumbersPaidFor'
  <1>1. TypeOK /\ LedgerOK
    BY DEF IInv
  <1>2. tx' \in [Refs -> Transactions] /\ tx'[r] = t
        /\ \A x \in Refs \ {r} : tx'[x] = tx[x]
    BY <1>1 DEF TypeOK
  <1>3. Grows
    BY <1>2 DEF Grows
  <1>4. LedgerOK'
    BY <1>1, <1>2 DEF LedgerOK, HasRow, Opened
  <1>5. NumbersPaidFor'
    BY <1>1, <1>3, NumberPaidGrows DEF IInv, NumbersPaidFor, NumberPaid
  <1>6. PaidMeansChargedAndActivated'
    BY <1>2, <1>3 DEF IInv, PaidMeansChargedAndActivated, Grows
  <1> QED
    BY <1>2, <1>3, <1>4, <1>5, <1>6

\* The transaction opened is for the invoice that was read, with its plan.
LEMMA InitializeTransactionStep ==
    ASSUME IInv, NEW h \in Handlers, InitializeTransaction(h)
    PROVE  IInv'
  <1>1. TypeOK /\ HandlerOK(h) /\ LedgerOK /\ local[h] \in Locals /\ pc[h] = "initialize"
        /\ UNCHANGED <<sub, invoice, event, job, role, activations, faults>>
    BY DEF IInv, TypeOK, InitializeTransaction
  <1>2. HasRow(local[h].inv) /\ invoice[local[h].inv].offer.plan = local[h].offer.plan
        /\ h \notin Workers
    BY <1>1, NamesAssumption DEF HandlerOK
  <1>3. CASE Return(h) /\ UNCHANGED tx
    <2>1. UNCHANGED rows /\ Grows /\ faults' \in 0..MaxFaults
      BY <1>1, <1>3 DEF rows, Grows, TypeOK
    <2>2. pc' \in [Handlers -> Labels] /\ local' \in [Handlers -> Locals]
      BY <1>1, <1>3, ReturnType DEF TypeOK
    <2>3. HandlerOK(h)' /\ \A g \in Handlers \ {h} : pc'[g] = pc[g] /\ local'[g] = local[g]
      BY <1>1, <1>3, <2>1, ReturnOK
    <2> QED
      BY <2>1, <2>2, <2>3, RowsUnchanged
  <1>4. ASSUME NEW r \in Refs, tx[r].state = "none",
               tx' = [tx EXCEPT ![r] = [state |-> "open", inv |-> local[h].inv,
                                        offer |-> local[h].offer]],
               Goto(h, "attachNew", [local[h] EXCEPT !.ref = r])
        PROVE  IInv'
    <2> DEFINE t == [state |-> "open", inv |-> local[h].inv, offer |-> local[h].offer]
               l == [local[h] EXCEPT !.ref = r]
    <2>1. t \in Transactions /\ l \in Locals /\ l.ref = r /\ l.inv = local[h].inv
      BY <1>1 DEF Transactions, Locals
    <2>2. t.state = "open" /\ t.inv = local[h].inv /\ t.offer = local[h].offer
      OBVIOUS
    <2> HIDE DEF t, l
    <2>3. tx' = [tx EXCEPT ![r] = t] /\ Goto(h, "attachNew", l)
      BY <1>4 DEF t, l
    <2>4. HasRow(t.inv) /\ invoice[t.inv].offer.plan = t.offer.plan
      BY <1>2, <2>2
    <2>5. /\ tx' \in [Refs -> Transactions]
          /\ Grows /\ LedgerOK' /\ PaidMeansChargedAndActivated' /\ NumbersPaidFor'
      BY <1>1, <1>4, <2>1, <2>2, <2>3, <2>4, TransactionWrite
    <2>6. pc' \in [Handlers -> Labels] /\ local' \in [Handlers -> Locals]
      BY <1>1, <2>1, <2>3, GotoType DEF TypeOK, Labels
    <2>7. TypeOK'
      BY <1>1, <2>5, <2>6 DEF TypeOK
    <2>8. pc'[h] = "attachNew" /\ local'[h] = l
      BY <1>1, <2>3, GotoOthers
    <2>9. tx'[r] = t
      BY <1>1, <2>3 DEF TypeOK
    <2>10. HandlerOK(h)'
      BY <1>2, <2>1, <2>2, <2>8, <2>9 DEF HandlerOK, Opened
    <2> QED
      BY <1>1, <2>3, <2>5, <2>7, <2>10, GotoOthers, StepOfOne
  <1> QED
    BY <1>3, <1>4 DEF InitializeTransaction

\* A step outside the handlers.
LEMMA StepOfNone ==
    ASSUME IInv, TypeOK', Grows, LedgerOK', PaidMeansChargedAndActivated',
           NumbersPaidFor', UNCHANGED <<pc, local>>
    PROVE  IInv'
  <1>1. ASSUME NEW g \in Handlers PROVE HandlerOK(g)'
    BY <1>1, HandlerStable DEF IInv
  <1> QED
    BY <1>1 DEF IInv

\* A payment turns one open transaction into a paid one.
LEMMA CustomerPaysStep ==
    ASSUME IInv, NEW r \in Refs, CustomerPays(r)
    PROVE  IInv'
  <1> DEFINE t == [tx[r] EXCEPT !.state = "paid"]
  <1>1. TypeOK /\ LedgerOK /\ tx[r] \in Transactions /\ tx[r].state = "open"
        /\ UNCHANGED <<sub, invoice, event, job, role, pc, local, activations, faults>>
    BY DEF IInv, TypeOK, CustomerPays
  <1>2. t \in Transactions /\ t.state = "paid" /\ t.inv = tx[r].inv /\ t.offer = tx[r].offer
    BY <1>1 DEF Transactions
  <1>3. tx' = [tx EXCEPT ![r] = t]
    BY DEF CustomerPays
  <1> HIDE DEF t
  <1>4. HasRow(t.inv) /\ invoice[t.inv].offer.plan = t.offer.plan
    BY <1>1, <1>2 DEF LedgerOK
  <1>5. /\ tx' \in [Refs -> Transactions]
        /\ Grows /\ LedgerOK' /\ PaidMeansChargedAndActivated' /\ NumbersPaidFor'
    BY <1>1, <1>2, <1>3, <1>4, TransactionWrite
  <1>6. TypeOK'
    BY <1>1, <1>5 DEF TypeOK
  <1> QED
    BY <1>1, <1>5, <1>6, StepOfNone

\* An event is recorded, and a job queued or lost, for a paid transaction only.
LEMMA ReceiveWebhookStep ==
    ASSUME IInv, NEW r \in Refs, ReceiveWebhook(r)
    PROVE  IInv'
  <1>1. TypeOK /\ tx[r].state = "paid" /\ event' = [event EXCEPT ![r] = "PENDING"]
        /\ UNCHANGED <<sub, invoice, tx, role, pc, local, activations>>
    BY DEF IInv, ReceiveWebhook
  <1>2. faults' \in 0..MaxFaults
    BY BoundsAssumption DEF IInv, TypeOK, ReceiveWebhook
  <1>3. PICK j \in {"queued", "lost"} : job' = [job EXCEPT ![r] = j]
    BY DEF ReceiveWebhook
  <1>4. /\ event' \in [Refs -> {"NONE", "PENDING", "PROCESSED", "FAILED"}]
        /\ event'[r] = "PENDING" /\ \A x \in Refs \ {r} : event'[x] = event[x]
    BY <1>1 DEF TypeOK
  <1>5. /\ job' \in [Refs -> {"none", "queued", "stalled", "done", "lost"}]
        /\ \A x \in Refs \ {r} : job'[x] = job[x]
    BY <1>1, <1>3 DEF TypeOK
  <1>6. TypeOK'
    BY <1>1, <1>2, <1>4, <1>5 DEF TypeOK
  <1>7. Grows /\ LedgerOK' /\ PaidMeansChargedAndActivated' /\ NumbersPaidFor'
    BY <1>1, <1>4, <1>5, OtherRows
  <1> QED
    BY <1>1, <1>6, <1>7, StepOfNone

-----------------------------------------------------------------------------
(* Faults *)

\* A caught exception closes the event of the handler's own job, or nothing.
LEMMA FaultStep ==
    ASSUME IInv, NEW h \in Handlers, Fault(h)
    PROVE  IInv'
  <1>1. TypeOK /\ HandlerOK(h) /\ local[h] \in Locals /\ pc[h] \notin {"idle", "ack"}
        /\ UNCHANGED <<sub, invoice, tx, job, role, activations>>
    BY DEF IInv, TypeOK, Fault
  <1>2. faults' \in 0..MaxFaults
    BY BoundsAssumption DEF IInv, TypeOK, Fault
  <1>3. CASE /\ h \in Workers
             /\ event' = [event EXCEPT ![local[h].ref] = "FAILED"]
             /\ Goto(h, "ack", OnlyRef(h))
    <2>1. local[h].ref \in Refs /\ event[local[h].ref] # "NONE"
      BY <1>1, <1>3 DEF HandlerOK
    <2>2. /\ event' \in [Refs -> {"NONE", "PENDING", "PROCESSED", "FAILED"}]
          /\ event'[local[h].ref] = "FAILED"
          /\ \A r \in Refs \ {local[h].ref} : event'[r] = event[r]
      BY <1>1, <1>3, <2>1 DEF TypeOK
    <2>3. pc' \in [Handlers -> Labels] /\ local' \in [Handlers -> Locals]
      BY <1>1, <1>3, OnlyRefType, GotoType DEF TypeOK, Labels
    <2>4. TypeOK'
      BY <1>1, <1>2, <2>2, <2>3 DEF TypeOK
    <2>5. Grows /\ LedgerOK' /\ PaidMeansChargedAndActivated' /\ NumbersPaidFor'
      BY <1>1, <2>1, <2>2, OtherRows
    <2>6. pc'[h] = "ack" /\ local'[h].ref = local[h].ref
      BY <1>1, <1>3, OnlyRefType, GotoOthers DEF TypeOK
    <2>7. HandlerOK(h)'
      BY <1>3, <2>1, <2>2, <2>6 DEF HandlerOK
    <2> QED
      BY <1>1, <1>3, <2>4, <2>5, <2>7, GotoOthers, StepOfOne
  <1>4. CASE Goto(h, "idle", NoLocal) /\ UNCHANGED event
    <2>1. pc' \in [Handlers -> Labels] /\ local' \in [Handlers -> Locals]
      BY <1>1, <1>4, NoLocalType, GotoType DEF TypeOK, Labels
    <2>2. UNCHANGED rows
      BY <1>1, <1>4 DEF rows
    <2>3. pc'[h] = "idle"
      BY <1>1, <1>4, GotoOthers
    <2>4. HandlerOK(h)'
      BY <2>3 DEF HandlerOK
    <2> QED
      BY <1>1, <1>2, <1>4, <2>1, <2>2, <2>4, GotoOthers, RowsUnchanged
  <1> QED
    BY <1>3, <1>4 DEF Fault

\* A crash forgets locals and touches nothing but jobs.
LEMMA CrashStep ==
    ASSUME IInv, NEW dead \in SUBSET Running, Crash(dead)
    PROVE  IInv'
  <1>1. TypeOK /\ UNCHANGED <<sub, invoice, tx, event, role, activations>>
        /\ pc' = [h \in Handlers |-> IF h \in dead THEN "idle" ELSE pc[h]]
        /\ local' = [h \in Handlers |-> IF h \in dead THEN NoLocal ELSE local[h]]
    BY DEF IInv, Crash
  <1>2. faults' \in 0..MaxFaults
    BY BoundsAssumption DEF IInv, TypeOK, Crash
  <1>3. pc' \in [Handlers -> Labels] /\ local' \in [Handlers -> Locals]
    BY <1>1, NoLocalType DEF TypeOK, Labels
  <1>4. job' \in [Refs -> {"none", "queued", "stalled", "done", "lost"}]
    BY <1>1 DEF Crash, TypeOK
  <1>5. \A r \in Refs : job'[r] # "none" => job[r] # "none" \/ event'[r] # "NONE"
    <2> SUFFICES ASSUME NEW r \in Refs,
                        NEW w \in dead \cap Workers, pc[w] # "idle", local[w].ref = r
                 PROVE  event'[r] # "NONE"
      BY <1>1 DEF Crash
    <2>1. HandlerOK(w)
      BY DEF IInv, Handlers
    <2> QED
      BY <1>1, <2>1 DEF HandlerOK
  <1>6. TypeOK'
    BY <1>1, <1>2, <1>3, <1>4 DEF TypeOK
  <1>7. Grows /\ LedgerOK' /\ PaidMeansChargedAndActivated' /\ NumbersPaidFor'
    BY <1>1, <1>5, OtherRows
  <1>8. ASSUME NEW g \in Handlers PROVE HandlerOK(g)'
    <2>1. CASE g \in dead
      <3>1. pc'[g] = "idle"
        BY <1>1, <2>1
      <3> QED
        BY <3>1 DEF HandlerOK
    <2>2. CASE g \notin dead
      <3>1. pc'[g] = pc[g] /\ local'[g] = local[g]
        BY <1>1, <2>2
      <3> QED
        BY <1>6, <1>7, <3>1, HandlerStable DEF IInv
    <2> QED
      BY <2>1, <2>2
  <1> QED
    BY <1>6, <1>7, <1>8 DEF IInv

-----------------------------------------------------------------------------
(* The theorems *)

\* Everything holds when the system starts.
LEMMA InitIInv == Init => IInv
  <1> SUFFICES ASSUME Init PROVE IInv
    OBVIOUS
  <1>1. NoRow \in InvoiceRows /\ NoTx \in Transactions /\ NoLocal \in Locals
    BY OffersAssumption, NoLocalType DEF NoRow, NoTx, InvoiceRows, Transactions, InvoiceStatus
  <1>2. TypeOK
    BY <1>1, OffersAssumption, BoundsAssumption DEF Init, TypeOK, Plans, Labels
  <1>3. LedgerOK
    BY DEF Init, LedgerOK, NoRow, NoTx
  <1>4. \A h \in Handlers : HandlerOK(h)
    BY DEF Init, HandlerOK
  <1>5. NumbersPaidFor
    BY OffersAssumption DEF Init, NumbersPaidFor, NumberPaid
  <1>6. PaidMeansChargedAndActivated
    BY DEF Init, PaidMeansChargedAndActivated, NoRow
  <1> QED
    BY <1>2, <1>3, <1>4, <1>5, <1>6 DEF IInv

\* And every step keeps it.
LEMMA NextIInv == IInv /\ [Next]_vars => IInv'
  <1> SUFFICES ASSUME IInv, [Next]_vars PROVE IInv'
    OBVIOUS
  <1>1. ASSUME NEW h \in Handlers, Continue(h) PROVE IInv'
    BY <1>1, ApplyDirectlyStep, FindPendingStep, RefreshQuoteStep, CountInvoicesStep,
       CreateInvoiceStep, InitializeTransactionStep, AttachNewReferenceStep,
       LookupByReferenceStep, LookupByIdStep, AttachReferenceStep, ActivateStep,
       MarkPaidStep, MarkFailedStep, SyncRoleStep, ResolveRoleStep, StoreRoleStep,
       MarkProcessedStep, AcknowledgeStep DEF Continue
  <1>2. ASSUME NEW h \in Handlers, Fault(h) PROVE IInv'
    BY <1>2, FaultStep
  <1>3. ASSUME NEW h \in Handlers, NEW o \in Offers, SelectPlan(h, o) PROVE IInv'
    BY <1>3, SelectPlanStep
  <1>4. ASSUME NEW h \in Handlers, NEW i \in Invoices, Proceed(h, i) PROVE IInv'
    BY <1>4, ProceedStep
  <1>5. ASSUME NEW h \in Handlers, NEW r \in Refs, Callback(h, r) \/ RunJob(h, r) PROVE IInv'
    BY <1>5, CallbackStep, RunJobStep
  <1>6. ASSUME NEW r \in Refs, CustomerPays(r) \/ ReceiveWebhook(r) PROVE IInv'
    BY <1>6, CustomerPaysStep, ReceiveWebhookStep
  <1>7. ASSUME NEW dead \in SUBSET Running, Crash(dead) PROVE IInv'
    BY <1>7, CrashStep
  <1>8. CASE UNCHANGED vars
    <2>1. TypeOK' /\ Grows /\ UNCHANGED <<pc, local>>
      BY <1>8 DEF vars, IInv, TypeOK, Grows
    <2>2. LedgerOK' /\ PaidMeansChargedAndActivated' /\ NumbersPaidFor'
      BY <1>8 DEF vars, IInv, LedgerOK, PaidMeansChargedAndActivated, NumbersPaidFor,
             HasRow, Opened, NumberPaid
    <2> QED
      BY <2>1, <2>2, StepOfNone
  <1> QED
    BY <1>1, <1>2, <1>3, <1>4, <1>5, <1>6, <1>7, <1>8 DEF Next

\* The inductive invariant holds in every reachable state.
THEOREM Invariance == Spec => []IInv
  BY InitIInv, NextIInv, PTL DEF Spec

\* Types are kept, whatever the sets of invoices, references and handlers.
THEOREM TypeCorrect == Spec => []TypeOK
  <1>1. IInv => TypeOK
    BY DEF IInv
  <1> QED
    BY Invariance, <1>1, PTL

\* While all that was ever paid is in the subscription's currency, the subscription costs no
\* more than one of those payments, however handlers interleave, fail and crash and in
\* however many currencies plans are offered.
THEOREM CustomersOfOneCurrencyPay == Spec => []PaidInOneCurrency
  <1>1. IInv => PaidInOneCurrency
    BY DEF IInv, NumbersPaidFor, NumberPaid, PaidInOneCurrency, EntitlementPaidFor, PaidUpTo
  <1> QED
    BY Invariance, <1>1, PTL

\* Where numbers are of one currency, a number paid is a payment that covers the offer.
LEMMA OneCurrencyPays ==
    ASSUME IInv, OneCurrency, NEW o \in Offers, NumberPaid(o.amount)
    PROVE  PaidUpTo(o)
  <1>1. ASSUME NEW r \in Refs PROVE tx[r].offer.currency = o.currency
    BY DEF IInv, TypeOK, Transactions, OneCurrency
  <1> QED
    BY <1>1 DEF NumberPaid, PaidUpTo

\* With all plans priced in one currency the workspace is never on an offer dearer than
\* something its customer paid.  With two the code breaks this.
THEOREM EntitlementIsPaidFor ==
    ASSUME OneCurrency
    PROVE  Spec => []EntitlementPaidFor
  <1>1. IInv => EntitlementPaidFor
    BY OneCurrencyPays DEF IInv, TypeOK, NumbersPaidFor, EntitlementPaidFor
  <1> QED
    BY Invariance, <1>1, PTL

\* A subscription is only ever written from an invoice with the plan, amount and
\* currency of a paid transaction of that invoice.
THEOREM OnlyChargedOffersActivate == Spec => []ActivatesWhatWasCharged
  <1>1. IInv => ActivatesWhatWasCharged
    BY DEF IInv, HandlerOK, ActivatesWhatWasCharged
  <1> QED
    BY Invariance, <1>1, PTL

\* A PAID invoice has been charged for and its subscription written.
THEOREM ReceiptsAreHonest == Spec => []PaidMeansChargedAndActivated
  <1>1. IInv => PaidMeansChargedAndActivated
    BY DEF IInv
  <1> QED
    BY Invariance, <1>1, PTL

-----------------------------------------------------------------------------
(* Refinement *)

PaidRefs == {r \in Refs : tx[r].state = "paid"}
Charges == {tx[r].offer : r \in PaidRefs}

\* A payment is a charge of the promise.
LEMMA PaymentIsCharge ==
    ASSUME IInv, NEW r \in Refs, CustomerPays(r)
    PROVE  \E o \in Offers : Promise!Charge(o)
  <1>1. tx \in [Refs -> Transactions] /\ tx[r] \in Transactions
    BY DEF IInv, TypeOK
  <1>2. tx' = [tx EXCEPT ![r].state = "paid"] /\ UNCHANGED sub
    BY DEF CustomerPays
  <1>3. /\ tx'[r].state = "paid" /\ tx'[r].offer = tx[r].offer /\ tx[r].offer \in Offers
        /\ \A x \in Refs \ {r} : tx'[x] = tx[x]
    BY <1>1, <1>2 DEF Transactions
  <1>4. PaidRefs' = PaidRefs \cup {r}
    BY <1>3 DEF PaidRefs, CustomerPays
  <1>5. Charges' = Charges \cup {tx[r].offer}
    BY <1>3, <1>4 DEF Charges, PaidRefs
  <1> QED
    BY <1>2, <1>3, <1>5 DEF Promise!Charge, Charges, PaidRefs

\* A write of the subscription is a grant, of an offer a charge covers.
LEMMA WriteIsGrant ==
    ASSUME OneCurrency, IInv, IInv', UNCHANGED tx
    PROVE  \E o \in Offers : Promise!Grant(o)
  <1>1. sub' \in Offers /\ NumberPaid(sub'.amount)
    BY DEF IInv, TypeOK, NumbersPaidFor, NumberPaid
  <1>2. Promise!Covered(sub')
    BY <1>1, OneCurrencyPays DEF Promise!Covered, PaidUpTo
  <1> QED
    BY <1>1, <1>2 DEF Promise!Grant

\* Opening a transaction charges nobody.
LEMMA OpeningIsNoCharge ==
    ASSUME IInv, NEW h \in Handlers, InitializeTransaction(h)
    PROVE  UNCHANGED <<Charges, sub>>
  <1>1. tx \in [Refs -> Transactions] /\ UNCHANGED sub
    BY DEF IInv, TypeOK, InitializeTransaction
  <1>2. CASE UNCHANGED tx
    BY <1>1, <1>2 DEF Charges, PaidRefs
  <1>3. ASSUME NEW r \in Refs, tx[r].state = "none",
               tx' = [tx EXCEPT ![r] = [state |-> "open", inv |-> local[h].inv,
                                        offer |-> local[h].offer]]
        PROVE  UNCHANGED <<Charges, sub>>
    <2>1. tx'[r].state = "open" /\ \A x \in Refs \ {r} : tx'[x] = tx[x]
      BY <1>1, <1>3
    <2>2. PaidRefs' = PaidRefs
      BY <1>3, <2>1 DEF PaidRefs
    <2>3. \A x \in PaidRefs : tx'[x] = tx[x]
      BY <1>3, <2>1 DEF PaidRefs
    <2> QED
      BY <1>1, <2>2, <2>3 DEF Charges
  <1> QED
    BY <1>2, <1>3 DEF InitializeTransaction

\* With all plans priced in one currency, Checkout implements the billing promise: every
\* step of every handler is a charge, a covered grant, or invisible to it.
THEOREM CheckoutKeepsPromise ==
    ASSUME OneCurrency
    PROVE  Spec => KeepsPromise
  <1>1. Init => Promise!Init
    <2> SUFFICES ASSUME Init PROVE Promise!Init
      OBVIOUS
    <2>1. PaidRefs = {}
      BY DEF Init, PaidRefs, NoTx
    <2> QED
      BY <2>1 DEF Init, Promise!Init, PaidRefs
  <1>2. IInv /\ IInv' /\ [Next]_vars => [Promise!Next]_(Promise!vars)
    <2> SUFFICES ASSUME IInv, IInv', [Next]_vars
                 PROVE  Promise!Next \/ UNCHANGED <<Charges, sub>>
      BY DEF Promise!vars, Charges, PaidRefs
    <2>1. ASSUME NEW r \in Refs, CustomerPays(r) PROVE Promise!Next
      BY <2>1, PaymentIsCharge DEF Promise!Next
    <2>2. ASSUME NEW h \in Handlers, InitializeTransaction(h) PROVE UNCHANGED <<Charges, sub>>
      BY <2>2, OpeningIsNoCharge
    <2>3. CASE UNCHANGED tx
      BY <2>3, WriteIsGrant DEF Promise!Next
    <2>4. ASSUME NEW h \in Handlers, Continue(h) PROVE UNCHANGED tx \/ InitializeTransaction(h)
      BY <2>4 DEF Continue, ApplyDirectly, FindPending, RefreshQuote, CountInvoices,
                  CreateInvoice, AttachNewReference, LookupByReference, LookupById,
                  AttachReference, Activate, MarkPaid, MarkFailed, SyncRole, ResolveRole,
                  StoreRole, MarkProcessed, Acknowledge, rows
    <2>5. UNCHANGED tx \/ (\E r \in Refs : CustomerPays(r))
          \/ (\E h \in Handlers : InitializeTransaction(h))
      BY <2>4 DEF Next, Fault, SelectPlan, Proceed, Callback, RunJob, ReceiveWebhook,
                  Crash, rows, vars
    <2> QED
      BY <2>1, <2>2, <2>3, <2>5
  <1> QED
    BY <1>1, <1>2, Invariance, PTL DEF Spec, KeepsPromise, Promise!Spec

-----------------------------------------------------------------------------
(* A processed webhook is a settled one *)

\* Where a job can be, which invoice it works on, and from where on that invoice
\* is settled.
WorkerOK(h) ==
    LET i == tx[local[h].ref].inv IN
    h \in Workers =>
      /\ pc[h] \in {"idle", "lookup", "lookupById", "attach", "activate", "markPaid",
                    "markFailed", "sync", "resolve", "store", "finish", "ack"}
      /\ pc[h] \in {"activate", "markPaid", "markFailed"} => i = local[h].inv
      /\ pc[h] \in {"sync", "resolve", "store", "finish"} => Terminal(invoice[i])

Settled == ProcessedMeansSettled /\ \A h \in Handlers : WorkerOK(h)

\* No step takes an invoice out of PAID and FAILED, or gives the transaction of
\* a recorded event to another invoice.
Final ==
    /\ \A i \in Invoices : Terminal(invoice[i]) => Terminal(invoice'[i])
    /\ \A r \in Refs : event[r] # "NONE" => tx'[r].inv = tx[r].inv

\* The writes of an invoice other than its creation leave its status or settle it.
LEMMA WriteIsFinal ==
    ASSUME IInv, NEW h \in Handlers, Continue(h)
    PROVE  \A i \in Invoices : Terminal(invoice[i]) => Terminal(invoice'[i])
  <1>1. invoice \in [Invoices -> InvoiceRows]
    BY DEF IInv, TypeOK
  <1>2. CASE UNCHANGED invoice
    BY <1>2
  <1>3. CASE RefreshQuote(h) \/ AttachNewReference(h) \/ AttachReference(h)
    BY <1>1, <1>3 DEF RefreshQuote, AttachNewReference, AttachReference, Terminal, InvoiceRows
  <1>4. CASE MarkPaid(h) \/ MarkFailed(h)
    BY <1>1, <1>4 DEF MarkPaid, MarkFailed, Terminal, InvoiceRows
  <1>5. CASE CreateInvoice(h)
    <2>1. ASSUME NEW i \in Invoices \ Existing, NEW row,
                 invoice' = [invoice EXCEPT ![i] = row]
          PROVE  \A j \in Invoices : Terminal(invoice[j]) => invoice'[j] = invoice[j]
      BY <1>1, <2>1 DEF Existing, Terminal
    <2> QED
      BY <1>5, <2>1 DEF CreateInvoice
  <1> QED
    BY <1>2, <1>3, <1>4, <1>5 DEF Continue, ApplyDirectly, FindPending, CountInvoices,
       InitializeTransaction, LookupByReference, LookupById, Activate, SyncRole, ResolveRole,
       StoreRole, MarkProcessed, Acknowledge, rows

\* Only a new transaction changes which invoice a reference is for, and events
\* are of paid ones.
LEMMA PaidKeepsInvoice ==
    ASSUME IInv, [Next]_vars, NEW r \in Refs, event[r] # "NONE"
    PROVE  tx'[r].inv = tx[r].inv
  <1>1. tx \in [Refs -> Transactions] /\ tx[r].state = "paid"
    BY DEF IInv, TypeOK, LedgerOK
  <1>2. ASSUME NEW h \in Handlers, InitializeTransaction(h) PROVE tx'[r].inv = tx[r].inv
    BY <1>1, <1>2 DEF InitializeTransaction
  <1>3. ASSUME NEW x \in Refs, CustomerPays(x) PROVE tx'[r].inv = tx[r].inv
    BY <1>1, <1>3 DEF CustomerPays, Transactions
  <1>4. ASSUME NEW h \in Handlers, Continue(h) PROVE UNCHANGED tx \/ InitializeTransaction(h)
    BY <1>4 DEF Continue, ApplyDirectly, FindPending, RefreshQuote, CountInvoices,
                CreateInvoice, AttachNewReference, LookupByReference, LookupById,
                AttachReference, Activate, MarkPaid, MarkFailed, SyncRole, ResolveRole,
                StoreRole, MarkProcessed, Acknowledge, rows
  <1>5. UNCHANGED tx \/ (\E x \in Refs : CustomerPays(x))
        \/ (\E h \in Handlers : InitializeTransaction(h))
    BY <1>4 DEF Next, Fault, SelectPlan, Proceed, Callback, RunJob, ReceiveWebhook,
                Crash, rows, vars
  <1> QED
    BY <1>2, <1>3, <1>5

\* Together: what is settled stays so, in every step.
LEMMA NextIsFinal ==
    ASSUME IInv, [Next]_vars
    PROVE  Final
  <1>1. ASSUME NEW h \in Handlers, Continue(h)
        PROVE  \A i \in Invoices : Terminal(invoice[i]) => Terminal(invoice'[i])
    BY <1>1, WriteIsFinal
  <1>2. UNCHANGED invoice \/ \E h \in Handlers : Continue(h)
    BY DEF Next, Fault, SelectPlan, Proceed, Callback, RunJob, CustomerPays, ReceiveWebhook,
           Crash, rows, vars
  <1>3. \A i \in Invoices : Terminal(invoice[i]) => Terminal(invoice'[i])
    BY <1>1, <1>2
  <1> QED
    BY <1>3, PaidKeepsInvoice DEF Final

\* The invoice a running job works on exists.
LEMMA JobHasInvoice ==
    ASSUME IInv, NEW h \in Handlers, h \in Workers, pc[h] # "idle"
    PROVE  /\ local[h].ref \in Refs /\ event[local[h].ref] # "NONE"
           /\ HasRow(tx[local[h].ref].inv)
  BY DEF IInv, LedgerOK, HandlerOK

\* A job that does not move keeps what is known of it.
LEMMA WorkerStable ==
    ASSUME IInv, Final, NEW g \in Handlers, WorkerOK(g),
           pc'[g] = pc[g], local'[g] = local[g]
    PROVE  WorkerOK(g)'
  <1>1. CASE g \in Workers /\ pc[g] # "idle"
    <2>1. tx'[local[g].ref].inv = tx[local[g].ref].inv /\ tx[local[g].ref].inv \in Invoices
      BY <1>1, JobHasInvoice DEF Final, HasRow
    <2> QED
      BY <2>1 DEF Final, WorkerOK
  <1> QED
    BY <1>1 DEF WorkerOK

\* A job that returns does so with its invoice settled.
LEMMA ReturnSettles ==
    ASSUME TypeOK, NEW h \in Handlers, Return(h), UNCHANGED tx,
           h \in Workers => Terminal(invoice'[tx[local[h].ref].inv])
    PROVE  WorkerOK(h)'
  <1>1. h \in Workers => pc'[h] = "finish" /\ local'[h].ref = local[h].ref
    BY GotoOthers, OnlyRefType DEF Return, TypeOK
  <1> QED
    BY <1>1 DEF WorkerOK

\* Deciding on the row of the job's own invoice.
LEMMA DecideSettles ==
    ASSUME TypeOK, NEW h \in Handlers, NEW i \in Invoices, UNCHANGED tx,
           h \in Workers => tx[local[h].ref].inv = i, Decide(h, i, invoice'[i])
    PROVE  WorkerOK(h)'
  <1>1. CASE Terminal(invoice'[i])
    BY <1>1, ReturnSettles DEF Decide
  <1>2. CASE ~Terminal(invoice'[i])
    <2> DEFINE l == [local[h] EXCEPT !.inv = i, !.offer = invoice'[i].offer]
    <2>1. PICK label \in {"activate", "markFailed"} : Goto(h, label, l)
      BY <1>2 DEF Decide
    <2>2. l.ref = local[h].ref /\ l.inv = i
      BY DEF TypeOK, Locals
    <2>3. pc'[h] = label /\ local'[h] = l
      BY <2>1, GotoOthers
    <2> QED
      BY <2>1, <2>2, <2>3 DEF WorkerOK
  <1> QED
    BY <1>1, <1>2

\* The lookups of confirmAndActivate end at the invoice the transaction is for.
LEMMA LookupSettles ==
    ASSUME IInv, NEW h \in Handlers, WorkerOK(h),
           LookupByReference(h) \/ LookupById(h) \/ AttachReference(h)
    PROVE  WorkerOK(h)'
  <1>1. TypeOK /\ LedgerOK /\ HandlerOK(h) /\ local[h] \in Locals
    BY DEF IInv, TypeOK
  <1>2. CASE LookupByReference(h)
    <2>1. UNCHANGED <<tx, invoice>>
      BY <1>2 DEF LookupByReference, rows
    <2>2. ASSUME NEW i \in Existing, invoice[i].ref = local[h].ref, Decide(h, i, invoice[i])
          PROVE  WorkerOK(h)'
      <3>1. i \in Invoices /\ (h \in Workers => tx[local[h].ref].inv = i)
        BY <1>1, <1>2, <2>2, NamesAssumption DEF Existing, LedgerOK, HandlerOK, LookupByReference
      <3> QED
        BY <1>1, <2>1, <2>2, <3>1, DecideSettles
    <2>3. CASE Goto(h, "lookupById", local[h])
      <3>1. pc'[h] = "lookupById"
        BY <1>1, <2>3, GotoOthers
      <3> QED
        BY <3>1 DEF WorkerOK
    <2> QED
      BY <1>2, <2>2, <2>3 DEF LookupByReference
  <1>3. CASE LookupById(h)
    <2> DEFINE i == tx[local[h].ref].inv
    <2>1. UNCHANGED <<tx, invoice>> /\ i \in Invoices
      BY <1>1, <1>3 DEF LookupById, rows, LedgerOK, HandlerOK, Opened, HasRow
    <2>2. CASE Goto(h, "attach", [local[h] EXCEPT !.inv = i])
      <3>1. pc'[h] = "attach"
        BY <1>1, <2>2, GotoOthers
      <3> QED
        BY <3>1 DEF WorkerOK
    <2>3. CASE Decide(h, i, invoice[i])
      BY <1>1, <2>1, <2>3, DecideSettles
    <2> QED
      BY <1>3, <2>2, <2>3 DEF LookupById
  <1>4. CASE AttachReference(h)
    <2>1. local[h].inv \in Invoices /\ UNCHANGED tx
          /\ tx[local[h].ref].inv = local[h].inv
          /\ Decide(h, local[h].inv, invoice'[local[h].inv])
      BY <1>1, <1>4 DEF AttachReference, HandlerOK, LedgerOK, Opened, HasRow
    <2> QED
      BY <1>1, <2>1, DecideSettles
  <1> QED
    BY <1>2, <1>3, <1>4

\* The handler that moves: a job passes `markPaid' or `markFailed', or finds its
\* invoice settled, before it comes to `finish'.
LEMMA MoveSettles ==
    ASSUME IInv, IInv', Final, NEW h \in Handlers, WorkerOK(h), Continue(h)
    PROVE  WorkerOK(h)'
  <1> SUFFICES ASSUME h \in Workers PROVE WorkerOK(h)'
    BY DEF WorkerOK
  <1> DEFINE i == tx[local[h].ref].inv
  <1>1. TypeOK /\ HandlerOK(h) /\ local[h] \in Locals /\ invoice \in [Invoices -> InvoiceRows]
    BY DEF IInv, TypeOK
  <1>2. CASE LookupByReference(h) \/ LookupById(h) \/ AttachReference(h)
    BY <1>2, LookupSettles
  <1>3. CASE Activate(h)
    <2>1. UNCHANGED tx /\ pc[h] = "activate" /\ pc'[h] = "markPaid" /\ local'[h] = local[h]
      BY <1>1, <1>3, GotoOthers DEF Activate
    <2> QED
      BY <2>1 DEF WorkerOK
  <1>4. CASE MarkPaid(h) \/ MarkFailed(h)
    <2>1. UNCHANGED tx /\ i = local[h].inv /\ i \in Invoices
      BY <1>1, <1>4 DEF MarkPaid, MarkFailed, WorkerOK, HandlerOK, HasRow
    <2>2. Terminal(invoice'[i])
      BY <1>1, <1>4, <2>1 DEF MarkPaid, MarkFailed, Terminal, InvoiceRows
    <2>3. CASE MarkPaid(h)
      <3>1. pc'[h] = "sync" /\ local'[h] = local[h]
        BY <1>1, <2>3, GotoOthers DEF MarkPaid
      <3> QED
        BY <2>1, <2>2, <3>1 DEF WorkerOK
    <2>4. CASE MarkFailed(h)
      BY <1>1, <2>1, <2>2, <2>4, ReturnSettles DEF MarkFailed
    <2> QED
      BY <1>4, <2>3, <2>4
  <1>5. CASE SyncRole(h) \/ ResolveRole(h) \/ StoreRole(h)
    <2>1. UNCHANGED <<tx, invoice>> /\ Terminal(invoice[i])
      BY <1>5 DEF SyncRole, ResolveRole, StoreRole, rows, WorkerOK
    <2>2. CASE Return(h)
      BY <1>1, <2>1, <2>2, ReturnSettles
    <2>3. ASSUME NEW label \in {"resolve", "store"}, NEW l \in Locals, l.ref = local[h].ref,
                 Goto(h, label, l)
          PROVE  WorkerOK(h)'
      <3>1. pc'[h] = label /\ local'[h] = l
        BY <1>1, <2>3, GotoOthers
      <3> QED
        BY <2>1, <2>3, <3>1 DEF WorkerOK
    <2>4. /\ [local[h] EXCEPT !.seen = role] \in Locals
          /\ [local[h] EXCEPT !.seen = role].ref = local[h].ref
          /\ [local[h] EXCEPT !.offer = sub] \in Locals
          /\ [local[h] EXCEPT !.offer = sub].ref = local[h].ref
      BY <1>1 DEF Locals, TypeOK
    <2> QED
      BY <1>5, <2>2, <2>3, <2>4 DEF SyncRole, ResolveRole, StoreRole
  <1>6. CASE MarkProcessed(h) \/ Acknowledge(h)
    <2>1. pc'[h] \in {"ack", "idle"}
      BY <1>1, <1>6, GotoOthers DEF MarkProcessed, Acknowledge
    <2> QED
      BY <2>1 DEF WorkerOK
  <1> QED
    BY <1>1, <1>2, <1>3, <1>4, <1>5, <1>6 DEF Continue, WorkerOK, ApplyDirectly, FindPending,
       RefreshQuote, CountInvoices, CreateInvoice, InitializeTransaction, AttachNewReference

\* An event becomes PROCESSED in `finish' only.
LEMMA ProcessedAtFinish ==
    ASSUME IInv, Settled, Final, [Next]_vars
    PROVE  ProcessedMeansSettled'
  <1>1. TypeOK /\ LedgerOK
    BY DEF IInv
  <1>2. ASSUME NEW r \in Refs, event'[r] = "PROCESSED", event[r] = "PROCESSED"
        PROVE  Terminal(invoice'[tx'[r].inv])
    <2>1. tx'[r].inv = tx[r].inv /\ tx[r].inv \in Invoices /\ Terminal(invoice[tx[r].inv])
      BY <1>1, <1>2 DEF Final, Settled, ProcessedMeansSettled, LedgerOK, HasRow
    <2> QED
      BY <2>1 DEF Final
  <1>3. ASSUME NEW h \in Handlers, MarkProcessed(h)
        PROVE  ProcessedMeansSettled'
    <2>1. h \in Workers /\ pc[h] = "finish" /\ UNCHANGED <<invoice, tx>>
          /\ event' = [event EXCEPT ![local[h].ref] = "PROCESSED"]
      BY <1>3 DEF MarkProcessed, IInv, HandlerOK
    <2>2. Terminal(invoice[tx[local[h].ref].inv])
      BY <2>1 DEF Settled, WorkerOK
    <2>3. \A r \in Refs : event'[r] = "PROCESSED" => event[r] = "PROCESSED" \/ r = local[h].ref
      BY <1>1, <2>1 DEF TypeOK
    <2> QED
      BY <1>2, <2>1, <2>2, <2>3 DEF ProcessedMeansSettled
  <1>4. ASSUME NEW h \in Handlers, Continue(h)
        PROVE  MarkProcessed(h) \/ UNCHANGED event
    BY <1>4 DEF Continue, ApplyDirectly, FindPending, RefreshQuote, CountInvoices,
                CreateInvoice, InitializeTransaction, AttachNewReference, LookupByReference,
                LookupById, AttachReference, Activate, MarkPaid, MarkFailed, SyncRole,
                ResolveRole, StoreRole, Acknowledge, rows
  <1>5. ASSUME NEW h \in Handlers, Fault(h)
        PROVE  \A r \in Refs : event'[r] = "PROCESSED" => event[r] = "PROCESSED"
    BY <1>1, <1>5 DEF Fault, TypeOK
  <1>6. ASSUME NEW x \in Refs, ReceiveWebhook(x)
        PROVE  \A r \in Refs : event'[r] = "PROCESSED" => event[r] = "PROCESSED"
    BY <1>1, <1>6 DEF ReceiveWebhook, TypeOK
  <1>7. \/ \E h \in Handlers : MarkProcessed(h) \/ Fault(h)
        \/ \E x \in Refs : ReceiveWebhook(x)
        \/ UNCHANGED event
    BY <1>4 DEF Next, SelectPlan, Proceed, Callback, RunJob, CustomerPays, Crash, rows, vars
  <1> QED
    BY <1>2, <1>3, <1>5, <1>6, <1>7 DEF ProcessedMeansSettled

\* A handler that starts is a request, or a job at its first lookup or its end.
LEMMA StartSettles ==
    ASSUME TypeOK, NEW h \in Handlers,
           \/ \E o \in Offers : SelectPlan(h, o)
           \/ \E i \in Invoices : Proceed(h, i)
           \/ \E r \in Refs : Callback(h, r) \/ RunJob(h, r)
    PROVE  /\ WorkerOK(h)'
           /\ \A g \in Handlers \ {h} : pc'[g] = pc[g] /\ local'[g] = local[g]
  <1>1. ASSUME NEW r \in Refs, RunJob(h, r)
        PROVE  /\ pc'[h] \in {"ack", "lookup"}
               /\ \A g \in Handlers \ {h} : pc'[g] = pc[g] /\ local'[g] = local[g]
    BY <1>1, GotoOthers DEF RunJob
  <1>2. ASSUME \/ \E o \in Offers : SelectPlan(h, o)
               \/ \E i \in Invoices : Proceed(h, i)
               \/ \E r \in Refs : Callback(h, r)
        PROVE  /\ h \notin Workers
               /\ \A g \in Handlers \ {h} : pc'[g] = pc[g] /\ local'[g] = local[g]
    BY <1>2, NamesAssumption, GotoOthers DEF SelectPlan, Proceed, Callback
  <1> QED
    BY <1>1, <1>2 DEF WorkerOK

\* Every running handler moves alone.
LEMMA ContinueOthers ==
    ASSUME TypeOK, NEW h \in Handlers, Continue(h)
    PROVE  \A g \in Handlers \ {h} : pc'[g] = pc[g] /\ local'[g] = local[g]
  <1>1. Return(h) => \A g \in Handlers \ {h} : pc'[g] = pc[g] /\ local'[g] = local[g]
    BY GotoOthers DEF Return
  <1>2. ASSUME NEW i, NEW row, Decide(h, i, row)
        PROVE  \A g \in Handlers \ {h} : pc'[g] = pc[g] /\ local'[g] = local[g]
    BY <1>1, <1>2, GotoOthers DEF Decide
  <1>3. CASE ApplyDirectly(h) \/ FindPending(h) \/ RefreshQuote(h) \/ CountInvoices(h)
             \/ CreateInvoice(h) \/ InitializeTransaction(h) \/ AttachNewReference(h)
    BY <1>1, <1>3, GotoOthers DEF ApplyDirectly, FindPending, RefreshQuote, CountInvoices,
       CreateInvoice, InitializeTransaction, AttachNewReference
  <1>4. CASE LookupByReference(h) \/ LookupById(h) \/ AttachReference(h)
    BY <1>2, <1>4, GotoOthers DEF LookupByReference, LookupById, AttachReference
  <1>5. CASE Activate(h) \/ MarkPaid(h) \/ MarkFailed(h) \/ SyncRole(h) \/ ResolveRole(h)
             \/ StoreRole(h) \/ MarkProcessed(h) \/ Acknowledge(h)
    BY <1>1, <1>5, GotoOthers DEF Activate, MarkPaid, MarkFailed, SyncRole, ResolveRole,
       StoreRole, MarkProcessed, Acknowledge
  <1> QED
    BY <1>3, <1>4, <1>5 DEF Continue

\* So does one that fails: it ends, or writes its job off.
LEMMA FaultOthers ==
    ASSUME TypeOK, NEW h \in Handlers, Fault(h)
    PROVE  /\ pc'[h] \in {"idle", "ack"}
           /\ \A g \in Handlers \ {h} : pc'[g] = pc[g] /\ local'[g] = local[g]
  BY GotoOthers DEF Fault

\* Settled is kept by every step.
LEMMA NextSettled == IInv /\ IInv' /\ Settled /\ [Next]_vars => Settled'
  <1> SUFFICES ASSUME IInv, IInv', Settled, [Next]_vars PROVE Settled'
    OBVIOUS
  <1>1. TypeOK /\ Final /\ ProcessedMeansSettled' /\ \A g \in Handlers : WorkerOK(g)
    BY NextIsFinal, ProcessedAtFinish DEF IInv, Settled
  <1>2. SUFFICES ASSUME NEW g \in Handlers PROVE WorkerOK(g)'
    BY <1>1 DEF Settled
  <1>3. ASSUME NEW h \in Handlers, WorkerOK(h)',
               \A x \in Handlers \ {h} : pc'[x] = pc[x] /\ local'[x] = local[x]
        PROVE  WorkerOK(g)'
    BY <1>1, <1>3, WorkerStable
  <1>4. ASSUME NEW h \in Handlers, Continue(h) PROVE WorkerOK(g)'
    BY <1>1, <1>3, <1>4, MoveSettles, ContinueOthers
  <1>5. ASSUME NEW h \in Handlers, Fault(h) PROVE WorkerOK(g)'
    <2>1. WorkerOK(h)'
      BY <1>1, <1>5, FaultOthers DEF WorkerOK
    <2> QED
      BY <1>1, <1>3, <1>5, <2>1, FaultOthers
  <1>6. ASSUME NEW h \in Handlers,
               \/ \E o \in Offers : SelectPlan(h, o)
               \/ \E i \in Invoices : Proceed(h, i)
               \/ \E r \in Refs : Callback(h, r) \/ RunJob(h, r)
        PROVE  WorkerOK(g)'
    BY <1>1, <1>3, <1>6, StartSettles
  <1>7. ASSUME NEW dead \in SUBSET Running, Crash(dead) PROVE WorkerOK(g)'
    <2>1. CASE g \in dead
      BY <1>7, <2>1 DEF Crash, WorkerOK
    <2>2. CASE g \notin dead
      BY <1>1, <1>7, <2>2, WorkerStable DEF Crash
    <2> QED
      BY <2>1, <2>2
  <1>8. CASE UNCHANGED <<pc, local>>
    BY <1>1, <1>8, WorkerStable
  <1> QED
    BY <1>4, <1>5, <1>6, <1>7, <1>8 DEF Next, CustomerPays, ReceiveWebhook, vars

\* A webhook is written off as PROCESSED only when the invoice it pays is PAID or
\* FAILED, whatever else runs, fails or crashes between its lookup, its writes and
\* the ledger write.
THEOREM ProcessedIsSettled == Spec => []ProcessedMeansSettled
  <1>1. Init => Settled
    BY DEF Init, Settled, ProcessedMeansSettled, WorkerOK
  <1>2. Settled => ProcessedMeansSettled
    BY DEF Settled
  <1> QED
    BY <1>1, <1>2, Invariance, NextSettled, PTL DEF Spec

-----------------------------------------------------------------------------
(* What a confirmation turns away *)

\* The charge differs in amount or currency from the row the handler read.
Mispriced(h) ==
    LET o == tx[local[h].ref].offer IN
    o.amount # local[h].offer.amount \/ o.currency # local[h].offer.currency

\* A job takes the provider's event as proof of payment; a handler about to mark
\* an invoice FAILED does so for one of the invoice's own transactions, which it
\* believes to be unpaid or which is not priced as the row was.
RejectOK(h) ==
    /\ h \in Workers /\ pc[h] \in {"lookup", "lookupById", "attach", "markFailed"} => local[h].ok
    /\ pc[h] = "markFailed" =>
         /\ Opened(local[h].ref) /\ tx[local[h].ref].inv = local[h].inv
         /\ local[h].ok => Mispriced(h)

\* A transaction that was opened keeps its invoice and its offer.
LEMMA OpenedStays ==
    ASSUME IInv, [Next]_vars, NEW r, Opened(r)
    PROVE  Opened(r)' /\ tx'[r].inv = tx[r].inv /\ tx'[r].offer = tx[r].offer
  <1>1. tx \in [Refs -> Transactions] /\ r \in Refs /\ tx[r].state # "none"
    BY DEF IInv, TypeOK, Opened
  <1>2. ASSUME NEW h \in Handlers, InitializeTransaction(h)
        PROVE  tx'[r] = tx[r]
    BY <1>1, <1>2 DEF InitializeTransaction
  <1>3. ASSUME NEW x \in Refs, CustomerPays(x)
        PROVE  tx'[r].state # "none" /\ tx'[r].inv = tx[r].inv /\ tx'[r].offer = tx[r].offer
    BY <1>1, <1>3 DEF CustomerPays, Transactions
  <1>4. ASSUME NEW h \in Handlers, Continue(h) PROVE UNCHANGED tx \/ InitializeTransaction(h)
    BY <1>4 DEF Continue, ApplyDirectly, FindPending, RefreshQuote, CountInvoices,
                CreateInvoice, AttachNewReference, LookupByReference, LookupById,
                AttachReference, Activate, MarkPaid, MarkFailed, SyncRole, ResolveRole,
                StoreRole, MarkProcessed, Acknowledge, rows
  <1>5. UNCHANGED tx \/ (\E x \in Refs : CustomerPays(x))
        \/ (\E h \in Handlers : InitializeTransaction(h))
    BY <1>4 DEF Next, Fault, SelectPlan, Proceed, Callback, RunJob, ReceiveWebhook,
                Crash, rows, vars
  <1> QED
    BY <1>1, <1>2, <1>3, <1>5 DEF Opened

\* A handler that does not move keeps what is known of it.
LEMMA RejectStable ==
    ASSUME IInv, [Next]_vars, NEW g \in Handlers, RejectOK(g),
           pc'[g] = pc[g], local'[g] = local[g]
    PROVE  RejectOK(g)'
  <1>1. pc[g] = "markFailed" =>
          /\ Opened(local[g].ref)' /\ tx'[local[g].ref].inv = tx[local[g].ref].inv
          /\ tx'[local[g].ref].offer = tx[local[g].ref].offer
    BY OpenedStays DEF RejectOK
  <1> QED
    BY <1>1 DEF RejectOK, Mispriced

\* Deciding on a row of the handler's own transaction.
LEMMA DecideRejects ==
    ASSUME TypeOK, NEW h \in Handlers, UNCHANGED tx, Opened(local[h].ref),
           h \in Workers => local[h].ok,
           NEW i \in Invoices, tx[local[h].ref].inv = i, NEW row \in InvoiceRows, Decide(h, i, row)
    PROVE  RejectOK(h)'
  <1> DEFINE l == [local[h] EXCEPT !.inv = i, !.offer = row.offer]
  <1>1. l.ref = local[h].ref /\ l.inv = i /\ l.offer = row.offer /\ (l.ok <=> local[h].ok)
    BY DEF TypeOK, Locals
  <1>2. CASE Terminal(row)
    <2>1. pc'[h] \in {"finish", "idle"}
      BY <1>2, GotoOthers DEF Decide, Return
    <2> QED
      BY <2>1 DEF RejectOK
  <1>3. CASE ~Terminal(row) /\ Verified(h, row)
    <2>1. pc'[h] = "activate"
      BY <1>3, GotoOthers DEF Decide
    <2> QED
      BY <2>1 DEF RejectOK
  <1>4. CASE ~Terminal(row) /\ ~Verified(h, row)
    <2>1. pc'[h] = "markFailed" /\ local'[h] = l
      BY <1>4, GotoOthers DEF Decide
    <2>2. local[h].ok => \/ tx[local[h].ref].offer.amount # row.offer.amount
                         \/ tx[local[h].ref].offer.currency # row.offer.currency
      BY <1>4 DEF Verified
    <2> HIDE DEF l
    <2>3. local'[h].ok => Mispriced(h)'
      BY <1>1, <2>1, <2>2 DEF Mispriced
    <2> QED
      BY <1>1, <2>1, <2>3 DEF RejectOK, Opened
  <1> QED
    BY <1>2, <1>3, <1>4

\* The three lookups decide on the invoice the transaction is for.
LEMMA LookupRejects ==
    ASSUME IInv, NEW h \in Handlers, RejectOK(h),
           LookupByReference(h) \/ LookupById(h) \/ AttachReference(h)
    PROVE  RejectOK(h)'
  <1>1. /\ TypeOK /\ LedgerOK /\ HandlerOK(h) /\ local[h] \in Locals
        /\ invoice \in [Invoices -> InvoiceRows]
        /\ pc[h] \in {"lookup", "lookupById", "attach"}
    BY DEF IInv, TypeOK, LookupByReference, LookupById, AttachReference
  <1>2. Opened(local[h].ref) /\ (h \in Workers => local[h].ok)
    BY <1>1 DEF HandlerOK, RejectOK
  <1>3. ASSUME NEW label \in {"lookupById", "attach"}, NEW i,
               Goto(h, label, [local[h] EXCEPT !.inv = i]) \/ Goto(h, label, local[h])
        PROVE  RejectOK(h)'
    <2>1. [local[h] EXCEPT !.inv = i].ok <=> local[h].ok
      BY <1>1 DEF Locals
    <2>2. pc'[h] = label /\ (local'[h].ok <=> local[h].ok)
      BY <1>1, <1>3, <2>1, GotoOthers
    <2> QED
      BY <1>2, <1>3, <2>2 DEF RejectOK
  <1>4. CASE LookupByReference(h)
    <2>1. UNCHANGED tx
      BY <1>4 DEF LookupByReference, rows
    <2>2. ASSUME NEW i \in Existing, invoice[i].ref = local[h].ref, Decide(h, i, invoice[i])
          PROVE  RejectOK(h)'
      <3>1. i \in Invoices /\ tx[local[h].ref].inv = i /\ invoice[i] \in InvoiceRows
        BY <1>1, <1>2, <2>2, NamesAssumption DEF Existing, LedgerOK, Opened
      <3> QED
        BY <1>1, <1>2, <2>1, <2>2, <3>1, DecideRejects
    <2> QED
      BY <1>3, <1>4, <2>2 DEF LookupByReference
  <1>5. CASE LookupById(h)
    <2> DEFINE i == tx[local[h].ref].inv
    <2>1. UNCHANGED tx /\ i \in Invoices /\ invoice[i] \in InvoiceRows
      BY <1>1, <1>2, <1>5 DEF LookupById, rows, LedgerOK, Opened, HasRow
    <2>2. CASE Decide(h, i, invoice[i])
      BY <1>1, <1>2, <2>1, <2>2, DecideRejects
    <2> QED
      BY <1>3, <1>5, <2>2 DEF LookupById
  <1>6. CASE AttachReference(h)
    <2> DEFINE i == local[h].inv
    <2>1. UNCHANGED tx /\ tx[local[h].ref].inv = i /\ i \in Invoices /\ Decide(h, i, invoice'[i])
      BY <1>1, <1>2, <1>6 DEF AttachReference, HandlerOK, LedgerOK, Opened, HasRow
    <2>2. invoice'[i] \in InvoiceRows
      BY <1>1, <1>2, <1>6, <2>1 DEF AttachReference, InvoiceRows, Opened
    <2> QED
      BY <1>1, <1>2, <2>1, <2>2, DecideRejects
  <1> QED
    BY <1>4, <1>5, <1>6

\* The other steps of a running handler lead to none of these labels.
LEMMA ContinueRejects ==
    ASSUME IInv, NEW h \in Handlers, RejectOK(h), Continue(h)
    PROVE  RejectOK(h)'
  <1>0. TypeOK
    BY DEF IInv
  <1>1. CASE LookupByReference(h) \/ LookupById(h) \/ AttachReference(h)
    BY <1>1, LookupRejects
  <1>2. Return(h) => pc'[h] \in {"finish", "idle"}
    BY <1>0, GotoOthers DEF Return
  <1>3. CASE ApplyDirectly(h) \/ FindPending(h) \/ RefreshQuote(h) \/ CountInvoices(h)
             \/ CreateInvoice(h) \/ InitializeTransaction(h) \/ AttachNewReference(h)
    <2>1. \/ Return(h)
          \/ \E label \in {"sync", "refresh", "count", "create", "attachNew"} :
                \E l : Goto(h, label, l)
      <3>1. FindPending(h) => \E label \in {"refresh", "count"} : \E l : Goto(h, label, l)
        BY DEF FindPending
      <3>2. InitializeTransaction(h) => Return(h) \/ \E l : Goto(h, "attachNew", l)
        BY DEF InitializeTransaction
      <3> QED
        BY <1>3, <3>1, <3>2 DEF ApplyDirectly, RefreshQuote, CountInvoices, CreateInvoice,
           AttachNewReference
    <2>2. pc'[h] \in {"finish", "idle", "sync", "refresh", "count", "create", "attachNew"}
      BY <1>0, <1>2, <2>1, GotoOthers
    <2> QED
      BY <2>2 DEF RejectOK
  <1>4. CASE Activate(h) \/ MarkPaid(h) \/ MarkFailed(h) \/ SyncRole(h) \/ ResolveRole(h)
             \/ StoreRole(h) \/ MarkProcessed(h) \/ Acknowledge(h)
    <2>1. pc'[h] \notin {"lookup", "lookupById", "attach", "markFailed"}
      BY <1>0, <1>2, <1>4, GotoOthers DEF Activate, MarkPaid, MarkFailed, SyncRole,
         ResolveRole, StoreRole, MarkProcessed, Acknowledge
    <2> QED
      BY <2>1 DEF RejectOK
  <1> QED
    BY <1>1, <1>3, <1>4 DEF Continue

\* A job starts with the event as its proof.
LEMMA StartRejects ==
    ASSUME TypeOK, NEW h \in Handlers,
           \/ \E o \in Offers : SelectPlan(h, o)
           \/ \E i \in Invoices : Proceed(h, i)
           \/ \E r \in Refs : Callback(h, r) \/ RunJob(h, r)
    PROVE  RejectOK(h)'
  <1>1. ASSUME NEW r \in Refs, RunJob(h, r) PROVE RejectOK(h)'
    <2> DEFINE l == [NoLocal EXCEPT !.ref = r, !.ok = TRUE]
    <2>1. l.ok
      BY DEF NoLocal
    <2>2. PICK label \in {"ack", "lookup"} : Goto(h, label, l)
      BY <1>1 DEF RunJob
    <2> HIDE DEF l
    <2>3. pc'[h] = label /\ local'[h] = l
      BY <2>2, GotoOthers
    <2> QED
      BY <2>1, <2>3 DEF RejectOK
  <1>2. ASSUME \/ \E o \in Offers : SelectPlan(h, o)
               \/ \E i \in Invoices : Proceed(h, i)
               \/ \E r \in Refs : Callback(h, r)
        PROVE  RejectOK(h)'
    <2>1. h \notin Workers /\ pc'[h] \in {"find", "apply", "initialize", "lookup"}
      BY <1>2, NamesAssumption, GotoOthers DEF SelectPlan, Proceed, Callback
    <2> QED
      BY <2>1 DEF RejectOK
  <1> QED
    BY <1>1, <1>2

\* RejectOK is kept by every step.
LEMMA NextRejects ==
    IInv /\ (\A h \in Handlers : RejectOK(h)) /\ [Next]_vars => \A h \in Handlers : RejectOK(h)'
  <1> SUFFICES ASSUME IInv, \A h \in Handlers : RejectOK(h), [Next]_vars, NEW g \in Handlers
               PROVE  RejectOK(g)'
    OBVIOUS
  <1>1. TypeOK
    BY DEF IInv
  <1>2. ASSUME NEW h \in Handlers, RejectOK(h)',
               \A x \in Handlers \ {h} : pc'[x] = pc[x] /\ local'[x] = local[x]
        PROVE  RejectOK(g)'
    BY <1>2, RejectStable
  <1>3. ASSUME NEW h \in Handlers, Continue(h) PROVE RejectOK(g)'
    BY <1>1, <1>2, <1>3, ContinueRejects, ContinueOthers
  <1>4. ASSUME NEW h \in Handlers, Fault(h) PROVE RejectOK(g)'
    <2>1. RejectOK(h)'
      BY <1>1, <1>4, FaultOthers DEF RejectOK
    <2> QED
      BY <1>1, <1>2, <1>4, <2>1, FaultOthers
  <1>5. ASSUME NEW h \in Handlers,
               \/ \E o \in Offers : SelectPlan(h, o)
               \/ \E i \in Invoices : Proceed(h, i)
               \/ \E r \in Refs : Callback(h, r) \/ RunJob(h, r)
        PROVE  RejectOK(g)'
    BY <1>1, <1>2, <1>5, StartRejects, StartSettles
  <1>6. ASSUME NEW dead \in SUBSET Running, Crash(dead) PROVE RejectOK(g)'
    <2>1. CASE g \in dead
      BY <1>6, <2>1 DEF Crash, RejectOK
    <2>2. CASE g \notin dead
      BY <1>6, <2>2, RejectStable DEF Crash
    <2> QED
      BY <2>1, <2>2
  <1>7. CASE UNCHANGED <<pc, local>>
    BY <1>7, RejectStable
  <1> QED
    BY <1>3, <1>4, <1>5, <1>6, <1>7 DEF Next, CustomerPays, ReceiveWebhook, vars

\* Only MarkFailed fails an invoice.
LEMMA OnlyMarkFailedFails ==
    ASSUME IInv, [Next]_vars, NEW i \in Invoices,
           invoice[i].status # "FAILED", invoice'[i].status = "FAILED"
    PROVE  \E h \in Handlers : MarkFailed(h) /\ local[h].inv = i
  <1>1. invoice \in [Invoices -> InvoiceRows]
    BY DEF IInv, TypeOK
  <1>2. PICK h \in Handlers : Continue(h)
    BY DEF Next, Fault, SelectPlan, Proceed, Callback, RunJob, CustomerPays, ReceiveWebhook,
           Crash, rows, vars
  <1>3. ~(RefreshQuote(h) \/ AttachNewReference(h) \/ AttachReference(h) \/ MarkPaid(h))
    BY <1>1 DEF RefreshQuote, AttachNewReference, AttachReference, MarkPaid, InvoiceRows
  <1>4. ~CreateInvoice(h)
    <2>1. ASSUME NEW j, NEW row, row.status = "PENDING", invoice' = [invoice EXCEPT ![j] = row]
          PROVE  FALSE
      BY <1>1, <2>1
    <2> QED
      BY <2>1 DEF CreateInvoice
  <1>5. MarkFailed(h)
    BY <1>2, <1>3, <1>4 DEF Continue, ApplyDirectly, FindPending, CountInvoices,
       InitializeTransaction, LookupByReference, LookupById, Activate, SyncRole, ResolveRole,
       StoreRole, MarkProcessed, Acknowledge, rows
  <1>6. local[h].inv = i
    BY <1>1, <1>5 DEF MarkFailed, InvoiceRows
  <1> QED
    BY <1>5, <1>6

\* An invoice is only marked FAILED by a confirmation of a transaction of its own:
\* one charged another amount or currency than the row it read, or a callback that
\* asked the provider before the payment, as in the finding of CallbackIsSafe.  No
\* webhook turns a payment of the quoted price away.
THEOREM RejectionsAreJustified ==
    Spec => [][\A i \in Invoices :
                 invoice[i].status # "FAILED" /\ invoice'[i].status = "FAILED" =>
                   \E h \in Handlers : /\ pc[h] = "markFailed" /\ local[h].inv = i
                                       /\ tx[local[h].ref].inv = i
                                       /\ Mispriced(h) \/ (h \in Requests /\ ~local[h].ok)]_vars
  <1> DEFINE Justified ==
               \A i \in Invoices :
                 invoice[i].status # "FAILED" /\ invoice'[i].status = "FAILED" =>
                   \E h \in Handlers : /\ pc[h] = "markFailed" /\ local[h].inv = i
                                       /\ tx[local[h].ref].inv = i
                                       /\ Mispriced(h) \/ (h \in Requests /\ ~local[h].ok)
             Rejects == \A h \in Handlers : RejectOK(h)
  <1>1. Init => Rejects
    BY DEF Init, RejectOK
  <1>2. IInv /\ Rejects /\ [Next]_vars => Rejects'
    BY NextRejects
  <1>3. IInv /\ Rejects /\ [Next]_vars => [Justified]_vars
    <2> SUFFICES ASSUME IInv, Rejects, [Next]_vars, NEW i \in Invoices,
                        invoice[i].status # "FAILED", invoice'[i].status = "FAILED"
                 PROVE  \E h \in Handlers : /\ pc[h] = "markFailed" /\ local[h].inv = i
                                            /\ tx[local[h].ref].inv = i
                                            /\ Mispriced(h) \/ (h \in Requests /\ ~local[h].ok)
      OBVIOUS
    <2>1. PICK h \in Handlers : MarkFailed(h) /\ local[h].inv = i
      BY OnlyMarkFailedFails
    <2>2. pc[h] = "markFailed" /\ RejectOK(h) /\ (h \in Workers \/ h \in Requests)
      BY <2>1 DEF MarkFailed, Handlers
    <2> QED
      BY <2>1, <2>2 DEF RejectOK
  <1> QED
    BY <1>1, <1>2, <1>3, Invariance, PTL DEF Spec

-----------------------------------------------------------------------------
(* Handlers that do not overlap *)

\* The steps whose locals name an invoice the handler is about to write.
Writers == {"refresh", "initialize", "attachNew", "attach", "activate", "markPaid", "markFailed"}

\* What a handler read is still so at the step that relies on it.
ReadsHold(h) ==
    LET l == local[h] IN
    /\ pc[h] = "apply" => l.offer.amount <= sub.amount
    /\ pc[h] \in {"count", "create"} => PendingFor(l.offer.plan) = {}
    /\ pc[h] \in Writers => invoice[l.inv].status = "PENDING"

Alone == \A g, h \in Handlers : pc[g] # "idle" /\ pc[h] # "idle" => g = h

OnePending ==
    \A i, j \in Invoices :
        /\ invoice[i].status = "PENDING" /\ invoice[j].status = "PENDING"
        /\ invoice[i].offer.plan = invoice[j].offer.plan
        => i = j

SerialInv == Alone /\ OnePending /\ \A h \in Handlers : ReadsHold(h)

\* With one handler in flight at most, nothing runs when a handler starts.
LEMMA StartsAlone ==
    ASSUME MaxInFlight <= 1, Alone, NEW h \in Handlers, Idle(h)
    PROVE  \A g \in Handlers : pc[g] = "idle"
  <1> SUFFICES ASSUME NEW g \in Handlers, pc[g] # "idle" PROVE FALSE
    OBVIOUS
  <1>1. Running = {g}
    BY DEF Running, Alone
  <1>2. Cardinality(Running) = 1
    BY <1>1, FS_Singleton
  <1> QED
    BY <1>2, BoundsAssumption DEF Idle

\* A step of the one running handler leaves no other running, and then only it
\* has to be looked at.
LEMMA StillAlone ==
    ASSUME NEW h \in Handlers, OnePending', ReadsHold(h)',
           \A g \in Handlers \ {h} : pc[g] = "idle" /\ pc'[g] = pc[g]
    PROVE  SerialInv'
  <1>1. \A g \in Handlers \ {h} : pc'[g] = "idle"
    OBVIOUS
  <1>2. Alone'
    BY <1>1 DEF Alone
  <1>3. \A g \in Handlers \ {h} : ReadsHold(g)'
    BY <1>1 DEF ReadsHold, Writers
  <1> QED
    BY <1>2, <1>3 DEF SerialInv

\* Writes that open no invoice and move none to another plan.
LEMMA OnePendingKept ==
    ASSUME OnePending,
           \A i \in Invoices : invoice'[i].status = "PENDING" =>
               /\ invoice[i].status = "PENDING"
               /\ invoice'[i].offer.plan = invoice[i].offer.plan
    PROVE  OnePending'
  BY DEF OnePending

\* Returning leaves nothing that relies on a read.
LEMMA ReturnReads ==
    ASSUME TypeOK, NEW h \in Handlers, Return(h)
    PROVE  ReadsHold(h)'
  <1>1. pc'[h] \in {"finish", "idle"}
    BY GotoOthers DEF Return
  <1> QED
    BY <1>1 DEF ReadsHold, Writers

\* Deciding goes on to a write only for an invoice that is PENDING.
LEMMA DecideReads ==
    ASSUME TypeOK, NEW h \in Handlers, NEW i \in Invoices, invoice' \in [Invoices -> InvoiceRows],
           invoice'[i].status # "NONE", Decide(h, i, invoice'[i])
    PROVE  ReadsHold(h)'
  <1>1. CASE Terminal(invoice'[i])
    BY <1>1, ReturnReads DEF Decide
  <1>2. CASE ~Terminal(invoice'[i])
    <2> DEFINE l == [local[h] EXCEPT !.inv = i, !.offer = invoice'[i].offer]
    <2>1. PICK label \in {"activate", "markFailed"} : Goto(h, label, l)
      BY <1>2 DEF Decide
    <2>2. l.inv = i /\ invoice'[i].status = "PENDING"
      BY <1>2 DEF TypeOK, Locals, Terminal, InvoiceRows, InvoiceStatus
    <2>3. pc'[h] = label /\ local'[h] = l
      BY <2>1, GotoOthers
    <2> QED
      BY <2>1, <2>2, <2>3 DEF ReadsHold
  <1> QED
    BY <1>1, <1>2

\* subscribe, changePlan and the review screen.
LEMMA PlanReads ==
    ASSUME IInv, SerialInv, NEW h \in Handlers,
           \/ ApplyDirectly(h) \/ FindPending(h) \/ RefreshQuote(h)
           \/ CountInvoices(h) \/ CreateInvoice(h)
    PROVE  OnePending' /\ ReadsHold(h)'
  <1> DEFINE plan == local[h].offer.plan
  <1>1. TypeOK /\ OnePending /\ ReadsHold(h) /\ HandlerOK(h) /\ local[h] \in Locals
        /\ invoice \in [Invoices -> InvoiceRows]
    BY DEF IInv, TypeOK, SerialInv
  <1>2. CASE ApplyDirectly(h)
    <2>1. pc'[h] = "sync" /\ UNCHANGED invoice
      BY <1>1, <1>2, GotoOthers DEF ApplyDirectly
    <2> QED
      BY <1>1, <2>1, OnePendingKept DEF ReadsHold, Writers
  <1>3. CASE FindPending(h)
    <2>1. UNCHANGED invoice
      BY <1>3 DEF FindPending, rows
    <2>2. CASE PendingFor(plan) = {} /\ Goto(h, "count", local[h])
      <3>1. pc'[h] = "count" /\ local'[h] = local[h]
        BY <1>1, <2>2, GotoOthers
      <3> QED
        BY <1>1, <2>1, <2>2, <3>1, OnePendingKept DEF ReadsHold, Writers, PendingFor
    <2>3. ASSUME NEW i \in PendingFor(plan), Goto(h, "refresh", [local[h] EXCEPT !.inv = i])
          PROVE  OnePending' /\ ReadsHold(h)'
      <3>1. [local[h] EXCEPT !.inv = i].inv = i /\ invoice[i].status = "PENDING"
        BY <1>1 DEF Locals, PendingFor
      <3>2. pc'[h] = "refresh" /\ local'[h] = [local[h] EXCEPT !.inv = i]
        BY <1>1, <2>3, GotoOthers
      <3> QED
        BY <1>1, <2>1, <3>1, <3>2, OnePendingKept DEF ReadsHold
    <2> QED
      BY <1>3, <2>2, <2>3 DEF FindPending
  <1>4. CASE RefreshQuote(h)
    <2>1. invoice' = [invoice EXCEPT ![local[h].inv].offer = local[h].offer] /\ Return(h)
          /\ invoice[local[h].inv].offer.plan = plan
      BY <1>1, <1>4 DEF RefreshQuote, HandlerOK
    <2>2. \A i \in Invoices : invoice'[i].status = invoice[i].status
                              /\ invoice'[i].offer.plan = invoice[i].offer.plan
      BY <1>1, <2>1 DEF InvoiceRows
    <2> QED
      BY <1>1, <2>1, <2>2, OnePendingKept, ReturnReads
  <1>5. CASE CountInvoices(h)
    <2> DEFINE l == [local[h] EXCEPT !.count = Cardinality(Existing)]
    <2>1. PendingFor(plan) = {} /\ UNCHANGED invoice /\ Goto(h, "create", l)
      BY <1>1, <1>5 DEF CountInvoices, ReadsHold, rows
    <2>2. l.offer = local[h].offer
      BY <1>1 DEF Locals
    <2>3. pc'[h] = "create" /\ local'[h] = l
      BY <1>1, <2>1, GotoOthers
    <2> HIDE DEF l
    <2> QED
      BY <1>1, <2>1, <2>2, <2>3, OnePendingKept DEF ReadsHold, Writers, PendingFor
  <1>6. CASE CreateInvoice(h)
    <2>1. ReadsHold(h)' /\ PendingFor(plan) = {}
      BY <1>1, <1>6, ReturnReads DEF CreateInvoice, ReadsHold
    <2>2. CASE UNCHANGED invoice
      BY <1>1, <2>1, <2>2, OnePendingKept
    <2>3. ASSUME NEW i \in Invoices,
                 invoice' = [invoice EXCEPT ![i] =
                     [status |-> "PENDING", offer |-> local[h].offer,
                      ref |-> NoRef, number |-> local[h].count + 1]]
          PROVE  OnePending'
      <3>1. /\ \A j \in Invoices \ {i} : invoice'[j] = invoice[j]
            /\ invoice'[i].offer.plan = plan
        BY <1>1, <2>3
      <3>2. \A j \in Invoices : invoice[j].status = "PENDING" => invoice[j].offer.plan # plan
        BY <2>1 DEF PendingFor
      <3> QED
        BY <1>1, <3>1, <3>2 DEF OnePending
    <2> QED
      BY <1>6, <2>1, <2>2, <2>3 DEF CreateInvoice
  <1> QED
    BY <1>2, <1>3, <1>4, <1>5, <1>6

\* proceedToPayment and the lookups of confirmAndActivate.
LEMMA PaymentReads ==
    ASSUME IInv, SerialInv, NEW h \in Handlers,
           \/ InitializeTransaction(h) \/ AttachNewReference(h)
           \/ LookupByReference(h) \/ LookupById(h) \/ AttachReference(h)
    PROVE  OnePending' /\ ReadsHold(h)'
  <1>1. TypeOK /\ LedgerOK /\ OnePending /\ ReadsHold(h) /\ HandlerOK(h) /\ local[h] \in Locals
        /\ invoice \in [Invoices -> InvoiceRows]
    BY DEF IInv, TypeOK, SerialInv
  <1>2. CASE InitializeTransaction(h)
    <2>1. OnePending' /\ UNCHANGED invoice /\ invoice[local[h].inv].status = "PENDING"
      BY <1>1, <1>2, OnePendingKept DEF InitializeTransaction, ReadsHold, Writers
    <2>2. ASSUME NEW r \in Refs, Goto(h, "attachNew", [local[h] EXCEPT !.ref = r])
          PROVE  ReadsHold(h)'
      <3>1. [local[h] EXCEPT !.ref = r].inv = local[h].inv
        BY <1>1 DEF Locals
      <3>2. pc'[h] = "attachNew" /\ local'[h] = [local[h] EXCEPT !.ref = r]
        BY <1>1, <2>2, GotoOthers
      <3> QED
        BY <2>1, <3>1, <3>2 DEF ReadsHold
    <2> QED
      BY <1>1, <1>2, <2>1, <2>2, ReturnReads DEF InitializeTransaction
  <1>3. CASE AttachNewReference(h)
    <2>1. \A i \in Invoices : invoice'[i].status = invoice[i].status
                              /\ invoice'[i].offer = invoice[i].offer
      BY <1>1, <1>3 DEF AttachNewReference, InvoiceRows
    <2> QED
      BY <1>1, <1>3, <2>1, OnePendingKept, ReturnReads DEF AttachNewReference
  <1>4. CASE LookupByReference(h)
    <2>1. UNCHANGED invoice
      BY <1>4 DEF LookupByReference, rows
    <2>2. ASSUME NEW i \in Existing, Decide(h, i, invoice[i])
          PROVE  ReadsHold(h)'
      BY <1>1, <2>1, <2>2, DecideReads DEF Existing
    <2>3. ASSUME Goto(h, "lookupById", local[h]) PROVE ReadsHold(h)'
      <3>1. pc'[h] = "lookupById"
        BY <1>1, <2>3, GotoOthers
      <3> QED
        BY <3>1 DEF ReadsHold, Writers
    <2> QED
      BY <1>1, <1>4, <2>1, <2>2, <2>3, OnePendingKept DEF LookupByReference
  <1>5. CASE LookupById(h)
    <2> DEFINE i == tx[local[h].ref].inv
    <2>1. UNCHANGED invoice /\ i \in Invoices /\ invoice[i].status # "NONE"
      BY <1>1, <1>5 DEF LookupById, rows, LedgerOK, HandlerOK, Opened, HasRow
    <2>2. ASSUME invoice[i].status = "PENDING", Goto(h, "attach", [local[h] EXCEPT !.inv = i])
          PROVE  ReadsHold(h)'
      <3>1. [local[h] EXCEPT !.inv = i].inv = i
        BY <1>1 DEF Locals
      <3>2. pc'[h] = "attach" /\ local'[h] = [local[h] EXCEPT !.inv = i]
        BY <1>1, <2>2, GotoOthers
      <3> QED
        BY <2>1, <2>2, <3>1, <3>2 DEF ReadsHold
    <2>3. ASSUME Decide(h, i, invoice[i]) PROVE ReadsHold(h)'
      <3>1. i \in Invoices /\ invoice' \in [Invoices -> InvoiceRows]
            /\ invoice'[i].status # "NONE" /\ Decide(h, i, invoice'[i])
        BY <1>1, <2>1, <2>3
      <3>2. TypeOK
        BY <1>1
      <3> HIDE DEF i
      <3> QED
        BY <3>1, <3>2, DecideReads
    <2> QED
      BY <1>1, <1>5, <2>1, <2>2, <2>3, OnePendingKept DEF LookupById
  <1>6. CASE AttachReference(h)
    <2>1. local[h].inv \in Invoices /\ invoice[local[h].inv].status = "PENDING"
      BY <1>1, <1>6 DEF AttachReference, HandlerOK, LedgerOK, Opened, HasRow, ReadsHold, Writers
    <2>2. invoice' = [invoice EXCEPT ![local[h].inv].ref = local[h].ref]
          /\ Decide(h, local[h].inv, invoice'[local[h].inv])
      BY <1>6 DEF AttachReference
    <2>3. \A i \in Invoices : invoice'[i].status = invoice[i].status
                              /\ invoice'[i].offer = invoice[i].offer
      BY <1>1, <2>2 DEF InvoiceRows
    <2>4. invoice' \in [Invoices -> InvoiceRows]
      BY <1>1, <2>2 DEF InvoiceRows, Locals
    <2> QED
      BY <1>1, <2>1, <2>2, <2>3, <2>4, OnePendingKept, DecideReads
  <1> QED
    BY <1>2, <1>3, <1>4, <1>5, <1>6

\* The writes of confirmAndActivate and what follows them.
LEMMA SettleReads ==
    ASSUME IInv, SerialInv, NEW h \in Handlers,
           \/ Activate(h) \/ MarkPaid(h) \/ MarkFailed(h) \/ SyncRole(h) \/ ResolveRole(h)
           \/ StoreRole(h) \/ MarkProcessed(h) \/ Acknowledge(h)
    PROVE  OnePending' /\ ReadsHold(h)'
  <1>1. TypeOK /\ OnePending /\ ReadsHold(h)  /\ local[h] \in Locals
        /\ invoice \in [Invoices -> InvoiceRows]
    BY DEF IInv, TypeOK, SerialInv
  <1>2. CASE Activate(h)
    <2>1. pc[h] = "activate" /\ pc'[h] = "markPaid" /\ local'[h] = local[h] /\ UNCHANGED invoice
      BY <1>1, <1>2, GotoOthers DEF Activate
    <2> QED
      BY <1>1, <2>1, OnePendingKept DEF ReadsHold, Writers
  <1>3. CASE MarkPaid(h) \/ MarkFailed(h)
    <2>1. \A i \in Invoices : invoice'[i].status = "PENDING" => invoice'[i] = invoice[i]
      BY <1>1, <1>3 DEF MarkPaid, MarkFailed, InvoiceRows
    <2>2. OnePending'
      BY <1>1, <2>1, OnePendingKept
    <2>3. CASE MarkPaid(h)
      <3>1. pc'[h] = "sync"
        BY <1>1, <2>3, GotoOthers DEF MarkPaid
      <3> QED
        BY <2>2, <3>1 DEF ReadsHold, Writers
    <2>4. CASE MarkFailed(h)
      BY <1>1, <2>2, <2>4, ReturnReads DEF MarkFailed
    <2> QED
      BY <1>3, <2>3, <2>4
  <1>4. CASE SyncRole(h) \/ ResolveRole(h) \/ StoreRole(h)
    <2>1. OnePending'
      BY <1>1, <1>4, OnePendingKept DEF SyncRole, ResolveRole, StoreRole, rows
    <2>2. ASSUME NEW label \in {"resolve", "store"}, NEW l, Goto(h, label, l)
          PROVE  ReadsHold(h)'
      <3>1. pc'[h] = label
        BY <1>1, <2>2, GotoOthers
      <3> QED
        BY <2>2, <3>1 DEF ReadsHold, Writers
    <2> QED
      BY <1>1, <1>4, <2>1, <2>2, ReturnReads DEF SyncRole, ResolveRole, StoreRole
  <1>5. CASE MarkProcessed(h) \/ Acknowledge(h)
    <2>1. pc'[h] \in {"ack", "idle"} /\ UNCHANGED invoice
      BY <1>1, <1>5, GotoOthers DEF MarkProcessed, Acknowledge
    <2> QED
      BY <1>1, <2>1, OnePendingKept DEF ReadsHold, Writers
  <1> QED
    BY <1>2, <1>3, <1>4, <1>5

\* A handler that starts relies on what it has just read.
LEMMA StartReads ==
    ASSUME IInv, SerialInv, NEW h \in Handlers,
           \/ \E o \in Offers : SelectPlan(h, o)
           \/ \E i \in Invoices : Proceed(h, i)
           \/ \E r \in Refs : Callback(h, r) \/ RunJob(h, r)
    PROVE  /\ Idle(h) /\ OnePending' /\ ReadsHold(h)'
           /\ \A g \in Handlers \ {h} : pc'[g] = pc[g]
  <1>1. TypeOK /\ OnePending /\ sub \in Offers
    BY DEF IInv, TypeOK, SerialInv
  <1>2. Idle(h) /\ UNCHANGED <<sub, invoice>>
    BY DEF SelectPlan, Proceed, Callback, RunJob, rows
  <1>3. OnePending' /\ \A g \in Handlers \ {h} : pc'[g] = pc[g]
    BY <1>1, <1>2, OnePendingKept, StartSettles
  <1>4. ASSUME NEW o \in Offers, SelectPlan(h, o) PROVE ReadsHold(h)'
    <2> DEFINE l == [NoLocal EXCEPT !.offer = o]
               label == IF o.amount > sub.amount THEN "find" ELSE "apply"
    <2>1. Goto(h, label, l)
      BY <1>4 DEF SelectPlan, RequiresPayment
    <2>2. l.offer = o /\ (label = "apply" => o.amount <= sub.amount)
          /\ label \in {"find", "apply"}
      BY <1>1, OffersAssumption DEF NoLocal
    <2>3. pc'[h] = label /\ local'[h] = l
      BY <1>1, <2>1, GotoOthers
    <2> HIDE DEF l, label
    <2> QED
      BY <1>2, <2>2, <2>3 DEF ReadsHold, Writers
  <1>5. ASSUME NEW i \in Invoices, Proceed(h, i) PROVE ReadsHold(h)'
    <2> DEFINE l == [NoLocal EXCEPT !.inv = i, !.offer = invoice[i].offer]
    <2>1. Goto(h, "initialize", l) /\ invoice[i].status = "PENDING"
      BY <1>5 DEF Proceed
    <2>2. l.inv = i
      BY DEF NoLocal
    <2>3. pc'[h] = "initialize" /\ local'[h] = l
      BY <1>1, <2>1, GotoOthers
    <2> QED
      BY <1>2, <2>1, <2>2, <2>3 DEF ReadsHold
  <1>6. ASSUME NEW r \in Refs, Callback(h, r) \/ RunJob(h, r) PROVE ReadsHold(h)'
    <2>1. pc'[h] \in {"lookup", "ack"}
      BY <1>1, <1>6, GotoOthers DEF Callback, RunJob
    <2> QED
      BY <2>1 DEF ReadsHold, Writers
  <1> QED
    BY <1>2, <1>3, <1>4, <1>5, <1>6

\* Every step of a serial execution keeps SerialInv, failures and crashes included.
LEMMA NextSerial == MaxInFlight <= 1 /\ IInv /\ SerialInv /\ [Next]_vars => SerialInv'
  <1> SUFFICES ASSUME MaxInFlight <= 1, IInv, SerialInv, [Next]_vars PROVE SerialInv'
    OBVIOUS
  <1>1. TypeOK /\ Alone /\ OnePending
    BY DEF IInv, SerialInv
  <1>2. ASSUME NEW h \in Handlers, pc[h] # "idle", OnePending', ReadsHold(h)',
               \A g \in Handlers \ {h} : pc'[g] = pc[g]
        PROVE  SerialInv'
    BY <1>1, <1>2, StillAlone DEF Alone
  <1>3. ASSUME NEW h \in Handlers, Continue(h) PROVE SerialInv'
    <2>1. pc[h] # "idle"
      BY <1>3 DEF Continue, ApplyDirectly, FindPending, RefreshQuote, CountInvoices,
         CreateInvoice, InitializeTransaction, AttachNewReference, LookupByReference,
         LookupById, AttachReference, Activate, MarkPaid, MarkFailed, SyncRole,
         ResolveRole, StoreRole, MarkProcessed, Acknowledge
    <2>2. OnePending' /\ ReadsHold(h)'
      BY <1>3, PlanReads, PaymentReads, SettleReads DEF Continue
    <2> QED
      BY <1>1, <1>2, <1>3, <2>1, <2>2, ContinueOthers
  <1>4. ASSUME NEW h \in Handlers, Fault(h) PROVE SerialInv'
    <2>1. pc[h] # "idle" /\ UNCHANGED invoice
      BY <1>4 DEF Fault
    <2>2. OnePending' /\ ReadsHold(h)'
      BY <1>1, <1>4, <2>1, FaultOthers, OnePendingKept DEF ReadsHold, Writers
    <2> QED
      BY <1>1, <1>2, <1>4, <2>1, <2>2, FaultOthers
  <1>5. ASSUME NEW h \in Handlers,
               \/ \E o \in Offers : SelectPlan(h, o)
               \/ \E i \in Invoices : Proceed(h, i)
               \/ \E r \in Refs : Callback(h, r) \/ RunJob(h, r)
        PROVE  SerialInv'
    BY <1>1, <1>5, StartReads, StartsAlone, StillAlone
  <1>6. ASSUME NEW dead \in SUBSET Running, Crash(dead) PROVE SerialInv'
    <2>1. /\ UNCHANGED <<sub, invoice>>
          /\ \A g \in Handlers : pc'[g] = "idle" \/ (pc'[g] = pc[g] /\ local'[g] = local[g])
      BY <1>6 DEF Crash
    <2>2. Alone' /\ OnePending'
      BY <1>1, <2>1, OnePendingKept DEF Alone
    <2>3. \A g \in Handlers : ReadsHold(g)'
      BY <2>1 DEF SerialInv, ReadsHold, Writers, PendingFor
    <2> QED
      BY <2>2, <2>3 DEF SerialInv
  <1>7. CASE UNCHANGED <<sub, invoice, pc, local>>
    BY <1>7 DEF SerialInv, Alone, OnePending, ReadsHold, Writers, PendingFor
  <1> QED
    BY <1>3, <1>4, <1>5, <1>6, <1>7 DEF Next, CustomerPays, ReceiveWebhook, vars

\* It holds at the start.
LEMMA InitSerial == Init => SerialInv
  BY DEF Init, SerialInv, Alone, OnePending, ReadsHold, Writers, NoRow

\* So it holds throughout a serial execution.
LEMMA SerialInvariance ==
    ASSUME MaxInFlight <= 1
    PROVE  Spec => []SerialInv
  <1>1. IInv /\ SerialInv /\ [Next]_vars => SerialInv'
    BY NextSerial
  <1> QED
    BY <1>1, InitSerial, Invariance, PTL DEF Spec

\* When handlers do not overlap, reopening the review screen never opens a second
\* pending invoice for a plan: the find and the create see the same ledger.  No
\* fault or crash between them makes a difference.
THEOREM OnePendingWhenSerial ==
    ASSUME MaxInFlight <= 1
    PROVE  Spec => []OnePendingPerPlan
  <1>1. IInv /\ SerialInv => OnePendingPerPlan
    <2> SUFFICES ASSUME IInv, SerialInv, NEW p \in Plans
                 PROVE  Cardinality(PendingFor(p)) <= 1
      BY DEF OnePendingPerPlan
    <2>1. \A i, j \in PendingFor(p) : i = j
      BY DEF SerialInv, OnePending, PendingFor
    <2>2. CASE PendingFor(p) = {}
      BY <2>2, FS_EmptySet
    <2>3. ASSUME NEW i \in PendingFor(p) PROVE Cardinality(PendingFor(p)) <= 1
      <3>1. PendingFor(p) = {i}
        BY <2>1
      <3> QED
        BY <3>1, FS_Singleton
    <2> QED
      BY <2>2, <2>3
  <1> QED
    BY <1>1, Invariance, SerialInvariance, PTL

\* The steps that write an existing invoice write one that is still PENDING.
LEMMA SerialWriteIsPending ==
    ASSUME IInv, SerialInv, NEW h \in Handlers, Continue(h),
           NEW i \in Invoices, Terminal(invoice[i])
    PROVE  invoice'[i] = invoice[i]
  <1>1. invoice \in [Invoices -> InvoiceRows] /\ ReadsHold(h)
    BY DEF IInv, TypeOK, SerialInv
  <1>2. pc[h] \in Writers => local[h].inv # i
    BY <1>1 DEF ReadsHold, Terminal
  <1>3. CASE UNCHANGED invoice
    BY <1>3
  <1>4. CASE RefreshQuote(h) \/ AttachNewReference(h) \/ AttachReference(h)
             \/ MarkPaid(h) \/ MarkFailed(h)
    BY <1>1, <1>2, <1>4
       DEF RefreshQuote, AttachNewReference, AttachReference, MarkPaid, MarkFailed, Writers
  <1>5. CASE CreateInvoice(h)
    <2>1. ASSUME NEW j \in Invoices \ Existing, NEW row,
                 invoice' = [invoice EXCEPT ![j] = row]
          PROVE  invoice'[i] = invoice[i]
      BY <1>1, <2>1 DEF Existing, Terminal
    <2> QED
      BY <1>5, <2>1 DEF CreateInvoice
  <1> QED
    BY <1>3, <1>4, <1>5 DEF Continue, ApplyDirectly, FindPending, CountInvoices,
       InitializeTransaction, LookupByReference, LookupById, Activate, SyncRole, ResolveRole,
       StoreRole, MarkProcessed, Acknowledge, rows

\* So a settled invoice is left alone by every step.
LEMMA NextTerminal ==
    ASSUME IInv, SerialInv, [Next]_vars, NEW i \in Invoices, Terminal(invoice[i])
    PROVE  invoice'[i] = invoice[i]
  <1>1. UNCHANGED invoice \/ \E h \in Handlers : Continue(h)
    BY DEF Next, Fault, SelectPlan, Proceed, Callback, RunJob, CustomerPays, ReceiveWebhook,
           Crash, rows, vars
  <1> QED
    BY <1>1, SerialWriteIsPending

\* A PAID or FAILED invoice is never written again when handlers do not overlap,
\* not even after faults, crashes, stalled jobs and late callbacks.
THEOREM TerminalWhenSerial ==
    ASSUME MaxInFlight <= 1
    PROVE  Spec => TerminalInvoices
  <1>1. IInv /\ SerialInv /\ [Next]_vars
        => [\A i \in Invoices : Terminal(invoice[i]) => invoice'[i] = invoice[i]]_vars
    BY NextTerminal
  <1> QED
    BY <1>1, Invariance, SerialInvariance, PTL DEF Spec, TerminalInvoices

\* The subscription is written by two steps only.
LEMMA SubscriptionWrites ==
    ASSUME [Next]_vars
    PROVE  UNCHANGED sub \/ \E h \in Handlers : ApplyDirectly(h) \/ Activate(h)
  <1>1. ASSUME NEW h \in Handlers, Continue(h)
        PROVE  UNCHANGED sub \/ ApplyDirectly(h) \/ Activate(h)
    BY <1>1 DEF Continue, FindPending, RefreshQuote, CountInvoices, CreateInvoice,
                InitializeTransaction, AttachNewReference, LookupByReference, LookupById,
                AttachReference, MarkPaid, MarkFailed, SyncRole, ResolveRole, StoreRole,
                MarkProcessed, Acknowledge, rows
  <1> QED
    BY <1>1 DEF Next, Fault, SelectPlan, Proceed, Callback, RunJob, CustomerPays,
                ReceiveWebhook, Crash, rows, vars

\* When handlers do not overlap, the plan only goes up by a step that writes
\* exactly an offer some transaction has been paid for.
THEOREM UpgradesPaidWhenSerial ==
    ASSUME MaxInFlight <= 1
    PROVE  Spec => UpgradesArePaid
  <1>1. IInv /\ SerialInv /\ [Next]_vars
        => [sub'.amount > sub.amount =>
              \E r \in Refs : tx[r].state = "paid" /\ tx[r].offer = sub']_vars
    <2> SUFFICES ASSUME IInv, SerialInv, [Next]_vars, sub'.amount > sub.amount
                 PROVE  \E r \in Refs : tx[r].state = "paid" /\ tx[r].offer = sub'
      OBVIOUS
    <2>1. sub \in Offers /\ sub.amount \in Nat
      BY OffersAssumption DEF IInv, TypeOK
    <2>2. sub' # sub
      BY <2>1
    <2>3. ASSUME NEW h \in Handlers, ApplyDirectly(h) PROVE FALSE
      <3>1. sub' = local[h].offer /\ local[h].offer.amount <= sub.amount
        BY <2>3 DEF ApplyDirectly, SerialInv, ReadsHold
      <3>2. local[h].offer.amount \in Nat
        BY OffersAssumption DEF IInv, TypeOK, Locals
      <3> QED
        BY <2>1, <3>1, <3>2
    <2>4. ASSUME NEW h \in Handlers, Activate(h)
          PROVE  \E r \in Refs : tx[r].state = "paid" /\ tx[r].offer = sub'
      <3>1. pc[h] = "activate" /\ sub' = local[h].offer /\ HandlerOK(h)
        BY <2>4 DEF Activate, IInv
      <3>2. local[h].ref \in Refs
            /\ tx[local[h].ref] = [state |-> "paid", inv |-> local[h].inv, offer |-> local[h].offer]
        BY <3>1 DEF HandlerOK
      <3>3. tx[local[h].ref].state = "paid" /\ tx[local[h].ref].offer = sub'
        BY <3>1, <3>2
      <3> QED
        BY <3>2, <3>3
    <2> QED
      BY <2>2, <2>3, <2>4, SubscriptionWrites
  <1> QED
    BY <1>1, Invariance, SerialInvariance, PTL DEF Spec, UpgradesArePaid

-----------------------------------------------------------------------------
(* How often one payment is applied *)

\* What activates an invoice without marking it PAID is a fault, so beyond the
\* faults there is one activation at most, and only behind a PAID.
Counted(i) ==
    /\ activations[i] <= faults + 1
    /\ activations[i] > faults =>
          \/ invoice[i].status = "PAID"
          \/ \E h \in Handlers : pc[h] = "markPaid" /\ local[h].inv = i

CountInv == \A i \in Invoices : Counted(i)

\* No activation is written, and the handlers on their way to PAID stay there.
LEMMA CountFrame ==
    ASSUME IInv, IInv', SerialInv, CountInv, [Next]_vars, UNCHANGED activations, faults <= faults',
           \A h \in Handlers : pc[h] = "markPaid" => pc'[h] = pc[h] /\ local'[h] = local[h]
    PROVE  CountInv'
  <1> SUFFICES ASSUME NEW i \in Invoices PROVE Counted(i)'
    BY DEF CountInv
  <1>1. faults \in Nat /\ faults' \in Nat /\ activations[i] \in Nat /\ Counted(i)
    BY BoundsAssumption DEF IInv, TypeOK, CountInv
  <1>2. invoice[i].status = "PAID" => invoice'[i].status = "PAID"
    BY NextTerminal DEF Terminal
  <1> QED
    BY <1>1, <1>2 DEF Counted

\* A fault allows for the activation it may have left without its PAID.
LEMMA CountFault ==
    ASSUME IInv, IInv', CountInv, UNCHANGED activations, faults' = faults + 1
    PROVE  CountInv'
  <1>1. faults \in Nat /\ activations \in [Invoices -> Nat]
    BY BoundsAssumption DEF IInv, TypeOK
  <1> QED
    BY <1>1 DEF CountInv, Counted

\* Only an invoice that is PENDING is activated.
LEMMA CountActivate ==
    ASSUME IInv, SerialInv, CountInv, NEW h \in Handlers, Activate(h)
    PROVE  CountInv'
  <1> DEFINE j == local[h].inv
  <1>1. TypeOK /\ ReadsHold(h) /\ HandlerOK(h) /\ activations \in [Invoices -> Nat] /\ faults \in Nat
    BY BoundsAssumption DEF IInv, TypeOK, SerialInv
  <1>2. pc[h] = "activate" /\ UNCHANGED <<invoice, faults>>
        /\ activations' = [activations EXCEPT ![j] = @ + 1]
        /\ pc'[h] = "markPaid" /\ local'[h] = local[h]
    BY <1>1, GotoOthers DEF Activate
  <1>3. j \in Invoices /\ invoice[j].status = "PENDING"
    BY <1>1, <1>2 DEF HandlerOK, HasRow, ReadsHold, Writers
  <1>4. \A g \in Handlers : pc[g] # "markPaid"
    BY <1>2 DEF SerialInv, Alone
  <1>5. \A i \in Invoices : activations[i] > faults => invoice[i].status = "PAID"
    BY <1>4 DEF CountInv, Counted
  <1>6. activations[j] <= faults
    BY <1>1, <1>3, <1>5
  <1>7. activations'[j] = activations[j] + 1
        /\ \A i \in Invoices \ {j} : activations'[i] = activations[i]
    BY <1>1, <1>2, <1>3
  <1>8. \A i \in Invoices : i = j => Counted(i)'
    BY <1>1, <1>2, <1>6, <1>7 DEF Counted
  <1>9. \A i \in Invoices \ {j} : Counted(i)'
    BY <1>1, <1>2, <1>5, <1>7 DEF Counted, CountInv
  <1> QED
    BY <1>8, <1>9 DEF CountInv

\* And its PAID follows before anything else.
LEMMA CountPaid ==
    ASSUME IInv, SerialInv, CountInv, NEW h \in Handlers, MarkPaid(h)
    PROVE  CountInv'
  <1> DEFINE j == local[h].inv
  <1>1. TypeOK /\ HandlerOK(h) /\ invoice \in [Invoices -> InvoiceRows]
    BY DEF IInv, TypeOK
  <1>2. pc[h] = "markPaid" /\ UNCHANGED <<activations, faults>>
        /\ invoice' = [invoice EXCEPT ![j].status = "PAID"]
    BY DEF MarkPaid
  <1>3. j \in Invoices
    BY <1>1, <1>2 DEF HandlerOK, HasRow
  <1>4. invoice'[j].status = "PAID" /\ \A i \in Invoices \ {j} : invoice'[i] = invoice[i]
    BY <1>1, <1>2, <1>3 DEF InvoiceRows
  <1>5. \A g \in Handlers \ {h} : pc[g] # "markPaid"
    BY <1>2 DEF SerialInv, Alone
  <1>6. \A i \in Invoices \ {j} : activations[i] > faults => invoice[i].status = "PAID"
    BY <1>5 DEF CountInv, Counted
  <1> QED
    BY <1>2, <1>4, <1>6 DEF Counted, CountInv

\* Every step of a serial execution keeps the count.
LEMMA NextCount == IInv /\ IInv' /\ SerialInv /\ CountInv /\ [Next]_vars => CountInv'
  <1> SUFFICES ASSUME IInv, IInv', SerialInv, CountInv, [Next]_vars PROVE CountInv'
    OBVIOUS
  <1>1. TypeOK /\ faults \in Nat
    BY BoundsAssumption DEF IInv, TypeOK
  <1>2. ASSUME NEW h \in Handlers, pc[h] # "markPaid", UNCHANGED <<activations, faults>>,
               \A g \in Handlers \ {h} : pc'[g] = pc[g] /\ local'[g] = local[g]
        PROVE  CountInv'
    BY <1>1, <1>2, CountFrame
  <1>3. ASSUME NEW h \in Handlers, Continue(h) PROVE CountInv'
    <2>1. \/ Activate(h) \/ MarkPaid(h)
          \/ pc[h] # "markPaid" /\ UNCHANGED <<activations, faults>>
      BY <1>3 DEF Continue, ApplyDirectly, FindPending, RefreshQuote, CountInvoices,
         CreateInvoice, InitializeTransaction, AttachNewReference, LookupByReference,
         LookupById, AttachReference, MarkFailed, SyncRole, ResolveRole, StoreRole,
         MarkProcessed, Acknowledge, rows
    <2> QED
      BY <1>1, <1>2, <1>3, <2>1, ContinueOthers, CountActivate, CountPaid
  <1>4. ASSUME NEW h \in Handlers,
               \/ \E o \in Offers : SelectPlan(h, o)
               \/ \E i \in Invoices : Proceed(h, i)
               \/ \E r \in Refs : Callback(h, r) \/ RunJob(h, r)
        PROVE  CountInv'
    <2>1. pc[h] = "idle" /\ UNCHANGED <<activations, faults>>
      BY <1>4 DEF SelectPlan, Proceed, Callback, RunJob, Idle, rows
    <2> QED
      BY <1>1, <1>2, <1>4, <2>1, StartSettles
  <1>5. ASSUME NEW h \in Handlers, Fault(h) PROVE CountInv'
    BY <1>5, CountFault DEF Fault
  <1>6. ASSUME NEW dead \in SUBSET Running, Crash(dead) PROVE CountInv'
    BY <1>6, CountFault DEF Crash
  <1>7. ASSUME NEW r \in Refs, CustomerPays(r) \/ ReceiveWebhook(r) PROVE CountInv'
    <2>1. UNCHANGED <<activations, pc, local>> /\ faults <= faults'
      BY <1>1, <1>7 DEF CustomerPays, ReceiveWebhook
    <2> QED
      BY <2>1, CountFrame
  <1>8. CASE UNCHANGED vars
    <2>1. UNCHANGED <<activations, pc, local>> /\ faults <= faults'
      BY <1>1, <1>8 DEF vars
    <2> QED
      BY <2>1, CountFrame
  <1> QED
    BY <1>3, <1>4, <1>5, <1>6, <1>7, <1>8 DEF Next

\* The count holds throughout a serial execution.
LEMMA CountInvariance ==
    ASSUME MaxInFlight <= 1
    PROVE  Spec => []CountInv
  <1>1. Init => CountInv
    BY DEF Init, CountInv, Counted
  <1> QED
    BY <1>1, NextCount, Invariance, SerialInvariance, PTL DEF Spec

\* A payment is applied once, and once more at most for every fault there was:
\* nothing but a failure between the subscription write and MarkPaid makes the
\* callback, the webhook or a retry of either write it again.
THEOREM AppliedAgainOnlyAfterFault ==
    ASSUME MaxInFlight <= 1
    PROVE  Spec => [](\A i \in Invoices : activations[i] <= faults + 1)
  <1>1. CountInv => \A i \in Invoices : activations[i] <= faults + 1
    BY DEF CountInv, Counted
  <1> QED
    BY <1>1, CountInvariance, PTL

\* The callback and the webhook of a payment, in either order and repeated, write
\* the subscription for it once, when handlers do not overlap and nothing fails.
THEOREM AppliedOnceWhenSerial ==
    ASSUME MaxInFlight <= 1, MaxFaults = 0
    PROVE  Spec => []AppliedOnce
  <1>1. IInv /\ CountInv => AppliedOnce
    BY DEF IInv, TypeOK, CountInv, Counted, AppliedOnce
  <1> QED
    BY <1>1, Invariance, CountInvariance, PTL

-----------------------------------------------------------------------------
(* Handlers that neither overlap nor fail *)

\* What syncOwnerRoles read still is the stored role, then the current plan.
RoleHolds(h) ==
    /\ pc[h] = "resolve" => local[h].seen = role
    /\ pc[h] = "store" => local[h].offer = sub

\* The stretch of a handler in which the stored role may be behind.
RoleBehind(h) == pc[h] \in {"markPaid", "sync", "resolve", "store"}

RoleInv ==
    /\ \A h \in Handlers : RoleHolds(h)
    /\ role = sub.plan \/ \E h \in Handlers : RoleBehind(h)

\* A step that writes neither the subscription nor the role, by a handler that was
\* not behind with the role and is not now.
LEMMA RoleFrame ==
    ASSUME RoleInv, NEW h \in Handlers, UNCHANGED <<sub, role>>,
           \A g \in Handlers \ {h} : pc[g] = "idle" /\ pc'[g] = pc[g],
           ~RoleBehind(h), ~RoleBehind(h)'
    PROVE  RoleInv'
  <1>1. \A g \in Handlers : ~RoleBehind(g)
    BY DEF RoleBehind
  <1>2. \A g \in Handlers : ~RoleBehind(g)'
    BY DEF RoleBehind
  <1>3. \A g \in Handlers : RoleHolds(g)'
    BY <1>2 DEF RoleHolds, RoleBehind
  <1> QED
    BY <1>1, <1>3 DEF RoleInv

\* A direct write and the steps of syncOwnerRoles.
LEMMA RoleSteps ==
    ASSUME IInv, RoleInv, NEW h \in Handlers,
           ApplyDirectly(h) \/ SyncRole(h) \/ ResolveRole(h) \/ StoreRole(h),
           \A g \in Handlers \ {h} : pc[g] = "idle" /\ pc'[g] = pc[g]
    PROVE  RoleInv'
  <1>1. TypeOK /\ RoleHolds(h) /\ local[h] \in Locals
    BY DEF IInv, TypeOK, RoleInv
  <1>3. SUFFICES RoleHolds(h)' /\ (role' = sub'.plan \/ RoleBehind(h)')
    <2>1. \A g \in Handlers \ {h} : RoleHolds(g)'
      BY DEF RoleHolds
    <2> QED
      BY <1>3, <2>1 DEF RoleInv
  <1>4. Return(h) => pc'[h] \in {"finish", "idle"}
    BY <1>1, GotoOthers DEF Return
  <1>5. CASE ApplyDirectly(h)
    <2>1. pc'[h] = "sync"
      BY <1>1, <1>5, GotoOthers DEF ApplyDirectly
    <2> QED
      BY <2>1 DEF RoleHolds, RoleBehind
  <1>6. CASE SyncRole(h)
    <2> DEFINE l == [local[h] EXCEPT !.seen = role]
    <2>1. l.seen = role /\ UNCHANGED role
      BY <1>1, <1>6 DEF Locals, SyncRole, rows
    <2>2. pc'[h] = "resolve" /\ local'[h] = l
      BY <1>1, <1>6, GotoOthers DEF SyncRole
    <2> QED
      BY <2>1, <2>2 DEF RoleHolds, RoleBehind
  <1>7. CASE ResolveRole(h)
    <2> DEFINE l == [local[h] EXCEPT !.offer = sub]
    <2>1. l.offer = sub /\ UNCHANGED <<sub, role>> /\ local[h].seen = role
      BY <1>1, <1>7 DEF Locals, ResolveRole, rows, RoleHolds
    <2>2. CASE local[h].seen = sub.plan /\ Return(h)
      BY <1>4, <2>1, <2>2 DEF RoleHolds
    <2>3. CASE Goto(h, "store", l)
      <3>1. pc'[h] = "store" /\ local'[h] = l
        BY <1>1, <2>3, GotoOthers
      <3> QED
        BY <2>1, <3>1 DEF RoleHolds, RoleBehind
    <2> QED
      BY <1>7, <2>2, <2>3 DEF ResolveRole
  <1>8. CASE StoreRole(h)
    <2>1. role' = sub.plan /\ UNCHANGED sub
      BY <1>1, <1>8 DEF StoreRole, RoleHolds
    <2> QED
      BY <1>4, <1>8, <2>1 DEF RoleHolds, StoreRole
  <1> QED
    BY <1>5, <1>6, <1>7, <1>8

\* The writes of an activation and of its PAID open the stretch.
LEMMA RoleFallsBehind ==
    ASSUME IInv, RoleInv, NEW h \in Handlers, Activate(h) \/ MarkPaid(h),
           \A g \in Handlers \ {h} : pc[g] = "idle" /\ pc'[g] = pc[g]
    PROVE  RoleInv'
  <1>1. TypeOK
    BY DEF IInv
  <1>2. pc'[h] \in {"markPaid", "sync"}
    BY <1>1, GotoOthers DEF Activate, MarkPaid
  <1>3. \A g \in Handlers : RoleHolds(g)'
    BY <1>2 DEF RoleHolds
  <1>4. RoleBehind(h)'
    BY <1>2 DEF RoleBehind
  <1> QED
    BY <1>3, <1>4 DEF RoleInv

\* The other steps are outside the stretch where the role is behind.
LEMMA QuietStep ==
    ASSUME IInv, NEW h \in Handlers,
           \/ FindPending(h) \/ RefreshQuote(h) \/ CountInvoices(h) \/ CreateInvoice(h)
           \/ InitializeTransaction(h) \/ AttachNewReference(h)
           \/ LookupByReference(h) \/ LookupById(h) \/ AttachReference(h)
           \/ MarkFailed(h) \/ MarkProcessed(h) \/ Acknowledge(h)
    PROVE  UNCHANGED <<sub, role>> /\ ~RoleBehind(h) /\ ~RoleBehind(h)'
  <1>1. TypeOK
    BY DEF IInv
  <1>2. Return(h) => ~RoleBehind(h)'
    <2>1. Return(h) => pc'[h] \in {"finish", "idle"}
      BY <1>1, GotoOthers DEF Return
    <2> QED
      BY <2>1 DEF RoleBehind
  <1>3. ASSUME NEW label \in {"count", "refresh", "create", "attachNew", "lookupById", "attach",
                              "activate", "markFailed", "ack", "idle"},
               NEW l, Goto(h, label, l)
        PROVE  ~RoleBehind(h)'
    <2>1. pc'[h] = label
      BY <1>1, <1>3, GotoOthers
    <2> QED
      BY <1>3, <2>1 DEF RoleBehind
  <1>4. ASSUME NEW i, NEW row, Decide(h, i, row) PROVE ~RoleBehind(h)'
    BY <1>2, <1>3, <1>4 DEF Decide
  <1>5. ~RoleBehind(h)'
    <2>1. CASE FindPending(h) \/ RefreshQuote(h) \/ CountInvoices(h) \/ CreateInvoice(h)
               \/ InitializeTransaction(h) \/ AttachNewReference(h)
      BY <1>2, <1>3, <2>1 DEF FindPending, RefreshQuote, CountInvoices, CreateInvoice,
         InitializeTransaction, AttachNewReference
    <2>2. CASE LookupByReference(h) \/ LookupById(h) \/ AttachReference(h)
      BY <1>3, <1>4, <2>2 DEF LookupByReference, LookupById, AttachReference
    <2>3. CASE MarkFailed(h) \/ MarkProcessed(h) \/ Acknowledge(h)
      BY <1>2, <1>3, <2>3 DEF MarkFailed, MarkProcessed, Acknowledge
    <2> QED
      BY <2>1, <2>2, <2>3
  <1>6. ~RoleBehind(h) /\ UNCHANGED <<sub, role>>
    BY DEF FindPending, RefreshQuote, CountInvoices, CreateInvoice, InitializeTransaction,
           AttachNewReference, LookupByReference, LookupById, AttachReference, MarkFailed,
           MarkProcessed, Acknowledge, rows, RoleBehind
  <1> QED
    BY <1>5, <1>6

\* So is the start of a handler.
LEMMA QuietStart ==
    ASSUME IInv, NEW h \in Handlers,
           \/ \E o \in Offers : SelectPlan(h, o)
           \/ \E i \in Invoices : Proceed(h, i)
           \/ \E r \in Refs : Callback(h, r) \/ RunJob(h, r)
    PROVE  UNCHANGED <<sub, role>> /\ ~RoleBehind(h) /\ ~RoleBehind(h)'
  <1>1. TypeOK
    BY DEF IInv
  <1>2. pc[h] = "idle" /\ UNCHANGED <<sub, role>>
    BY DEF SelectPlan, Proceed, Callback, RunJob, Idle, rows
  <1>3. ASSUME NEW label \in {"find", "apply", "initialize", "lookup", "ack"},
               NEW l, Goto(h, label, l)
        PROVE  ~RoleBehind(h)'
    <2>1. pc'[h] = label
      BY <1>1, <1>3, GotoOthers
    <2> QED
      BY <1>3, <2>1 DEF RoleBehind
  <1> QED
    BY <1>2, <1>3 DEF SelectPlan, Proceed, Callback, RunJob, RoleBehind

\* Every step of a serial execution without faults keeps RoleInv.
LEMMA NextRole ==
    MaxInFlight <= 1 /\ MaxFaults = 0 /\ IInv /\ SerialInv /\ RoleInv /\ [Next]_vars
    => RoleInv'
  <1> SUFFICES ASSUME MaxInFlight <= 1, MaxFaults = 0, IInv, SerialInv, RoleInv, [Next]_vars
               PROVE  RoleInv'
    OBVIOUS
  <1>1. TypeOK /\ Alone /\ faults = 0
    BY DEF IInv, TypeOK, SerialInv
  <1>2. ASSUME NEW h \in Handlers, Continue(h) PROVE RoleInv'
    <2>1. pc[h] # "idle"
      BY <1>2 DEF Continue, ApplyDirectly, FindPending, RefreshQuote, CountInvoices,
         CreateInvoice, InitializeTransaction, AttachNewReference, LookupByReference,
         LookupById, AttachReference, Activate, MarkPaid, MarkFailed, SyncRole,
         ResolveRole, StoreRole, MarkProcessed, Acknowledge
    <2>2. \A g \in Handlers \ {h} : pc[g] = "idle" /\ pc'[g] = pc[g]
      BY <1>1, <1>2, <2>1, ContinueOthers DEF Alone
    <2>3. CASE ApplyDirectly(h) \/ SyncRole(h) \/ ResolveRole(h) \/ StoreRole(h)
      BY <2>2, <2>3, RoleSteps
    <2>4. CASE Activate(h) \/ MarkPaid(h)
      BY <2>2, <2>4, RoleFallsBehind
    <2>5. CASE \/ FindPending(h) \/ RefreshQuote(h) \/ CountInvoices(h) \/ CreateInvoice(h)
               \/ InitializeTransaction(h) \/ AttachNewReference(h)
               \/ LookupByReference(h) \/ LookupById(h) \/ AttachReference(h)
               \/ MarkFailed(h) \/ MarkProcessed(h) \/ Acknowledge(h)
      BY <2>2, <2>5, QuietStep, RoleFrame
    <2> QED
      BY <1>2, <2>3, <2>4, <2>5 DEF Continue
  <1>3. ASSUME NEW h \in Handlers,
               \/ \E o \in Offers : SelectPlan(h, o)
               \/ \E i \in Invoices : Proceed(h, i)
               \/ \E r \in Refs : Callback(h, r) \/ RunJob(h, r)
        PROVE  RoleInv'
    <2>1. \A g \in Handlers \ {h} : pc[g] = "idle" /\ pc'[g] = pc[g]
      BY <1>1, <1>3, StartReads, StartsAlone
    <2> QED
      BY <1>3, <2>1, QuietStart, RoleFrame
  <1>4. CASE UNCHANGED <<sub, role, pc, local>>
    BY <1>4 DEF RoleInv, RoleHolds, RoleBehind
  <1>5. \A h \in Handlers : ~Fault(h)
    BY <1>1 DEF Fault
  <1>6. \A dead \in SUBSET Running : ~Crash(dead)
    BY <1>1 DEF Crash
  <1> QED
    BY <1>2, <1>3, <1>4, <1>5, <1>6 DEF Next, CustomerPays, ReceiveWebhook, vars

\* It holds at the start, and so throughout.
LEMMA RoleInvariance ==
    ASSUME MaxInFlight <= 1, MaxFaults = 0
    PROVE  Spec => []RoleInv
  <1>1. Init => RoleInv
    BY DEF Init, RoleInv, RoleHolds
  <1>2. IInv /\ SerialInv /\ RoleInv /\ [Next]_vars => RoleInv'
    BY NextRole
  <1> QED
    BY <1>1, <1>2, Invariance, SerialInvariance, PTL DEF Spec

\* When handlers do not overlap and nothing fails, the owner's stored role is that
\* of the current plan whenever no handler is at work.
THEOREM RoleFollowsWhenSerial ==
    ASSUME MaxInFlight <= 1, MaxFaults = 0
    PROVE  Spec => []RoleFollowsPlan
  <1>1. RoleInv => RoleFollowsPlan
    BY DEF RoleInv, RoleBehind, RoleFollowsPlan, Running
  <1> QED
    BY <1>1, RoleInvariance, PTL
=============================================================================

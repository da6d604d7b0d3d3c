------------------------------- MODULE Billing -------------------------------
(***************************************************************************)
(* The subscription of one parent at one school and everything that is     *)
(* paid for it: wallet payments captured by the internal API, manual       *)
(* payments approved by an admin, invoices, and the admin's own edits of   *)
(* the subscription rows.  No handler opens a transaction: every database  *)
(* call is a step, and the steps of concurrent requests interleave.  Time  *)
(* is counted in months; 30 days and a calendar month are not told apart.  *)
(***************************************************************************)
EXTENDS Integers, Sequences, FiniteSets, Folds

CONSTANTS Requests,   \* wallet payment requests (school_camera_payment_requests)
          Payments,   \* manual payments
          Invoices,
          Handlers,   \* goroutines that serve a capture or an approval
          Months,     \* months bought by a wallet payment request
          NoItem, NoEnd,
          MaxRows,    \* bound: subscription rows
          MaxNow,     \* bound: months that pass
          MaxFaults,  \* bound: cancelled requests, crashes, failed writes
          MaxEdits    \* bound: edits of subscription rows by an admin

Items == Requests \cup Payments

ASSUME BillingAssumption ==
    /\ IsFiniteSet(Requests) /\ IsFiniteSet(Payments)
    /\ Requests \cap Payments = {} /\ NoItem \notin Items /\ NoEnd \notin Int
    /\ Months \in [Requests -> Nat \ {0}]
    /\ MaxRows \in Nat /\ MaxNow \in Nat /\ MaxFaults \in Nat /\ MaxEdits \in Nat

VARIABLES request,   \* status of a wallet payment request
          completed, \* requests with a completed_at
          recorded,  \* requests with a row in payments
          payment,   \* manual payments: status and subscription_id
          invoice,   \* status of an invoice
          subs,      \* subscription rows, by created_at
          task,      \* where each handler is, with its locals
          now,
          credits,   \* history: extensions written on behalf of an item
          overlap,   \* history: an extension was read while one was pending
          budget

paid == <<request, completed, recorded, payment, invoice>>
vars == <<paid, subs, task, now, credits, overlap, budget>>

SubStatuses == {"ACTIVE", "TRIAL", "PAST_DUE", "CANCELLED", "BLOCKED"}

Row == [status : SubStatuses, ends : Nat \cup {NoEnd}]

Task == [pc       : {"idle", "mark", "read", "write", "record", "complete",
                     "find", "settle"},
         item     : Items \cup {NoItem},
         row      : Nat,                 \* the row that was read, 0: none
         activate : BOOLEAN,             \* ActivateSubscription, not Extend
         ends     : Nat,                 \* the end it will write
         invoice  : SUBSET Invoices]     \* the open invoice that was found

IdleTask == [pc |-> "idle", item |-> NoItem, row |-> 0, activate |-> FALSE,
             ends |-> 0, invoice |-> {}]

\* A handler works for an item, and a capture alone records and completes.
WellPlaced(t) ==
    /\ t.pc \in {"mark", "read", "write"} => t.item \in Items
    /\ t.pc \in {"record", "complete"} => t.item \in Requests

IsLive(row) == row.status \in {"ACTIVE", "TRIAL"}

TypeOK ==
    /\ request \in [Requests -> {"none", "pending", "paid"}]
    /\ completed \subseteq Requests /\ recorded \subseteq Requests
    /\ payment \in [Payments -> [status : {"none", "PENDING", "APPROVED", "REJECTED"},
                                 row : Nat]]
    /\ invoice \in [Invoices -> {"none", "OPEN", "PAID", "VOID"}]
    /\ subs \in Seq(Row)
    /\ \A p \in Payments : payment[p].row <= Len(subs)
    /\ task \in [Handlers -> Task]
    /\ \A h \in Handlers : task[h].row <= Len(subs) /\ WellPlaced(task[h])
    /\ now \in Nat
    /\ credits \in [Items -> Nat]
    /\ overlap \in BOOLEAN
    /\ budget \in [faults : 0..MaxFaults, edits : 0..MaxEdits]

\* The parent has no subscription, or the one the invitation or an admin gave.
Init ==
    /\ request = [r \in Requests |-> "none"]
    /\ completed = {} /\ recorded = {}
    /\ payment = [p \in Payments |-> [status |-> "none", row |-> 0]]
    /\ invoice = [i \in Invoices |-> "none"]
    /\ subs \in {<<>>, <<[status |-> "TRIAL", ends |-> 1]>>,
                 <<[status |-> "ACTIVE", ends |-> NoEnd]>>}
    /\ task = [h \in Handlers |-> IdleTask]
    /\ now = 0
    /\ credits = [x \in Items |-> 0]
    /\ overlap = FALSE
    /\ budget = [faults |-> 0, edits |-> 0]

-----------------------------------------------------------------------------
(* Abbreviations. *)

MonthsOf(x) == IF x \in Requests THEN Months[x] ELSE 1

\* Mutants of Extended: a subscription without an end keeps it; the months start
\* now even when access is left; a month too many is given.
ExtendedUnlessEndless(ends, months) ==
    IF ends = NoEnd THEN NoEnd ELSE IF ends > now THEN ends + months ELSE now + months
ExtendedFromNow(ends, months) == now + months
ExtendedTooFar(ends, months) ==
    IF ends # NoEnd /\ ends > now THEN ends + months + 1 ELSE now + months + 1

\* base is ends_at when it is set and in the future, and now otherwise.
Extended(ends, months) ==
    IF ends # NoEnd /\ ends > now THEN ends + months ELSE now + months

\* idx_subscriptions_active_parent_school: one ACTIVE or TRIAL row.
OneLiveRow(rows) ==
    \A i, j \in DOMAIN rows : IsLive(rows[i]) /\ IsLive(rows[j]) => i = j

Goto(h, pc) == task' = [task EXCEPT ![h].pc = pc]
Finish(h) == task' = [task EXCEPT ![h] = IdleTask]

-----------------------------------------------------------------------------
(* Wallet payments: the parent's request and its capture. *)

\* SuperAppCreatePaymentRequest; a repeated idempotency key returns the row.
CreatePaymentRequest(r) ==
    /\ request[r] = "none"
    /\ request' = [request EXCEPT ![r] = "pending"]
    /\ UNCHANGED <<completed, recorded, payment, invoice>>
    /\ UNCHANGED <<subs, task, now, credits, overlap, budget>>

\* PaymentCaptured goes on only for a request it reads as pending; the wallet
\* transfer, and so the reference, of a request is unique.
PaymentCaptured(h, r) ==
    /\ task[h].pc = "idle" /\ request[r] = "pending"
    /\ task' = [task EXCEPT ![h] = [IdleTask EXCEPT !.pc = "mark", !.item = r]]
    /\ UNCHANGED <<paid, subs, now, credits, overlap, budget>>

\* Mutant: the UPDATE has no "AND status = 'pending'".
MarkPaidUnconditionally(h) ==
    LET r == task[h].item IN
    /\ task[h].pc = "mark" /\ r \in Requests
    /\ request' = [request EXCEPT ![r] = "paid"] /\ Goto(h, "read")
    /\ UNCHANGED <<completed, recorded, payment, invoice>>
    /\ UNCHANGED <<subs, now, credits, overlap, budget>>

\* MarkPaymentRequestPaid: one concurrent capture wins, the others answer
\* from the paid row.
MarkPaymentRequestPaid(h) ==
    LET r == task[h].item IN
    /\ task[h].pc = "mark" /\ r \in Requests
    /\ IF request[r] = "pending"
       THEN request' = [request EXCEPT ![r] = "paid"] /\ Goto(h, "read")
       ELSE UNCHANGED request /\ Finish(h)
    /\ UNCHANGED <<completed, recorded, payment, invoice>>
    /\ UNCHANGED <<subs, now, credits, overlap, budget>>

\* applySubscriptionExtension reads the newest row of the pair, the approval
\* the row its payment names; the new end is computed from what was read.
ReadSubscription(h) ==
    LET x   == task[h].item
        row == IF x \in Requests THEN Len(subs) ELSE payment[x].row IN
    /\ task[h].pc = "read"
    /\ task' = [task EXCEPT ![h] =
         [IdleTask EXCEPT !.pc = "write", !.item = x, !.row = row,
            !.activate = row # 0 /\ (x \in Payments \/ subs[row].status # "ACTIVE"),
            !.ends = Extended(IF row = 0 THEN NoEnd ELSE subs[row].ends,
                              MonthsOf(x))]]
    /\ overlap' = (overlap \/ \E g \in Handlers \ {h} : task[g].pc = "write")
    /\ UNCHANGED <<paid, subs, now, credits, budget>>

\* The rows after the absolute write of a handler.
Written(t) ==
    IF t.row = 0 THEN Append(subs, [status |-> "ACTIVE", ends |-> t.ends])
    ELSE [subs EXCEPT ![t.row] =
            [status |-> IF t.activate THEN "ACTIVE" ELSE subs[t.row].status,
             ends |-> t.ends]]

\* A capture goes on to its payments row, an approval to the invoice.
WriteSubscription(h) ==
    LET t == task[h] IN
    /\ t.pc = "write" /\ OneLiveRow(Written(t)) /\ Len(Written(t)) <= MaxRows
    /\ subs' = Written(t)
    /\ credits' = [credits EXCEPT ![t.item] = @ + 1]
    /\ Goto(h, IF t.item \in Requests THEN "record" ELSE "find")
    /\ UNCHANGED <<paid, now, overlap, budget>>

\* Mutant: the capture ignores the error, as the approval does.
RefusalIgnored(h) ==
    LET t == task[h] IN
    /\ t.pc = "write" /\ ~OneLiveRow(Written(t))
    /\ Goto(h, IF t.item \in Requests THEN "record" ELSE "find")
    /\ UNCHANGED <<paid, subs, now, credits, overlap, budget>>

\* The unique index refuses the write: the capture answers
\* SUBSCRIPTION_UPDATE_FAILED, the approval ignores the error.
WriteRefused(h) ==
    LET t == task[h] IN
    /\ t.pc = "write" /\ ~OneLiveRow(Written(t))
    /\ IF t.item \in Requests THEN Finish(h) ELSE Goto(h, "find")
    /\ UNCHANGED <<paid, subs, now, credits, overlap, budget>>

CreatePaymentRecord(h) ==
    /\ task[h].pc = "record"
    /\ recorded' = recorded \cup {task[h].item}
    /\ Goto(h, "complete")
    /\ UNCHANGED <<request, completed, payment, invoice>>
    /\ UNCHANGED <<subs, now, credits, overlap, budget>>

MarkPaymentRequestCompleted(h) ==
    /\ task[h].pc = "complete"
    /\ completed' = completed \cup {task[h].item}
    /\ Finish(h)
    /\ UNCHANGED <<request, recorded, payment, invoice>>
    /\ UNCHANGED <<subs, now, credits, overlap, budget>>

-----------------------------------------------------------------------------
(* Manual payments and invoices. *)

SetPayment(p, status) ==
    /\ payment' = [payment EXCEPT ![p].status = status]
    /\ UNCHANGED <<request, completed, recorded, invoice>>

SetInvoice(i, status) ==
    /\ invoice' = [invoice EXCEPT ![i] = status]
    /\ UNCHANGED <<request, completed, recorded, payment>>

\* POST /admin/payments, with or without a subscription of the parent.
CreatePayment(p, row) ==
    /\ payment[p].status = "none"
    /\ payment' = [payment EXCEPT ![p] = [status |-> "PENDING", row |-> row]]
    /\ UNCHANGED <<request, completed, recorded, invoice>>
    /\ UNCHANGED <<subs, task, now, credits, overlap, budget>>

\* PATCH /admin/payments/:id/approve, up to its check of the status.
ApprovePayment(h, p) ==
    /\ task[h].pc = "idle" /\ payment[p].status = "PENDING"
    /\ task' = [task EXCEPT ![h] = [IdleTask EXCEPT !.pc = "mark", !.item = p]]
    /\ UNCHANGED <<paid, subs, now, credits, overlap, budget>>

\* UPDATE payments ... WHERE status = 'PENDING'; without a subscription the
\* handler goes straight to the invoice.
MarkPaymentApproved(h) ==
    LET p == task[h].item IN
    /\ task[h].pc = "mark" /\ p \in Payments
    /\ IF payment[p].status = "PENDING"
       THEN /\ SetPayment(p, "APPROVED")
            /\ Goto(h, IF payment[p].row = 0 THEN "find" ELSE "read")
       ELSE UNCHANGED paid /\ Finish(h)
    /\ UNCHANGED <<subs, now, credits, overlap, budget>>

RejectPayment(p) ==
    /\ payment[p].status = "PENDING"
    /\ SetPayment(p, "REJECTED")
    /\ UNCHANGED <<subs, task, now, credits, overlap, budget>>

\* FindOpenInvoiceForParentSchool.
FindOpenInvoice(h) ==
    /\ task[h].pc = "find"
    /\ IF \A i \in Invoices : invoice[i] # "OPEN" THEN Finish(h)
       ELSE \E i \in Invoices :
              /\ invoice[i] = "OPEN"
              /\ task' = [task EXCEPT ![h] =
                            [task[h] EXCEPT !.pc = "settle", !.invoice = {i}]]
    /\ UNCHANGED <<paid, subs, now, credits, overlap, budget>>

\* Mutant: the UPDATE has no "AND status = 'OPEN'".
SettleWhatWasFound(h) ==
    /\ task[h].pc = "settle"
    /\ \E i \in task[h].invoice : SetInvoice(i, "PAID")
    /\ Finish(h)
    /\ UNCHANGED <<subs, now, credits, overlap, budget>>

\* MarkInvoicePaid of the invoice that was found, if it is still open.
SettleInvoice(h) ==
    /\ task[h].pc = "settle"
    /\ \E i \in task[h].invoice :
         IF invoice[i] = "OPEN" THEN SetInvoice(i, "PAID") ELSE UNCHANGED paid
    /\ Finish(h)
    /\ UNCHANGED <<subs, now, credits, overlap, budget>>

\* POST /admin/invoices, PATCH .../void and .../mark-paid.
AdminInvoice(i) ==
    /\ \/ invoice[i] = "none" /\ SetInvoice(i, "OPEN")
       \/ invoice[i] = "OPEN" /\ (SetInvoice(i, "VOID") \/ SetInvoice(i, "PAID"))
    /\ UNCHANGED <<subs, task, now, credits, overlap, budget>>

-----------------------------------------------------------------------------
(* The admin's edits of subscription rows, time, and failures. *)

Edit(rows) ==
    /\ budget.edits < MaxEdits
    /\ budget' = [budget EXCEPT !.edits = @ + 1]
    /\ OneLiveRow(rows) /\ rows # subs
    /\ subs' = rows
    /\ UNCHANGED <<paid, task, now, credits, overlap>>

\* POST /admin/subscriptions: refused while an unexpired live row exists.
CreateSubscription(status, ends) ==
    /\ Len(subs) < MaxRows
    /\ \A i \in DOMAIN subs :
         ~(IsLive(subs[i]) /\ (subs[i].ends = NoEnd \/ subs[i].ends > now))
    /\ Edit(Append(subs, [status |-> status, ends |-> ends]))

PatchSubscriptionStatus(i, status) == Edit([subs EXCEPT ![i].status = status])

\* An absolute end, which may lie before the present one.
ExtendSubscription(i, ends) == Edit([subs EXCEPT ![i].ends = ends])

MonthPasses ==
    /\ now < MaxNow
    /\ now' = now + 1
    /\ UNCHANGED <<paid, subs, task, credits, overlap, budget>>

\* The client goes away (its context is cancelled), a call fails, or the API
\* dies: the rest of the handler does not run.
HandlerStops(h) ==
    /\ task[h].pc # "idle" /\ budget.faults < MaxFaults
    /\ budget' = [budget EXCEPT !.faults = @ + 1]
    /\ Finish(h)
    /\ UNCHANGED <<paid, subs, now, credits, overlap>>

\* A call fails and its error is dropped: the approval goes on to the invoice,
\* the capture to completed_at.
ErrorDropped(h) ==
    /\ budget.faults < MaxFaults
    /\ budget' = [budget EXCEPT !.faults = @ + 1]
    /\ \/ /\ task[h].pc \in {"read", "write"} /\ task[h].item \in Payments
          /\ Goto(h, "find")
       \/ task[h].pc = "record" /\ Goto(h, "complete")
    /\ UNCHANGED <<paid, subs, now, credits, overlap>>

-----------------------------------------------------------------------------
Serve(h) ==
    \/ \E r \in Requests : PaymentCaptured(h, r)
    \/ \E p \in Payments : ApprovePayment(h, p)
    \/ MarkPaymentRequestPaid(h) \/ MarkPaymentApproved(h)
    \/ ReadSubscription(h) \/ WriteSubscription(h) \/ WriteRefused(h)
    \/ CreatePaymentRecord(h) \/ MarkPaymentRequestCompleted(h)
    \/ FindOpenInvoice(h) \/ SettleInvoice(h)

AdminEdits ==
    \/ \E s \in {"ACTIVE", "PAST_DUE"}, e \in {now + 1, NoEnd} : CreateSubscription(s, e)
    \/ \E i \in DOMAIN subs, s \in SubStatuses : PatchSubscriptionStatus(i, s)
    \/ \E i \in DOMAIN subs, e \in {now, now + 2} : ExtendSubscription(i, e)

Next ==
    \/ \E h \in Handlers : Serve(h) \/ HandlerStops(h) \/ ErrorDropped(h)
    \/ \E r \in Requests : CreatePaymentRequest(r)
    \/ \E p \in Payments : RejectPayment(p)
    \/ \E p \in Payments, row \in 0..Len(subs) : CreatePayment(p, row)
    \/ \E i \in Invoices : AdminInvoice(i)
    \/ AdminEdits \/ MonthPasses

Spec == Init /\ [][Next]_vars

-----------------------------------------------------------------------------
(* Properties. *)

Settled(x) == IF x \in Requests THEN request[x] = "paid"
              ELSE payment[x].status = "APPROVED"

InFlight(x) == \E h \in Handlers : task[h].item = x

\* A payment extends the subscription at most once, and only when it is paid or
\* approved, however many captures and approvals of it run at once, stop half
\* way and are retried: the conditional UPDATE has one winner.
CreditedOnce == \A x \in Items : credits[x] <= 1 /\ (credits[x] = 1 => Settled(x))

\* A request is completed, and shown to admins as a payment, only after its
\* extension was written.
CompletedIsCredited == \A r \in completed \cup recorded : credits[r] = 1

CreditedMonths ==
    MapThenFoldSet(+, 0, LAMBDA x : credits[x] * MonthsOf(x), LAMBDA S : CHOOSE x \in S : TRUE,
                   Items)

\* Without an edit by an admin, no interleaving gives access beyond the present,
\* the month of the trial and the months that were credited.
NeverOvercredited ==
    budget.edits = 0 =>
        \A i \in DOMAIN subs :
            subs[i].ends # NoEnd => subs[i].ends <= now + 1 + CreditedMonths

\* handler.go:117 says the capture is atomic.  A paid request is credited, and
\* the subscription lasts as long as the months that were captured.
CapturedIsCovered ==
    \A r \in Requests : request[r] = "paid" /\ ~InFlight(r) =>
        /\ credits[r] = 1
        /\ \E i \in DOMAIN subs :
             \/ subs[i].ends = NoEnd
             \/ subs[i].ends >= CreditedMonths

\* What does hold: a paid request is covered unless a handler stopped half way,
\* an admin edited the rows, or two extensions overlapped.
CoveredUnlessDisturbed ==
    budget.faults = 0 /\ budget.edits = 0 /\ ~overlap => CapturedIsCovered

\* No administrator edited the rows, and no extension was read while one was pending.
Undisturbed == budget.edits = 0 /\ ~overlap

\* A payment takes no access away, but for a subscription without an end, or
\* when its read is overtaken by another extension or by an edit.
NeverShortened ==
    [][budget'.edits = 0 /\ ~overlap =>
         \A i \in DOMAIN subs :
           subs[i].ends # NoEnd =>
             subs'[i].ends # NoEnd /\ subs'[i].ends >= subs[i].ends]_vars

\* What is settled stays settled: a paid request, a decided payment, an invoice
\* that was paid or voided, also when an approval found the invoice open.
SettledIsFinal ==
    [][/\ \A r \in Requests : request[r] = "paid" => request'[r] = "paid"
       /\ \A p \in Payments : payment[p].status \in {"APPROVED", "REJECTED"} =>
                                payment'[p] = payment[p]
       /\ \A i \in Invoices : invoice[i] \in {"PAID", "VOID"} =>
                                invoice'[i] = invoice[i]]_vars

\* Where an item stands, from the tables and the extension written for it.
Standing ==
    LET Known(status) == CASE status = "none"                 -> "new"
                           [] status \in {"pending", "PENDING"} -> "open"
                           [] status = "REJECTED"             -> "refused"
                           [] OTHER                           -> "settled"
    IN [x \in Items |->
          IF credits[x] > 0 THEN "granted"
          ELSE Known(IF x \in Requests THEN request[x] ELSE payment[x].status)]

MonthsBought == [x \in Items |-> MonthsOf(x)]

Ledger == INSTANCE PaymentLedger WITH
    standing <- Standing, shown <- completed \cup recorded, undisturbed <- Undisturbed,
    Bought <- MonthsBought

\* The statements of the handlers, which no transaction joins, amount to a ledger in
\* which an item is settled and granted once each, and a row is moved by a grant or
\* by an administrator only.  As long as nobody edits and no two extensions overlap,
\* a grant is as good as atomic: it adds what was bought to the row as it is.
ImplementsLedger == Ledger!Spec
=============================================================================

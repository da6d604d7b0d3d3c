--------------------------- MODULE PaymentLedger ---------------------------
(***************************************************************************)
(* What billing promises: a payment is settled in one step, and granted in *)
(* one later step at most, which extends one row of the parent by what was *)
(* bought; nothing else moves a row but an administrator.  Specification   *)
(* only; Billing implements it.                                            *)
(***************************************************************************)
EXTENDS Integers, Sequences

CONSTANTS Requests, Payments, \* wallet payments and manual ones
          Invoices,
          Bought,             \* the months an item buys
          NoEnd

VARIABLES standing,    \* of an item: "new", "open", "refused", "settled", "granted"
          shown,       \* requests reported as completed or listed as payments
          invoice,     \* "none", "OPEN", "PAID" or "VOID"
          subs,        \* the rows of the parent
          now,
          undisturbed  \* no administrator edited a row, no extension overtook another

vars == <<standing, shown, invoice, subs, now, undisturbed>>

Items == Requests \cup Payments

Init ==
    /\ standing = [x \in Items |-> "new"]
    /\ shown = {}
    /\ invoice = [i \in Invoices |-> "none"]
    /\ Len(subs) <= 1
    /\ now = 0
    /\ undisturbed = TRUE

Stands(x, from, to) == standing[x] = from /\ standing' = [standing EXCEPT ![x] = to]

Open(x) ==
    Stands(x, "new", "open") /\ UNCHANGED <<shown, invoice, subs, now, undisturbed>>

Settle(x) ==
    Stands(x, "open", "settled") /\ UNCHANGED <<shown, invoice, subs, now, undisturbed>>

Refuse(p) ==
    Stands(p, "open", "refused") /\ UNCHANGED <<shown, invoice, subs, now, undisturbed>>

\* Row i is new or is written; the others stay.
OneRowWritten(i) ==
    /\ Len(subs') = IF i \in DOMAIN subs THEN Len(subs) ELSE i
    /\ \A j \in DOMAIN subs : j # i => subs'[j] = subs[j]

\* The months are added to what is left of the row: no day is lost, and none is won
\* beyond the present.
Extends(i, months) ==
    LET ended == i \in DOMAIN subs /\ subs[i].ends # NoEnd
    IN /\ ended => subs'[i].ends >= subs[i].ends + months
       /\ subs'[i].ends <= (IF ended /\ subs[i].ends > now THEN subs[i].ends ELSE now) + months
       /\ subs'[i].ends >= months

Grant(x) ==
    /\ Stands(x, "settled", "granted")
    /\ \E i \in 1..(Len(subs) + 1) :
         OneRowWritten(i) /\ subs'[i].ends # NoEnd /\ (undisturbed => Extends(i, Bought[x]))
    /\ UNCHANGED <<shown, invoice, now, undisturbed>>

Show(r) ==
    /\ standing[r] = "granted"
    /\ shown' = shown \cup {r}
    /\ UNCHANGED <<standing, invoice, subs, now, undisturbed>>

Bill(i) ==
    /\ invoice[i] = "none"
    /\ invoice' = [invoice EXCEPT ![i] = "OPEN"]
    /\ UNCHANGED <<standing, shown, subs, now, undisturbed>>

Close(i) ==
    /\ invoice[i] = "OPEN"
    /\ \E status \in {"PAID", "VOID"} : invoice' = [invoice EXCEPT ![i] = status]
    /\ UNCHANGED <<standing, shown, subs, now, undisturbed>>

\* An administrator creates or edits a row.
Amend ==
    /\ \E i \in 1..(Len(subs) + 1) : OneRowWritten(i)
    /\ undisturbed' = FALSE
    /\ UNCHANGED <<standing, shown, invoice, now>>

\* Two extensions overlap.
Overlap ==
    /\ undisturbed' = FALSE
    /\ UNCHANGED <<standing, shown, invoice, subs, now>>

MonthPasses ==
    /\ now' = now + 1
    /\ UNCHANGED <<standing, shown, invoice, subs, undisturbed>>

Next ==
    \/ \E x \in Items : Open(x) \/ Settle(x) \/ Grant(x)
    \/ \E p \in Payments : Refuse(p)
    \/ \E r \in Requests : Show(r)
    \/ \E i \in Invoices : Bill(i) \/ Close(i)
    \/ Amend \/ Overlap \/ MonthPasses

Spec == Init /\ [][Next]_vars
=============================================================================

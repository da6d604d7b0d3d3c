---------------------------- MODULE BillingProofs ----------------------------
(***************************************************************************)
(* Proofs about Billing for every number of requests, payments, handlers   *)
(* and subscription rows: a payment is credited at most once, no row       *)
(* lasts longer than what was credited, whoever has paid is covered, and   *)
(* the handlers implement PaymentLedger.                                   *)
(***************************************************************************)
EXTENDS Billing, SequenceTheorems, FiniteSetTheorems, WellFoundedInduction, TLAPS

\* An assignment to a row that exists keeps the rows well typed.
LEMMA RowAssigned ==
    ASSUME NEW s \in Seq(Row), NEW i, NEW r, i \in DOMAIN s => r \in Row
    PROVE  [s EXCEPT ![i] = r] \in Seq(Row)
<1>1. s \in [1..Len(s) -> Row] /\ Len(s) \in Nat
  OBVIOUS
<1>2. [s EXCEPT ![i] = r] \in [1..Len(s) -> Row]
  BY <1>1
<1> QED
  BY <1>1, <1>2, SeqDef

LEMMA IdleTaskType == IdleTask \in Task
BY BillingAssumption DEF IdleTask, Task

\* The end that a handler computes is a number.
LEMMA ExtendedType ==
    ASSUME NEW e \in Nat \cup {NoEnd}, NEW m \in Nat, now \in Nat
    PROVE  Extended(e, m) \in Nat
BY DEF Extended

LEMMA MonthsOfType == \A x \in Items : MonthsOf(x) \in Nat
BY BillingAssumption DEF MonthsOf, Items

LEMMA TypeInit == Init => TypeOK
<1> SUFFICES ASSUME Init PROVE TypeOK
  OBVIOUS
<1> USE BillingAssumption
<1>1. subs \in Seq(Row)
  <2> DEFINE trial == [status |-> "TRIAL", ends |-> 1]
             endless == [status |-> "ACTIVE", ends |-> NoEnd]
  <2>1. trial \in Row /\ endless \in Row
    BY DEF Row, SubStatuses
  <2>2. subs \in {<<>>, <<trial>>, <<endless>>}
    BY DEF Init
  <2>3. <<>> \in Seq(Row) /\ <<trial>> \in Seq(Row) /\ <<endless>> \in Seq(Row)
    BY <2>1
  <2> HIDE DEF trial, endless
  <2> QED
    BY <2>2, <2>3
<1>2. /\ task \in [Handlers -> Task]
      /\ \A h \in Handlers : task[h].row <= Len(subs) /\ WellPlaced(task[h])
  BY <1>1, IdleTaskType DEF Init, IdleTask, WellPlaced
<1>3. \A p \in Payments : payment[p].row <= Len(subs)
  BY <1>1 DEF Init
<1>4. /\ request \in [Requests -> {"none", "pending", "paid"}]
      /\ payment \in [Payments -> [status : {"none", "PENDING", "APPROVED", "REJECTED"},
                                  row : Nat]]
      /\ invoice \in [Invoices -> {"none", "OPEN", "PAID", "VOID"}]
      /\ completed \subseteq Requests /\ recorded \subseteq Requests
  BY DEF Init
<1>5. /\ now \in Nat /\ credits \in [Items -> Nat] /\ overlap \in BOOLEAN
      /\ budget \in [faults : 0..MaxFaults, edits : 0..MaxEdits]
  <2>1. /\ now = 0 /\ credits = [x \in Items |-> 0] /\ overlap = FALSE
        /\ budget = [faults |-> 0, edits |-> 0]
    BY DEF Init
  <2>2. now \in Nat /\ credits \in [Items -> Nat]
    BY <2>1
  <2>3. budget \in [faults : 0..MaxFaults, edits : 0..MaxEdits]
    BY <2>1
  <2> QED
    BY <2>1, <2>2, <2>3
<1> QED
  BY <1>1, <1>2, <1>3, <1>4, <1>5 DEF TypeOK

\* A step that moves one handler to a well typed task.
LEMMA HandlerMoves ==
    ASSUME TypeOK, NEW h \in Handlers, NEW t \in Task,
           t.row <= Len(subs), WellPlaced(t), task' = [task EXCEPT ![h] = t],
           subs' = subs
    PROVE  /\ task' \in [Handlers -> Task]
           /\ \A g \in Handlers : task'[g].row <= Len(subs') /\ WellPlaced(task'[g])
BY DEF TypeOK

LEMMA HandlerFinishes ==
    ASSUME TypeOK, NEW h \in Handlers, Finish(h), subs' = subs
    PROVE  /\ task' \in [Handlers -> Task]
           /\ \A g \in Handlers : task'[g].row <= Len(subs') /\ WellPlaced(task'[g])
<1>1. IdleTask.row <= Len(subs) /\ WellPlaced(IdleTask)
  BY DEF TypeOK, IdleTask, WellPlaced
<1> QED
  BY <1>1, IdleTaskType, HandlerMoves DEF Finish

LEMMA HandlerGoes ==
    ASSUME TypeOK, NEW h \in Handlers,
           NEW pc \in {"read", "record", "complete", "find"}, Goto(h, pc),
           pc = "read" => task[h].item \in Items,
           pc \in {"record", "complete"} => task[h].item \in Requests,
           subs' = subs
    PROVE  /\ task' \in [Handlers -> Task]
           /\ \A g \in Handlers : task'[g].row <= Len(subs') /\ WellPlaced(task'[g])
<1> DEFINE t == [task[h] EXCEPT !.pc = pc]
<1>1. task[h] \in Task /\ task[h].row <= Len(subs)
  BY DEF TypeOK
<1>2. t \in Task /\ t.row = task[h].row /\ t.pc = pc /\ t.item = task[h].item
  BY <1>1 DEF Task
<1>3. WellPlaced(t)
  BY <1>2 DEF WellPlaced
<1>4. task' = [task EXCEPT ![h] = t]
  BY DEF Goto
<1> HIDE DEF t
<1> QED
  BY <1>1, <1>2, <1>3, <1>4, HandlerMoves

\* What a handler writes are rows again, and no row disappears.
LEMMA WrittenType ==
    ASSUME TypeOK, NEW h \in Handlers
    PROVE  Written(task[h]) \in Seq(Row) /\ Len(Written(task[h])) >= Len(subs)
<1>1. /\ task[h].row \in Nat /\ task[h].ends \in Nat
      /\ subs \in Seq(Row) /\ task[h].row <= Len(subs)
  BY DEF TypeOK, Task
<1>2. CASE task[h].row = 0
  <2>1. [status |-> "ACTIVE", ends |-> task[h].ends] \in Row
    BY <1>1 DEF Row, SubStatuses
  <2>2. Written(task[h]) = Append(subs, [status |-> "ACTIVE", ends |-> task[h].ends])
    BY <1>2 DEF Written
  <2> QED
    BY <1>1, <2>1, <2>2, AppendProperties
<1>3. CASE task[h].row # 0
  <2>1. task[h].row \in 1..Len(subs)
    BY <1>1, <1>3
  <2>2. [status |-> IF task[h].activate THEN "ACTIVE" ELSE subs[task[h].row].status,
         ends |-> task[h].ends] \in Row
    <3>1. subs[task[h].row] \in Row
      BY <1>1, <2>1
    <3>2. subs[task[h].row].status \in SubStatuses
      BY <3>1 DEF Row
    <3> QED
      BY <1>1, <3>2 DEF Row, SubStatuses
  <2>3. Written(task[h]) =
          [subs EXCEPT ![task[h].row] =
            [status |-> IF task[h].activate THEN "ACTIVE" ELSE subs[task[h].row].status,
             ends |-> task[h].ends]]
    BY <1>3 DEF Written
  <2> QED
    BY <1>1, <2>1, <2>2, <2>3, ExceptSeq
<1> QED
  BY <1>2, <1>3

LEMMA CaptureType ==
    \A h \in Handlers :
        TypeOK /\ (\/ \E r \in Requests : PaymentCaptured(h, r)
                   \/ MarkPaymentRequestPaid(h) \/ CreatePaymentRecord(h)
                   \/ MarkPaymentRequestCompleted(h)) => TypeOK'
<1> SUFFICES ASSUME TypeOK, NEW h \in Handlers
             PROVE  (\/ \E r \in Requests : PaymentCaptured(h, r)
                     \/ MarkPaymentRequestPaid(h) \/ CreatePaymentRecord(h)
                     \/ MarkPaymentRequestCompleted(h)) => TypeOK'
  OBVIOUS
<1> USE BillingAssumption
<1>1. ASSUME NEW r \in Requests, PaymentCaptured(h, r) PROVE TypeOK'
  <2> DEFINE t == [IdleTask EXCEPT !.pc = "mark", !.item = r]
  <2>1. t \in Task /\ t.row = 0 /\ WellPlaced(t)
    BY DEF IdleTask, Task, WellPlaced, Items
  <2>2. task' = [task EXCEPT ![h] = t] /\ UNCHANGED <<paid, subs, now, credits, overlap, budget>>
    BY <1>1 DEF PaymentCaptured
  <2> HIDE DEF t
  <2>3. t.row <= Len(subs)
    BY <2>1 DEF TypeOK
  <2> QED
    BY <2>1, <2>2, <2>3, HandlerMoves DEF TypeOK, paid
<1>2. CASE MarkPaymentRequestPaid(h)
  <2>1. task[h].item \in Items
    BY <1>2 DEF MarkPaymentRequestPaid, TypeOK, WellPlaced
  <2>2. UNCHANGED <<completed, recorded, payment, invoice, subs, now, credits, overlap, budget>>
    BY <1>2 DEF MarkPaymentRequestPaid
  <2>3. CASE request' = [request EXCEPT ![task[h].item] = "paid"] /\ Goto(h, "read")
    BY <2>1, <2>2, <2>3, HandlerGoes DEF TypeOK
  <2>4. CASE UNCHANGED request /\ Finish(h)
    BY <2>2, <2>4, HandlerFinishes DEF TypeOK
  <2> QED
    BY <1>2, <2>3, <2>4 DEF MarkPaymentRequestPaid
<1>3. CASE CreatePaymentRecord(h)
  <2>1. task[h].item \in Requests
    BY <1>3 DEF CreatePaymentRecord, TypeOK, WellPlaced
  <2> QED
    BY <1>3, <2>1, HandlerGoes DEF CreatePaymentRecord, TypeOK
<1>4. CASE MarkPaymentRequestCompleted(h)
  <2>1. task[h].item \in Requests
    BY <1>4 DEF MarkPaymentRequestCompleted, TypeOK, WellPlaced
  <2> QED
    BY <1>4, <2>1, HandlerFinishes DEF MarkPaymentRequestCompleted, TypeOK
<1> QED
  BY <1>1, <1>2, <1>3, <1>4

LEMMA ExtensionType ==
    \A h \in Handlers :
        TypeOK /\ (ReadSubscription(h) \/ WriteSubscription(h) \/ WriteRefused(h))
          => TypeOK'
<1> SUFFICES ASSUME TypeOK, NEW h \in Handlers
             PROVE  (ReadSubscription(h) \/ WriteSubscription(h) \/ WriteRefused(h)) => TypeOK'
  OBVIOUS
<1> USE BillingAssumption
<1>1. CASE ReadSubscription(h)
  <2> DEFINE x == task[h].item
             row == IF x \in Requests THEN Len(subs) ELSE payment[x].row
             e == IF row = 0 THEN NoEnd ELSE subs[row].ends
             a == row # 0 /\ (x \in Payments \/ subs[row].status # "ACTIVE")
             t == [IdleTask EXCEPT !.pc = "write", !.item = x, !.row = row,
                     !.activate = a, !.ends = Extended(e, MonthsOf(x))]
  <2>1. x \in Items
    BY <1>1 DEF ReadSubscription, TypeOK, WellPlaced
  <2>2. row \in Nat /\ row <= Len(subs)
    BY <2>1 DEF TypeOK, Items
  <2>3. e \in Nat \cup {NoEnd}
    <3>1. CASE row # 0
      <4>1. row \in 1..Len(subs) /\ subs \in Seq(Row)
        BY <2>2, <3>1 DEF TypeOK
      <4>2. subs[row] \in Row
        BY <4>1
      <4> QED
        BY <4>2 DEF Row
    <3> QED
      BY <3>1
  <2>4. Extended(e, MonthsOf(x)) \in Nat
    BY <2>1, <2>3, MonthsOfType, ExtendedType DEF TypeOK
  <2>5. task' = [task EXCEPT ![h] = t]
    BY <1>1 DEF ReadSubscription
  <2>6. a \in BOOLEAN
    OBVIOUS
  <2> HIDE DEF x, row, e, a
  <2>7. t \in Task /\ t.row <= Len(subs) /\ WellPlaced(t)
    BY <2>1, <2>2, <2>4, <2>6 DEF IdleTask, Task, WellPlaced
  <2> HIDE DEF t
  <2>8. UNCHANGED <<paid, subs, now, credits, budget>> /\ overlap' \in BOOLEAN
    BY <1>1 DEF ReadSubscription, TypeOK
  <2> QED
    BY <2>5, <2>7, <2>8, HandlerMoves DEF TypeOK, paid
<1>2. CASE WriteSubscription(h)
  <2> DEFINE pc == IF task[h].item \in Requests THEN "record" ELSE "find"
             t == [task[h] EXCEPT !.pc = pc]
  <2>1. /\ subs' = Written(task[h]) /\ task' = [task EXCEPT ![h] = t]
        /\ UNCHANGED <<paid, now, overlap, budget>>
        /\ credits' = [credits EXCEPT ![task[h].item] = credits[task[h].item] + 1]
    BY <1>2 DEF WriteSubscription, Goto
  <2>2. subs' \in Seq(Row) /\ Len(subs') >= Len(subs)
    BY <2>1, WrittenType
  <2>3. task[h] \in Task /\ task[h].row <= Len(subs) /\ Len(subs) \in Nat
    BY DEF TypeOK
  <2>4. t \in Task /\ t.row = task[h].row /\ WellPlaced(t)
    BY <2>3 DEF Task, WellPlaced
  <2> HIDE DEF t
  <2>5. task' \in [Handlers -> Task]
    BY <2>1, <2>4 DEF TypeOK
  <2>6. Len(subs') \in Nat /\ \A g \in Handlers : task[g].row \in Nat
    BY <2>2 DEF TypeOK, Task
  <2>7. \A g \in Handlers : task'[g].row <= Len(subs') /\ WellPlaced(task'[g])
    BY <2>1, <2>2, <2>3, <2>4, <2>6 DEF TypeOK
  <2>8. \A p \in Payments : payment'[p].row <= Len(subs')
    <3>1. \A p \in Payments : payment[p].row \in Nat /\ payment[p].row <= Len(subs)
      BY DEF TypeOK
    <3>2. payment' = payment
      BY <2>1 DEF paid
    <3> QED
      BY <2>2, <2>3, <2>6, <3>1, <3>2
  <2>9. credits' \in [Items -> Nat]
    <3>1. credits \in [Items -> Nat] /\ task[h].item \in Items
      BY <1>2 DEF TypeOK, WriteSubscription, WellPlaced
    <3>2. credits' = [credits EXCEPT ![task[h].item] = credits[task[h].item] + 1]
      BY <2>1
    <3>3. credits[task[h].item] + 1 \in Nat
      BY <3>1
    <3> QED
      BY <3>1, <3>2, <3>3
  <2> QED
    BY <2>1, <2>2, <2>5, <2>7, <2>8, <2>9 DEF TypeOK, paid
<1>3. CASE WriteRefused(h)
  <2>1. UNCHANGED <<paid, subs, now, credits, overlap, budget>>
    BY <1>3 DEF WriteRefused
  <2>2. Finish(h) \/ Goto(h, "find")
    BY <1>3 DEF WriteRefused
  <2> QED
    BY <2>1, <2>2, HandlerFinishes, HandlerGoes DEF TypeOK, paid
<1> QED
  BY <1>1, <1>2, <1>3

LEMMA DroppedType == \A h \in Handlers : TypeOK /\ ErrorDropped(h) => TypeOK'
<1> SUFFICES ASSUME TypeOK, NEW h \in Handlers, ErrorDropped(h) PROVE TypeOK'
  OBVIOUS
<1> USE BillingAssumption
<1>1. /\ UNCHANGED <<paid, subs, now, credits, overlap>>
      /\ budget' \in [faults : 0..MaxFaults, edits : 0..MaxEdits]
  <2>1. /\ budget \in [faults : 0..MaxFaults, edits : 0..MaxEdits]
        /\ budget' = [budget EXCEPT !.faults = budget.faults + 1]
        /\ budget.faults < MaxFaults
    BY DEF ErrorDropped, TypeOK
  <2>2. budget' \in [faults : 0..MaxFaults, edits : 0..MaxEdits]
    BY <2>1
  <2> QED
    BY <2>2 DEF ErrorDropped
<1>2. /\ task' \in [Handlers -> Task]
      /\ \A g \in Handlers : task'[g].row <= Len(subs') /\ WellPlaced(task'[g])
  <2>1. CASE Goto(h, "find")
    BY <1>1, <2>1, HandlerGoes
  <2>2. CASE task[h].pc = "record" /\ Goto(h, "complete")
    <3>1. task[h].item \in Requests
      BY <2>2 DEF TypeOK, WellPlaced
    <3> QED
      BY <1>1, <2>2, <3>1, HandlerGoes
  <2> QED
    BY <2>1, <2>2 DEF ErrorDropped
<1> QED
  BY <1>1, <1>2 DEF TypeOK, paid

LEMMA ApprovalType ==
    \A h \in Handlers :
        TypeOK /\ (\/ \E p \in Payments : ApprovePayment(h, p)
                   \/ MarkPaymentApproved(h) \/ FindOpenInvoice(h)
                   \/ SettleInvoice(h) \/ HandlerStops(h)) => TypeOK'
<1> SUFFICES ASSUME TypeOK, NEW h \in Handlers
             PROVE  (\/ \E p \in Payments : ApprovePayment(h, p)
                     \/ MarkPaymentApproved(h) \/ FindOpenInvoice(h)
                     \/ SettleInvoice(h) \/ HandlerStops(h)) => TypeOK'
  OBVIOUS
<1> USE BillingAssumption
<1>1. ASSUME NEW p \in Payments, ApprovePayment(h, p) PROVE TypeOK'
  <2> DEFINE t == [IdleTask EXCEPT !.pc = "mark", !.item = p]
  <2>1. t \in Task /\ t.row = 0 /\ WellPlaced(t)
    BY DEF IdleTask, Task, WellPlaced, Items
  <2>2. task' = [task EXCEPT ![h] = t] /\ UNCHANGED <<paid, subs, now, credits, overlap, budget>>
    BY <1>1 DEF ApprovePayment
  <2> HIDE DEF t
  <2>3. t.row <= Len(subs)
    BY <2>1 DEF TypeOK
  <2> QED
    BY <2>1, <2>2, <2>3, HandlerMoves DEF TypeOK, paid
<1>2. CASE MarkPaymentApproved(h)
  <2>1. task[h].item \in Items /\ UNCHANGED <<subs, now, credits, overlap, budget>>
    BY <1>2 DEF MarkPaymentApproved, TypeOK, WellPlaced
  <2>2. CASE UNCHANGED paid /\ Finish(h)
    BY <2>1, <2>2, HandlerFinishes DEF TypeOK, paid
  <2>3. ASSUME SetPayment(task[h].item, "APPROVED"),
               NEW pc \in {"find", "read"}, Goto(h, pc)
        PROVE  TypeOK'
    <3>1. /\ task' \in [Handlers -> Task]
          /\ \A g \in Handlers : task'[g].row <= Len(subs') /\ WellPlaced(task'[g])
      BY <2>1, <2>3, HandlerGoes
    <3>2. /\ payment' \in [Payments -> [status : {"none", "PENDING", "APPROVED", "REJECTED"},
                                         row : Nat]]
          /\ \A p \in Payments : payment'[p].row <= Len(subs')
      <4>1. payment' = [payment EXCEPT ![task[h].item].status = "APPROVED"] /\ subs' = subs
        BY <2>1, <2>3 DEF SetPayment
      <4>2. \A p \in Payments :
              [payment[p] EXCEPT !.status = "APPROVED"]
                \in [status : {"none", "PENDING", "APPROVED", "REJECTED"}, row : Nat]
        BY DEF TypeOK
      <4> QED
        BY <4>1, <4>2 DEF TypeOK
    <3> QED
      BY <2>1, <2>3, <3>1, <3>2 DEF TypeOK, SetPayment
  <2> QED
    BY <1>2, <2>2, <2>3 DEF MarkPaymentApproved
<1>3. CASE FindOpenInvoice(h)
  <2>1. UNCHANGED <<paid, subs, now, credits, overlap, budget>>
    BY <1>3 DEF FindOpenInvoice
  <2>2. CASE Finish(h)
    BY <2>1, <2>2, HandlerFinishes DEF TypeOK, paid
  <2>3. ASSUME NEW i \in Invoices,
               task' = [task EXCEPT ![h] =
                          [task[h] EXCEPT !.pc = "settle", !.invoice = {i}]]
        PROVE  TypeOK'
    <3> DEFINE t == [task[h] EXCEPT !.pc = "settle", !.invoice = {i}]
    <3>1. task[h] \in Task /\ task[h].row <= Len(subs)
      BY DEF TypeOK
    <3>2. t \in Task /\ t.row <= Len(subs) /\ WellPlaced(t)
      BY <3>1 DEF Task, WellPlaced
    <3>3. task' = [task EXCEPT ![h] = t]
      BY <2>3
    <3> HIDE DEF t
    <3> QED
      BY <2>1, <3>2, <3>3, HandlerMoves DEF TypeOK, paid
  <2> QED
    BY <1>3, <2>2, <2>3 DEF FindOpenInvoice
<1>4. CASE SettleInvoice(h)
  <2>1. Finish(h) /\ UNCHANGED <<subs, now, credits, overlap, budget>>
    BY <1>4 DEF SettleInvoice
  <2>2. /\ invoice' \in [Invoices -> {"none", "OPEN", "PAID", "VOID"}]
        /\ UNCHANGED <<request, completed, recorded, payment>>
    BY <1>4 DEF SettleInvoice, SetInvoice, TypeOK, paid
  <2>3. /\ task' \in [Handlers -> Task]
        /\ \A g \in Handlers : task'[g].row <= Len(subs') /\ WellPlaced(task'[g])
    BY <2>1, HandlerFinishes
  <2> QED
    BY <2>1, <2>2, <2>3 DEF TypeOK
<1>5. CASE HandlerStops(h)
  <2>1. /\ Finish(h) /\ UNCHANGED <<paid, subs, now, credits, overlap>>
        /\ budget' \in [faults : 0..MaxFaults, edits : 0..MaxEdits]
    <3>1. /\ budget \in [faults : 0..MaxFaults, edits : 0..MaxEdits]
          /\ budget' = [budget EXCEPT !.faults = budget.faults + 1]
          /\ budget.faults < MaxFaults
      BY <1>5 DEF HandlerStops, TypeOK
    <3>2. budget' \in [faults : 0..MaxFaults, edits : 0..MaxEdits]
      BY <3>1
    <3> QED
      BY <1>5, <3>2 DEF HandlerStops
  <2>2. /\ task' \in [Handlers -> Task]
        /\ \A g \in Handlers : task'[g].row <= Len(subs') /\ WellPlaced(task'[g])
    BY <2>1, HandlerFinishes
  <2> QED
    BY <2>1, <2>2 DEF TypeOK, paid
<1> QED
  BY <1>1, <1>2, <1>3, <1>4, <1>5

\* An edit replaces the rows by well typed ones and deletes none.
LEMMA EditType ==
    ASSUME TypeOK, NEW rows \in Seq(Row), Len(rows) >= Len(subs), Edit(rows)
    PROVE  TypeOK'
<1>1. /\ subs' = rows /\ UNCHANGED <<paid, task, now, credits, overlap>>
      /\ budget' = [budget EXCEPT !.edits = budget.edits + 1]
      /\ budget.edits < MaxEdits
  BY DEF Edit
<1>2. budget' \in [faults : 0..MaxFaults, edits : 0..MaxEdits]
  <2>1. budget \in [faults : 0..MaxFaults, edits : 0..MaxEdits]
    BY DEF TypeOK
  <2> QED
    BY <1>1, <2>1, BillingAssumption
<1>3. /\ \A p \in Payments : payment[p].row \in Nat /\ payment[p].row <= Len(subs)
      /\ \A h \in Handlers : task[h].row \in Nat /\ task[h].row <= Len(subs)
      /\ Len(subs) \in Nat /\ Len(rows) \in Nat
  BY DEF TypeOK, Task
<1>4. /\ \A p \in Payments : payment'[p].row <= Len(subs')
      /\ \A h \in Handlers : task'[h].row <= Len(subs')
  BY <1>1, <1>3 DEF paid
<1> QED
  BY <1>1, <1>2, <1>4 DEF TypeOK, paid

LEMMA AdminEditsType == TypeOK /\ AdminEdits => TypeOK'
<1> SUFFICES ASSUME TypeOK, AdminEdits PROVE TypeOK'
  OBVIOUS
<1>0. subs \in Seq(Row) /\ now \in Nat /\ \A i \in DOMAIN subs : subs[i] \in Row
  BY DEF TypeOK
<1>1. ASSUME NEW s \in {"ACTIVE", "PAST_DUE"}, NEW e \in {now + 1, NoEnd},
             CreateSubscription(s, e)
      PROVE  TypeOK'
  <2>1. [status |-> s, ends |-> e] \in Row
    BY <1>0 DEF Row, SubStatuses
  <2> DEFINE rows == Append(subs, [status |-> s, ends |-> e])
  <2>2. rows \in Seq(Row) /\ Len(rows) = Len(subs) + 1 /\ Len(subs) \in Nat
    BY <1>0, <2>1, AppendProperties
  <2>3. Edit(rows)
    BY <1>1 DEF CreateSubscription
  <2> HIDE DEF rows
  <2> QED
    BY <2>2, <2>3, EditType
<1>2. ASSUME NEW i \in DOMAIN subs, NEW s \in SubStatuses, PatchSubscriptionStatus(i, s)
      PROVE  TypeOK'
  <2> DEFINE rows == [subs EXCEPT ![i].status = s]
  <2>1. [subs[i] EXCEPT !.status = s] \in Row
    BY <1>0 DEF Row
  <2>2. rows \in Seq(Row) /\ Len(rows) = Len(subs) /\ Len(subs) \in Nat
    BY <1>0, <2>1, ExceptSeq
  <2>3. Edit(rows)
    BY <1>2 DEF PatchSubscriptionStatus
  <2> HIDE DEF rows
  <2> QED
    BY <2>2, <2>3, EditType
<1>3. ASSUME NEW i \in DOMAIN subs, NEW e \in {now, now + 2}, ExtendSubscription(i, e)
      PROVE  TypeOK'
  <2> DEFINE rows == [subs EXCEPT ![i].ends = e]
  <2>1. [subs[i] EXCEPT !.ends = e] \in Row
    BY <1>0 DEF Row
  <2>2. rows \in Seq(Row) /\ Len(rows) = Len(subs) /\ Len(subs) \in Nat
    BY <1>0, <2>1, ExceptSeq
  <2>3. Edit(rows)
    BY <1>3 DEF ExtendSubscription
  <2> HIDE DEF rows
  <2> QED
    BY <2>2, <2>3, EditType
<1> QED
  BY <1>1, <1>2, <1>3 DEF AdminEdits

LEMMA OthersType ==
    TypeOK /\ (\/ \E r \in Requests : CreatePaymentRequest(r)
               \/ \E p \in Payments : RejectPayment(p)
               \/ \E p \in Payments, row \in 0..Len(subs) : CreatePayment(p, row)
               \/ \E i \in Invoices : AdminInvoice(i)
               \/ MonthPasses) => TypeOK'
<1> SUFFICES ASSUME TypeOK
             PROVE  (\/ \E r \in Requests : CreatePaymentRequest(r)
                     \/ \E p \in Payments : RejectPayment(p)
                     \/ \E p \in Payments, row \in 0..Len(subs) : CreatePayment(p, row)
                     \/ \E i \in Invoices : AdminInvoice(i)
                     \/ MonthPasses) => TypeOK'
  OBVIOUS
<1>1. ASSUME NEW r \in Requests, CreatePaymentRequest(r) PROVE TypeOK'
  BY <1>1 DEF CreatePaymentRequest, TypeOK
<1>2. ASSUME NEW p \in Payments, RejectPayment(p) PROVE TypeOK'
  <2>1. [payment[p] EXCEPT !.status = "REJECTED"]
          \in [status : {"none", "PENDING", "APPROVED", "REJECTED"}, row : Nat]
    BY DEF TypeOK
  <2>2. payment' = [payment EXCEPT ![p] = [payment[p] EXCEPT !.status = "REJECTED"]]
    BY <1>2 DEF RejectPayment, SetPayment
  <2>3. /\ payment' \in [Payments -> [status : {"none", "PENDING", "APPROVED", "REJECTED"},
                                       row : Nat]]
        /\ \A q \in Payments : payment'[q].row = payment[q].row
    BY <2>1, <2>2 DEF TypeOK
  <2> QED
    BY <1>2, <2>3 DEF RejectPayment, SetPayment, TypeOK
<1>3. ASSUME NEW p \in Payments, NEW row \in 0..Len(subs), CreatePayment(p, row)
      PROVE  TypeOK'
  <2>1. row \in Nat /\ row <= Len(subs)
    BY DEF TypeOK
  <2> QED
    BY <1>3, <2>1 DEF CreatePayment, TypeOK
<1>4. ASSUME NEW i \in Invoices, AdminInvoice(i) PROVE TypeOK'
  BY <1>4 DEF AdminInvoice, SetInvoice, TypeOK
<1>5. CASE MonthPasses
  BY <1>5 DEF MonthPasses, TypeOK, paid
<1> QED
  BY <1>1, <1>2, <1>3, <1>4, <1>5

LEMMA NextType == TypeOK /\ [Next]_vars => TypeOK'
<1>1. TypeOK /\ UNCHANGED vars => TypeOK'
  BY DEF TypeOK, vars, paid
<1> QED
  BY <1>1, CaptureType, ExtensionType, ApprovalType, DroppedType, AdminEditsType, OthersType
     DEF Next, Serve

\* Type correctness for every instance.
THEOREM BillingTypeCorrect == Spec => []TypeOK
BY TypeInit, NextType, PTL DEF Spec

-----------------------------------------------------------------------------

(* A payment is credited at most once. *)

\* Handler h is between the winning UPDATE and the write of the extension.
Extending(h, x) == task[h].item = x /\ task[h].pc \in {"read", "write"}

\* The right to extend is one token per item: minted by the UPDATE that settles
\* the item, held by one handler, spent by the write.
CreditInv ==
    /\ \A x \in Items : credits[x] <= 1 /\ (credits[x] = 1 => Settled(x))
    /\ \A x \in Items, h \in Handlers : Extending(h, x) =>
         /\ credits[x] = 0 /\ Settled(x)
         /\ \A g \in Handlers : Extending(g, x) => g = h
    /\ \A h \in Handlers :
         task[h].pc \in {"record", "complete"} => credits[task[h].item] = 1
    /\ \A r \in completed \cup recorded : credits[r] = 1

\* A step that mints no token, spends none, and keeps what is settled.
LEMMA HarmlessToCredit ==
    ASSUME CreditInv, UNCHANGED <<credits, completed, recorded>>,
           \A x \in Items : Settled(x) => Settled(x)',
           \A g \in Handlers, x \in Items : Extending(g, x)' => Extending(g, x),
           \A g \in Handlers : task'[g].pc \in {"record", "complete"} =>
                task'[g].item = task[g].item /\ task[g].pc \in {"record", "complete"}
    PROVE  CreditInv'
<1>1. \A x \in Items : credits'[x] <= 1 /\ (credits'[x] = 1 => Settled(x)')
  BY DEF CreditInv
<1>2. \A x \in Items, h \in Handlers : Extending(h, x)' =>
        /\ credits'[x] = 0 /\ Settled(x)'
        /\ \A g \in Handlers : Extending(g, x)' => g = h
  BY DEF CreditInv
<1>3. \A h \in Handlers :
        task'[h].pc \in {"record", "complete"} => credits'[task'[h].item] = 1
  BY DEF CreditInv
<1>4. \A r \in completed' \cup recorded' : credits'[r] = 1
  BY DEF CreditInv
<1> QED
  BY <1>1, <1>2, <1>3, <1>4 DEF CreditInv

\* A handler that stops, or goes where no token is held, is harmless.
LEMMA Released ==
    ASSUME TypeOK, CreditInv, NEW h \in Handlers, NEW t,
           task' = [task EXCEPT ![h] = t],
           t.pc \notin {"read", "write", "record", "complete"},
           UNCHANGED <<credits, completed, recorded>>,
           \A x \in Items : Settled(x) => Settled(x)'
    PROVE  CreditInv'
<1>1. \A g \in Handlers, x \in Items : Extending(g, x)' => Extending(g, x)
  BY DEF Extending, TypeOK
<1>2. \A g \in Handlers : task'[g].pc \in {"record", "complete"} =>
        task'[g].item = task[g].item /\ task[g].pc \in {"record", "complete"}
  BY DEF TypeOK
<1> QED
  BY <1>1, <1>2, HarmlessToCredit

\* The UPDATE that settles an item mints its token: nobody held one before.
LEMMA Minted ==
    ASSUME TypeOK, CreditInv, NEW h \in Handlers, NEW x \in Items,
           ~Settled(x), Settled(x)', \A y \in Items : Settled(y) => Settled(y)',
           task' = [task EXCEPT ![h].pc = "read"], task[h].item = x,
           task[h].pc = "mark",
           UNCHANGED <<credits, completed, recorded>>
    PROVE  CreditInv'
<1>1. credits[x] = 0 /\ \A g \in Handlers : ~Extending(g, x)
  BY DEF CreditInv, TypeOK
<1>2. \A g \in Handlers : /\ task'[g].item = task[g].item
                          /\ g # h => task'[g].pc = task[g].pc
  BY DEF TypeOK, Task
<1>3. task'[h].pc = "read" /\ h \in Handlers
  BY DEF TypeOK, Task
<1>4. \A y \in Items : credits'[y] <= 1 /\ (credits'[y] = 1 => Settled(y)')
  BY DEF CreditInv
<1>5. \A y \in Items, g \in Handlers : Extending(g, y)' =>
        (g = h /\ y = x) \/ (g # h /\ Extending(g, y) /\ y # x)
  BY <1>1, <1>2 DEF Extending
<1>6. \A y \in Items, g \in Handlers : Extending(g, y)' =>
        /\ credits'[y] = 0 /\ Settled(y)'
        /\ \A k \in Handlers : Extending(k, y)' => k = g
  BY <1>1, <1>5 DEF CreditInv
<1>7. \A g \in Handlers :
        task'[g].pc \in {"record", "complete"} => credits'[task'[g].item] = 1
  BY <1>2, <1>3 DEF CreditInv
<1>8. \A r \in completed' \cup recorded' : credits'[r] = 1
  BY DEF CreditInv
<1> QED
  BY <1>4, <1>6, <1>7, <1>8 DEF CreditInv

LEMMA CaptureCredit ==
    \A h \in Handlers :
        TypeOK /\ CreditInv
        /\ (\/ \E r \in Requests : PaymentCaptured(h, r)
            \/ MarkPaymentRequestPaid(h) \/ CreatePaymentRecord(h)
            \/ MarkPaymentRequestCompleted(h)) => CreditInv'
<1> SUFFICES ASSUME TypeOK, CreditInv, NEW h \in Handlers
             PROVE  (\/ \E r \in Requests : PaymentCaptured(h, r)
                     \/ MarkPaymentRequestPaid(h) \/ CreatePaymentRecord(h)
                     \/ MarkPaymentRequestCompleted(h)) => CreditInv'
  OBVIOUS
<1>a. task[h] \in Task
  BY DEF TypeOK
<1>1. ASSUME NEW r \in Requests, PaymentCaptured(h, r) PROVE CreditInv'
  <2> DEFINE t == [IdleTask EXCEPT !.pc = "mark", !.item = r]
  <2>1. t.pc = "mark"
    BY DEF IdleTask
  <2>2. /\ task' = [task EXCEPT ![h] = t]
        /\ UNCHANGED <<credits, completed, recorded, request, payment>>
    BY <1>1 DEF PaymentCaptured, paid
  <2> HIDE DEF t
  <2> QED
    BY <2>1, <2>2, Released DEF Settled
<1>2. CASE MarkPaymentRequestPaid(h)
  <2>1. /\ task[h].item \in Requests /\ task[h].pc = "mark"
        /\ UNCHANGED <<credits, completed, recorded, payment>>
    BY <1>2 DEF MarkPaymentRequestPaid
  <2>2. CASE /\ request[task[h].item] = "pending"
             /\ request' = [request EXCEPT ![task[h].item] = "paid"] /\ Goto(h, "read")
    <3>a. PICK r \in Requests : r = task[h].item
      BY <2>1
    <3>1. ~Settled(r) /\ Settled(r)'
      BY <2>2, <3>a DEF Settled, TypeOK
    <3>2. \A y \in Items : Settled(y) => Settled(y)'
      BY <2>1, <2>2 DEF Settled, TypeOK
    <3>3. r \in Items /\ task' = [task EXCEPT ![h].pc = "read"]
      BY <2>2 DEF Goto, Items
    <3> QED
      BY <2>1, <3>a, <3>1, <3>2, <3>3, Minted
  <2>3. CASE UNCHANGED request /\ Finish(h)
    BY <2>1, <2>3, Released DEF Finish, IdleTask, Settled
  <2> QED
    BY <1>2, <2>2, <2>3 DEF MarkPaymentRequestPaid
<1>3. CASE CreatePaymentRecord(h)
  <2>1. /\ task[h].pc = "record" /\ credits[task[h].item] = 1
        /\ recorded' = recorded \cup {task[h].item}
        /\ task' = [task EXCEPT ![h].pc = "complete"]
        /\ UNCHANGED <<credits, completed, request, payment>>
    BY <1>3 DEF CreatePaymentRecord, CreditInv, Goto
  <2>2. \A g \in Handlers : /\ task'[g].item = task[g].item
                            /\ g # h => task'[g].pc = task[g].pc
    BY <2>1 DEF TypeOK, Task
  <2>3. task'[h].pc = "complete"
    BY <2>1, <1>a DEF TypeOK, Task
  <2>4. \A y \in Items, g \in Handlers : Extending(g, y)' => Extending(g, y)
    BY <2>2, <2>3 DEF Extending
  <2>5. \A y \in Items : Settled(y)' = Settled(y)
    BY <2>1 DEF Settled
  <2> QED
    BY <2>1, <2>2, <2>3, <2>4, <2>5 DEF CreditInv
<1>4. CASE MarkPaymentRequestCompleted(h)
  <2>1. /\ credits[task[h].item] = 1
        /\ completed' = completed \cup {task[h].item}
        /\ task' = [task EXCEPT ![h] = IdleTask] /\ IdleTask.pc = "idle"
        /\ UNCHANGED <<credits, recorded, request, payment>>
    BY <1>4 DEF MarkPaymentRequestCompleted, CreditInv, Finish, IdleTask
  <2>2. \A g \in Handlers : g # h => task'[g] = task[g]
    BY <2>1 DEF TypeOK
  <2>3. task'[h].pc = "idle"
    BY <2>1 DEF TypeOK
  <2>4. \A y \in Items, g \in Handlers : Extending(g, y)' => Extending(g, y)
    BY <2>2, <2>3 DEF Extending
  <2>5. \A y \in Items : Settled(y)' = Settled(y)
    BY <2>1 DEF Settled
  <2> QED
    BY <2>1, <2>2, <2>3, <2>4, <2>5 DEF CreditInv
<1> QED
  BY <1>1, <1>2, <1>3, <1>4

LEMMA ExtensionCredit ==
    \A h \in Handlers :
        TypeOK /\ CreditInv
        /\ (ReadSubscription(h) \/ WriteSubscription(h) \/ WriteRefused(h))
          => CreditInv'
<1> SUFFICES ASSUME TypeOK, CreditInv, NEW h \in Handlers
             PROVE  (ReadSubscription(h) \/ WriteSubscription(h) \/ WriteRefused(h))
                      => CreditInv'
  OBVIOUS
<1>a. task[h] \in Task
  BY DEF TypeOK
<1>1. CASE ReadSubscription(h)
  <2>1. PICK t : /\ task' = [task EXCEPT ![h] = t] /\ t.item = task[h].item
                 /\ t.pc = "write"
    <3> DEFINE x == task[h].item
               row == IF x \in Requests THEN Len(subs) ELSE payment[x].row
               a == row # 0 /\ (x \in Payments \/ subs[row].status # "ACTIVE")
               e == Extended(IF row = 0 THEN NoEnd ELSE subs[row].ends, MonthsOf(x))
               t == [IdleTask EXCEPT !.pc = "write", !.item = x, !.row = row,
                       !.activate = a, !.ends = e]
    <3>1. task' = [task EXCEPT ![h] = t]
      BY <1>1 DEF ReadSubscription
    <3> HIDE DEF x, row, a, e
    <3>2. t.item = x /\ t.pc = "write"
      BY DEF IdleTask
    <3> QED
      BY <3>1, <3>2 DEF x
  <2>2. task[h].pc = "read" /\ UNCHANGED <<credits, completed, recorded, request, payment>>
    BY <1>1 DEF ReadSubscription, paid
  <2>3. \A g \in Handlers, x \in Items : Extending(g, x)' => Extending(g, x)
    BY <2>1, <2>2 DEF Extending, TypeOK
  <2>4. \A g \in Handlers : task'[g].pc \in {"record", "complete"} =>
          task'[g].item = task[g].item /\ task[g].pc \in {"record", "complete"}
    BY <2>1 DEF TypeOK
  <2> QED
    BY <2>2, <2>3, <2>4, HarmlessToCredit DEF Settled
<1>2. CASE WriteSubscription(h)
  <2> DEFINE x == task[h].item
             pc == IF x \in Requests THEN "record" ELSE "find"
  <2>1. /\ x \in Items /\ Extending(h, x)
        /\ credits' = [credits EXCEPT ![x] = credits[x] + 1]
        /\ task' = [task EXCEPT ![h].pc = pc]
        /\ UNCHANGED <<completed, recorded, request, payment>>
    BY <1>2 DEF WriteSubscription, Extending, TypeOK, WellPlaced, Goto, paid
  <2>2. credits[x] = 0 /\ Settled(x) /\ \A g \in Handlers : Extending(g, x) => g = h
    BY <2>1 DEF CreditInv
  <2>3. credits'[x] = 1 /\ \A y \in Items \ {x} : credits'[y] = credits[y]
    BY <2>1, <2>2 DEF TypeOK
  <2>4. \A g \in Handlers : /\ task'[g].item = task[g].item
                            /\ g # h => task'[g].pc = task[g].pc
    BY <2>1 DEF TypeOK, Task
  <2>5. task'[h].pc = pc
    BY <2>1, <1>a DEF TypeOK, Task
  <2>6. \A y \in Items : Settled(y)' = Settled(y)
    BY <2>1 DEF Settled
  <2>7. \A y \in Items, g \in Handlers : Extending(g, y)' => Extending(g, y) /\ g # h
    BY <2>4, <2>5 DEF Extending
  <2>8. \A y \in Items, g \in Handlers : Extending(g, y)' =>
          /\ credits'[y] = 0 /\ Settled(y)'
          /\ \A k \in Handlers : Extending(k, y)' => k = g
    <3> SUFFICES ASSUME NEW y \in Items, NEW g \in Handlers, Extending(g, y)'
                 PROVE  /\ credits'[y] = 0 /\ Settled(y)'
                        /\ \A k \in Handlers : Extending(k, y)' => k = g
      OBVIOUS
    <3>1. Extending(g, y) /\ y # x
      BY <2>2, <2>7
    <3>2. /\ credits[y] = 0 /\ Settled(y)
          /\ \A k \in Handlers : Extending(k, y) => k = g
      BY <3>1 DEF CreditInv
    <3> QED
      BY <2>3, <2>6, <2>7, <3>1, <3>2
  <2>9. \A g \in Handlers :
          task'[g].pc \in {"record", "complete"} => credits'[task'[g].item] = 1
    <3> SUFFICES ASSUME NEW g \in Handlers, task'[g].pc \in {"record", "complete"}
                 PROVE  credits'[task[g].item] = 1
      BY <2>4
    <3>1. CASE g = h
      BY <3>1, <2>3
    <3>2. CASE g # h
      <4>1. task[g].pc \in {"record", "complete"}
        BY <2>4, <3>2
      <4>2. task[g].item \in Items /\ credits[task[g].item] = 1
        BY <4>1 DEF CreditInv, TypeOK, WellPlaced, Items
      <4> QED
        BY <2>3, <4>2
    <3> QED
      BY <3>1, <3>2
  <2>10. \A r \in completed' \cup recorded' : credits'[r] = 1
    <3> SUFFICES ASSUME NEW r \in completed \cup recorded PROVE credits'[r] = 1
      BY <2>1
    <3>1. r \in Items /\ credits[r] = 1
      BY DEF CreditInv, TypeOK, Items
    <3> QED
      BY <2>3, <3>1
  <2>11. \A y \in Items : credits'[y] <= 1 /\ (credits'[y] = 1 => Settled(y)')
    BY <2>2, <2>3, <2>6 DEF CreditInv
  <2> QED
    BY <2>8, <2>9, <2>10, <2>11 DEF CreditInv
<1>3. CASE WriteRefused(h)
  <2>1. UNCHANGED <<credits, completed, recorded, request, payment>>
    BY <1>3 DEF WriteRefused, paid
  <2>2. CASE Finish(h)
    BY <2>1, <2>2, Released DEF Finish, IdleTask, Settled
  <2>3. CASE Goto(h, "find")
    <3> DEFINE t == [task[h] EXCEPT !.pc = "find"]
    <3>1. task' = [task EXCEPT ![h] = t] /\ t.pc = "find"
      BY <2>3, <1>a DEF Goto, Task
    <3> HIDE DEF t
    <3> QED
      BY <2>1, <3>1, Released DEF Settled
  <2> QED
    BY <1>3, <2>2, <2>3 DEF WriteRefused
<1> QED
  BY <1>1, <1>2, <1>3

LEMMA DroppedCredit ==
    \A h \in Handlers : TypeOK /\ CreditInv /\ ErrorDropped(h) => CreditInv'
<1> SUFFICES ASSUME TypeOK, CreditInv, NEW h \in Handlers, ErrorDropped(h)
             PROVE  CreditInv'
  OBVIOUS
<1>a. task[h] \in Task
  BY DEF TypeOK
<1>1. UNCHANGED <<credits, completed, recorded, request, payment>>
  BY DEF ErrorDropped, paid
<1>2. CASE Goto(h, "find")
  <2> DEFINE t == [task[h] EXCEPT !.pc = "find"]
  <2>1. task' = [task EXCEPT ![h] = t] /\ t.pc = "find"
    BY <1>2, <1>a DEF Goto, Task
  <2> HIDE DEF t
  <2> QED
    BY <1>1, <2>1, Released DEF Settled
<1>3. CASE task[h].pc = "record" /\ Goto(h, "complete")
  <2>1. task' = [task EXCEPT ![h].pc = "complete"]
    BY <1>3 DEF Goto
  <2>2. \A g \in Handlers : /\ task'[g].item = task[g].item
                            /\ g # h => task'[g].pc = task[g].pc
    BY <2>1 DEF TypeOK, Task
  <2>3. task'[h].pc = "complete"
    BY <2>1, <1>a DEF TypeOK, Task
  <2>4. \A g \in Handlers, x \in Items : Extending(g, x)' => Extending(g, x)
    BY <2>2, <2>3 DEF Extending
  <2>5. \A g \in Handlers : task'[g].pc \in {"record", "complete"} =>
          task'[g].item = task[g].item /\ task[g].pc \in {"record", "complete"}
    BY <1>3, <2>2
  <2>6. \A x \in Items : Settled(x) => Settled(x)'
    BY <1>1 DEF Settled
  <2> QED
    BY <1>1, <2>4, <2>5, <2>6, HarmlessToCredit
<1> QED
  BY <1>2, <1>3 DEF ErrorDropped

LEMMA ApprovalCredit ==
    \A h \in Handlers :
        TypeOK /\ CreditInv
        /\ (\/ \E p \in Payments : ApprovePayment(h, p)
            \/ MarkPaymentApproved(h) \/ FindOpenInvoice(h) \/ SettleInvoice(h)
            \/ HandlerStops(h)) => CreditInv'
<1> SUFFICES ASSUME TypeOK, CreditInv, NEW h \in Handlers
             PROVE  (\/ \E p \in Payments : ApprovePayment(h, p)
                     \/ MarkPaymentApproved(h) \/ FindOpenInvoice(h) \/ SettleInvoice(h)
                     \/ HandlerStops(h)) => CreditInv'
  OBVIOUS
<1>a. task[h] \in Task
  BY DEF TypeOK
<1>1. ASSUME NEW p \in Payments, ApprovePayment(h, p) PROVE CreditInv'
  <2> DEFINE t == [IdleTask EXCEPT !.pc = "mark", !.item = p]
  <2>1. t.pc = "mark"
    BY DEF IdleTask
  <2>2. /\ task' = [task EXCEPT ![h] = t]
        /\ UNCHANGED <<credits, completed, recorded, request, payment>>
    BY <1>1 DEF ApprovePayment, paid
  <2> HIDE DEF t
  <2> QED
    BY <2>1, <2>2, Released DEF Settled
<1>2. CASE MarkPaymentApproved(h)
  <2>a. PICK p \in Payments : p = task[h].item
    BY <1>2 DEF MarkPaymentApproved
  <2>1. /\ task[h].pc = "mark"
        /\ UNCHANGED <<credits, completed, recorded, request>>
    BY <1>2 DEF MarkPaymentApproved, SetPayment, paid
  <2>2. CASE payment[p].status = "PENDING" /\ SetPayment(p, "APPROVED")
    <3> DEFINE pc == IF payment[p].row = 0 THEN "find" ELSE "read"
    <3>1. task' = [task EXCEPT ![h].pc = pc]
      BY <1>2, <2>a, <2>2 DEF MarkPaymentApproved, Goto
    <3>2. payment' = [payment EXCEPT ![p].status = "APPROVED"]
      BY <2>2 DEF SetPayment
    <3>3. /\ payment'[p].status = "APPROVED"
          /\ \A q \in Payments \ {p} : payment'[q] = payment[q]
      BY <3>2 DEF TypeOK
    <3>4. p \notin Requests
      BY BillingAssumption
    <3>5. ~Settled(p) /\ Settled(p)'
      BY <2>1, <2>2, <3>3, <3>4 DEF Settled
    <3>6. \A y \in Items : Settled(y) => Settled(y)'
      BY <2>1, <3>3 DEF Settled, Items
    <3>7. CASE payment[p].row = 0
      <4> DEFINE t == [task[h] EXCEPT !.pc = "find"]
      <4>1. task' = [task EXCEPT ![h] = t] /\ t.pc = "find"
        BY <3>1, <3>7, <1>a DEF Task
      <4> HIDE DEF t
      <4> QED
        BY <2>1, <3>6, <4>1, Released
    <3>8. CASE payment[p].row # 0
      <4>1. p \in Items /\ task' = [task EXCEPT ![h].pc = "read"]
        BY <2>1, <3>1, <3>8 DEF Items
      <4> QED
        BY <2>a, <2>1, <3>5, <3>6, <4>1, Minted
    <3> QED
      BY <3>7, <3>8
  <2>3. CASE UNCHANGED paid /\ Finish(h)
    BY <2>1, <2>3, Released DEF Finish, IdleTask, Settled, paid
  <2> QED
    BY <1>2, <2>a, <2>2, <2>3 DEF MarkPaymentApproved
<1>3. CASE FindOpenInvoice(h)
  <2>1. UNCHANGED <<credits, completed, recorded, request, payment>>
    BY <1>3 DEF FindOpenInvoice, paid
  <2>2. CASE Finish(h)
    BY <2>1, <2>2, Released DEF Finish, IdleTask, Settled
  <2>3. ASSUME NEW i \in Invoices,
               task' = [task EXCEPT ![h] =
                          [task[h] EXCEPT !.pc = "settle", !.invoice = {i}]]
        PROVE  CreditInv'
    <3> DEFINE t == [task[h] EXCEPT !.pc = "settle", !.invoice = {i}]
    <3>1. task' = [task EXCEPT ![h] = t] /\ t.pc = "settle"
      BY <2>3, <1>a DEF Task
    <3> HIDE DEF t
    <3> QED
      BY <2>1, <3>1, Released DEF Settled
  <2> QED
    BY <1>3, <2>2, <2>3 DEF FindOpenInvoice
<1>4. CASE SettleInvoice(h)
  <2>1. Finish(h) /\ UNCHANGED <<credits, completed, recorded, request, payment>>
    BY <1>4 DEF SettleInvoice, SetInvoice, paid
  <2> QED
    BY <2>1, Released DEF Finish, IdleTask, Settled
<1>5. CASE HandlerStops(h)
  <2>1. Finish(h) /\ UNCHANGED <<credits, completed, recorded, request, payment>>
    BY <1>5 DEF HandlerStops, paid
  <2> QED
    BY <2>1, Released DEF Finish, IdleTask, Settled
<1> QED
  BY <1>1, <1>2, <1>3, <1>4, <1>5

\* Steps outside the handlers touch no token and settle at most a rejection.
LEMMA OthersCredit ==
    ASSUME TypeOK, CreditInv,
           \/ \E r \in Requests : CreatePaymentRequest(r)
           \/ \E p \in Payments : RejectPayment(p)
           \/ \E p \in Payments, row \in 0..Len(subs) : CreatePayment(p, row)
           \/ \E i \in Invoices : AdminInvoice(i)
           \/ AdminEdits \/ MonthPasses \/ UNCHANGED vars
    PROVE  CreditInv'
<1>1. UNCHANGED <<credits, completed, recorded, task>>
  BY DEF CreatePaymentRequest, RejectPayment, CreatePayment, AdminInvoice, AdminEdits,
         CreateSubscription, PatchSubscriptionStatus, ExtendSubscription, Edit,
         MonthPasses, SetPayment, SetInvoice, paid, vars
<1>2. \A x \in Items : Settled(x) => Settled(x)'
  <2>1. ASSUME NEW r \in Requests, CreatePaymentRequest(r)
        PROVE  \A x \in Items : Settled(x) => Settled(x)'
    BY <2>1 DEF CreatePaymentRequest, Settled, TypeOK
  <2>2. ASSUME NEW p \in Payments, RejectPayment(p)
        PROVE  \A x \in Items : Settled(x) => Settled(x)'
    BY <2>2 DEF RejectPayment, SetPayment, Settled, TypeOK, Items
  <2>3. ASSUME NEW p \in Payments, NEW row, CreatePayment(p, row)
        PROVE  \A x \in Items : Settled(x) => Settled(x)'
    BY <2>3 DEF CreatePayment, Settled, TypeOK, Items
  <2>4. ASSUME UNCHANGED <<request, payment>>
        PROVE  \A x \in Items : Settled(x) => Settled(x)'
    BY <2>4 DEF Settled
  <2>5. ASSUME \/ \E i \in Invoices : AdminInvoice(i)
               \/ AdminEdits \/ MonthPasses \/ UNCHANGED vars
        PROVE  UNCHANGED <<request, payment>>
    BY <2>5 DEF AdminInvoice, AdminEdits, CreateSubscription, PatchSubscriptionStatus,
                ExtendSubscription, Edit, MonthPasses, SetInvoice, paid, vars
  <2> QED
    BY <2>1, <2>2, <2>3, <2>4, <2>5
<1>3. \A g \in Handlers, x \in Items : Extending(g, x)' => Extending(g, x)
  BY <1>1 DEF Extending
<1> QED
  BY <1>1, <1>2, <1>3, HarmlessToCredit

LEMMA CreditInit == Init => CreditInv
BY DEF Init, CreditInv, Extending, IdleTask

LEMMA NextCredit == TypeOK /\ CreditInv /\ [Next]_vars => CreditInv'
BY CaptureCredit, ExtensionCredit, ApprovalCredit, DroppedCredit, OthersCredit
   DEF Next, Serve

LEMMA CreditInvariant == Spec => []CreditInv
BY BillingTypeCorrect, CreditInit, NextCredit, PTL DEF Spec

\* A payment extends the subscription at most once and only when it is settled,
\* for any number of payments, handlers, crashes and retries.
THEOREM CreditedAtMostOnce == Spec => []CreditedOnce
<1>1. CreditInv => CreditedOnce
  BY DEF CreditInv, CreditedOnce
<1> QED
  BY <1>1, CreditInvariant, PTL

\* What is completed or recorded as a payment was credited.
THEOREM CompletedAreCredited == Spec => []CompletedIsCredited
<1>1. CreditInv => CompletedIsCredited
  BY DEF CreditInv, CompletedIsCredited
<1> QED
  BY <1>1, CreditInvariant, PTL

-----------------------------------------------------------------------------

(* What is settled stays settled. *)

\* What SettledIsFinal says of a step, table by table.
RequestsFinal == \A r \in Requests : request[r] = "paid" => request'[r] = "paid"
PaymentsFinal ==
    \A p \in Payments : payment[p].status \in {"APPROVED", "REJECTED"} =>
                          payment'[p] = payment[p]
InvoicesFinal ==
    \A i \in Invoices : invoice[i] \in {"PAID", "VOID"} => invoice'[i] = invoice[i]
Final == RequestsFinal /\ PaymentsFinal /\ InvoicesFinal

\* A step that leaves the three tables alone.
LEMMA UntouchedFinal == UNCHANGED <<request, payment, invoice>> => Final
BY DEF Final, RequestsFinal, PaymentsFinal, InvoicesFinal

\* The statuses of a payment and of an invoice that a handler or an admin may
\* write over are not final.
LEMMA PaymentSetFinal ==
    ASSUME TypeOK, NEW p \in Payments, NEW status, payment[p].status = "PENDING",
           SetPayment(p, status)
    PROVE  Final
<1>1. payment' = [payment EXCEPT ![p].status = status]
  BY DEF SetPayment
<1>2. \A q \in Payments : q # p => payment'[q] = payment[q]
  BY <1>1 DEF TypeOK
<1>3. PaymentsFinal
  BY <1>2 DEF PaymentsFinal
<1>4. RequestsFinal /\ InvoicesFinal
  BY DEF SetPayment, RequestsFinal, InvoicesFinal
<1> QED
  BY <1>3, <1>4 DEF Final

LEMMA InvoiceSetFinal ==
    ASSUME TypeOK, NEW i \in Invoices, NEW status, invoice[i] \in {"none", "OPEN"},
           SetInvoice(i, status)
    PROVE  Final
<1>1. invoice' = [invoice EXCEPT ![i] = status]
  BY DEF SetInvoice
<1>2. \A j \in Invoices : j # i => invoice'[j] = invoice[j]
  BY <1>1 DEF TypeOK
<1>3. InvoicesFinal
  BY <1>2 DEF InvoicesFinal
<1>4. RequestsFinal /\ PaymentsFinal
  BY DEF SetInvoice, RequestsFinal, PaymentsFinal
<1> QED
  BY <1>3, <1>4 DEF Final

\* A capture writes "paid", and only over "pending".
LEMMA CaptureFinal ==
    ASSUME TypeOK, NEW h \in Handlers,
           \/ \E r \in Requests : PaymentCaptured(h, r)
           \/ MarkPaymentRequestPaid(h) \/ CreatePaymentRecord(h)
           \/ MarkPaymentRequestCompleted(h)
    PROVE  Final
<1>1. CASE MarkPaymentRequestPaid(h)
  <2>1. UNCHANGED <<payment, invoice>>
    BY <1>1 DEF MarkPaymentRequestPaid
  <2>2. RequestsFinal
    BY <1>1 DEF MarkPaymentRequestPaid, RequestsFinal, TypeOK
  <2> QED
    BY <2>1, <2>2 DEF Final, PaymentsFinal, InvoicesFinal
<1>2. CASE \/ \E r \in Requests : PaymentCaptured(h, r)
           \/ CreatePaymentRecord(h) \/ MarkPaymentRequestCompleted(h)
  BY <1>2, UntouchedFinal
     DEF PaymentCaptured, CreatePaymentRecord, MarkPaymentRequestCompleted, paid
<1> QED
  BY <1>1, <1>2

\* The approval decides a payment that is still pending and settles an invoice
\* that is still open, whatever it read before.
LEMMA ApprovalFinal ==
    ASSUME TypeOK, NEW h \in Handlers,
           \/ \E p \in Payments : ApprovePayment(h, p)
           \/ MarkPaymentApproved(h) \/ FindOpenInvoice(h) \/ SettleInvoice(h)
    PROVE  Final
<1>1. CASE MarkPaymentApproved(h)
  <2>1. CASE payment[task[h].item].status = "PENDING"
    BY <1>1, <2>1, PaymentSetFinal DEF MarkPaymentApproved
  <2>2. CASE payment[task[h].item].status # "PENDING"
    BY <1>1, <2>2, UntouchedFinal DEF MarkPaymentApproved, paid
  <2> QED
    BY <2>1, <2>2
<1>2. CASE SettleInvoice(h)
  <2>1. PICK i \in task[h].invoice :
          IF invoice[i] = "OPEN" THEN SetInvoice(i, "PAID") ELSE UNCHANGED paid
    BY <1>2 DEF SettleInvoice
  <2>2. i \in Invoices
    BY <2>1 DEF TypeOK, Task
  <2>3. CASE invoice[i] = "OPEN"
    BY <2>1, <2>2, <2>3, InvoiceSetFinal
  <2>4. CASE invoice[i] # "OPEN"
    BY <2>1, <2>4, UntouchedFinal DEF paid
  <2> QED
    BY <2>3, <2>4
<1>3. CASE (\E p \in Payments : ApprovePayment(h, p)) \/ FindOpenInvoice(h)
  BY <1>3, UntouchedFinal DEF ApprovePayment, FindOpenInvoice, paid
<1> QED
  BY <1>1, <1>2, <1>3

\* The extension and the failures of a handler write none of the three tables.
LEMMA ExtensionFinal ==
    ASSUME NEW h \in Handlers,
           \/ ReadSubscription(h) \/ WriteSubscription(h) \/ WriteRefused(h)
           \/ HandlerStops(h) \/ ErrorDropped(h)
    PROVE  Final
BY UntouchedFinal
   DEF ReadSubscription, WriteSubscription, WriteRefused, HandlerStops, ErrorDropped, paid

LEMMA OthersFinal ==
    ASSUME TypeOK,
           \/ \E r \in Requests : CreatePaymentRequest(r)
           \/ \E p \in Payments : RejectPayment(p)
           \/ \E p \in Payments, row \in 0..Len(subs) : CreatePayment(p, row)
           \/ \E i \in Invoices : AdminInvoice(i)
           \/ AdminEdits \/ MonthPasses \/ UNCHANGED vars
    PROVE  Final
<1>1. ASSUME NEW r \in Requests, CreatePaymentRequest(r) PROVE Final
  <2>1. UNCHANGED <<payment, invoice>>
    BY <1>1 DEF CreatePaymentRequest
  <2>2. RequestsFinal
    BY <1>1 DEF CreatePaymentRequest, RequestsFinal, TypeOK
  <2> QED
    BY <2>1, <2>2 DEF Final, PaymentsFinal, InvoicesFinal
<1>2. ASSUME NEW p \in Payments, RejectPayment(p) PROVE Final
  BY <1>2, PaymentSetFinal DEF RejectPayment
<1>3. ASSUME NEW p \in Payments, NEW row, CreatePayment(p, row) PROVE Final
  <2>1. UNCHANGED <<request, invoice>>
    BY <1>3 DEF CreatePayment
  <2>2. \A q \in Payments : q # p => payment'[q] = payment[q]
    BY <1>3 DEF CreatePayment, TypeOK
  <2>3. PaymentsFinal
    BY <1>3, <2>2 DEF CreatePayment, PaymentsFinal
  <2> QED
    BY <2>1, <2>3 DEF Final, RequestsFinal, InvoicesFinal
<1>4. ASSUME NEW i \in Invoices, AdminInvoice(i) PROVE Final
  BY <1>4, InvoiceSetFinal DEF AdminInvoice
<1>5. CASE AdminEdits \/ MonthPasses \/ UNCHANGED vars
  BY <1>5, UntouchedFinal
     DEF AdminEdits, CreateSubscription, PatchSubscriptionStatus, ExtendSubscription, Edit,
         MonthPasses, paid, vars
<1> QED
  BY <1>1, <1>2, <1>3, <1>4, <1>5

LEMMA NextFinal == TypeOK /\ [Next]_vars => Final
BY CaptureFinal, ApprovalFinal, ExtensionFinal, OthersFinal DEF Next, Serve

\* No interleaving of captures, approvals, rejections and edits, and no failure,
\* takes back what was paid, decided, settled or voided.
THEOREM SettledStaysSettled == Spec => SettledIsFinal
<1>1. TypeOK /\ [Next]_vars =>
        [/\ \A r \in Requests : request[r] = "paid" => request'[r] = "paid"
         /\ \A p \in Payments : payment[p].status \in {"APPROVED", "REJECTED"} =>
                                  payment'[p] = payment[p]
         /\ \A i \in Invoices : invoice[i] \in {"PAID", "VOID"} =>
                                  invoice'[i] = invoice[i]]_vars
  BY NextFinal DEF Final, RequestsFinal, PaymentsFinal, InvoicesFinal
<1> QED
  BY <1>1, BillingTypeCorrect, PTL DEF Spec, SettledIsFinal

-----------------------------------------------------------------------------

(* No access is taken away.  While no read has met a pending write and no      *)
(* admin edits, the one handler that is about to write has computed an end     *)
(* from the row as it is, and that is not before the end of the row.           *)

Pending(h) == task[h].pc = "write"

\* A pending write does not shorten the row it was computed from.
FarEnough(h) ==
    task[h].row # 0 /\ subs[task[h].row].ends # NoEnd =>
        task[h].ends >= subs[task[h].row].ends

PendingInv ==
    Undisturbed =>
        /\ \A g, h \in Handlers : Pending(g) /\ Pending(h) => g = h
        /\ \A h \in Handlers : Pending(h) => FarEnough(h)

\* The end of a row is a number unless the row has none.
LEMMA EndsType ==
    ASSUME TypeOK, NEW i \in DOMAIN subs
    PROVE  subs[i].ends \in Nat \cup {NoEnd}
<1>1. subs[i] \in Row
  BY DEF TypeOK
<1> QED
  BY <1>1 DEF Row

\* A step that writes no row, credits nothing and makes no write pending.
Quiet ==
    /\ UNCHANGED <<subs, credits, overlap, now>> /\ budget'.edits = budget.edits
    /\ \A h \in Handlers : Pending(h)' => task'[h] = task[h]

\* Such is a step that moves one handler elsewhere.
LEMMA MovedOn ==
    ASSUME TypeOK, UNCHANGED <<subs, credits, overlap, now>>, budget'.edits = budget.edits,
           NEW h \in Handlers, NEW t, t.pc # "write", task' = [task EXCEPT ![h] = t]
    PROVE  Quiet
<1>1. \A g \in Handlers : Pending(g)' => task'[g] = task[g]
  BY DEF TypeOK, Pending
<1> QED
  BY <1>1 DEF Quiet

LEMMA WentOn ==
    ASSUME TypeOK, UNCHANGED <<subs, credits, overlap, now>>, budget'.edits = budget.edits,
           NEW h \in Handlers, NEW pc, pc # "write", Goto(h, pc) \/ Finish(h)
    PROVE  Quiet
<1>1. CASE Goto(h, pc)
  <2> DEFINE t == [task[h] EXCEPT !.pc = pc]
  <2>1. task[h] \in Task
    BY DEF TypeOK
  <2>2. t.pc = pc
    BY <2>1 DEF Task
  <2>3. task' = [task EXCEPT ![h] = t]
    BY <1>1 DEF Goto
  <2> HIDE DEF t
  <2> QED
    BY <2>2, <2>3, MovedOn
<1>2. CASE Finish(h)
  BY <1>2, MovedOn DEF Finish, IdleTask
<1> QED
  BY <1>1, <1>2

LEMMA HandlersQuiet ==
    ASSUME TypeOK, NEW h \in Handlers,
           \/ \E r \in Requests : PaymentCaptured(h, r)
           \/ \E p \in Payments : ApprovePayment(h, p)
           \/ MarkPaymentRequestPaid(h) \/ MarkPaymentApproved(h) \/ WriteRefused(h)
           \/ CreatePaymentRecord(h) \/ MarkPaymentRequestCompleted(h)
           \/ FindOpenInvoice(h) \/ SettleInvoice(h)
           \/ HandlerStops(h) \/ ErrorDropped(h)
    PROVE  Quiet
<1>1. ASSUME NEW r \in Requests, PaymentCaptured(h, r) PROVE Quiet
  BY <1>1, MovedOn DEF PaymentCaptured, IdleTask
<1>2. ASSUME NEW p \in Payments, ApprovePayment(h, p) PROVE Quiet
  BY <1>2, MovedOn DEF ApprovePayment, IdleTask
<1>3. CASE MarkPaymentRequestPaid(h)
  BY <1>3, WentOn DEF MarkPaymentRequestPaid
<1>4. CASE MarkPaymentApproved(h)
  BY <1>4, WentOn DEF MarkPaymentApproved
<1>5. CASE WriteRefused(h)
  BY <1>5, WentOn DEF WriteRefused
<1>6. CASE CreatePaymentRecord(h) \/ MarkPaymentRequestCompleted(h)
  BY <1>6, WentOn DEF CreatePaymentRecord, MarkPaymentRequestCompleted
<1>7. CASE FindOpenInvoice(h)
  <2>1. CASE Finish(h)
    BY <1>7, <2>1, WentOn DEF FindOpenInvoice
  <2>2. ASSUME NEW i \in Invoices,
               task' = [task EXCEPT ![h] =
                          [task[h] EXCEPT !.pc = "settle", !.invoice = {i}]]
        PROVE  Quiet
    <3> DEFINE t == [task[h] EXCEPT !.pc = "settle", !.invoice = {i}]
    <3>1. task[h] \in Task
      BY DEF TypeOK
    <3>2. t.pc = "settle"
      BY <3>1 DEF Task
    <3>3. task' = [task EXCEPT ![h] = t]
      BY <2>2
    <3> HIDE DEF t
    <3> QED
      BY <1>7, <3>2, <3>3, MovedOn DEF FindOpenInvoice
  <2> QED
    BY <1>7, <2>1, <2>2 DEF FindOpenInvoice
<1>8. CASE SettleInvoice(h)
  BY <1>8, WentOn DEF SettleInvoice
<1>9. CASE HandlerStops(h) \/ ErrorDropped(h)
  <2>1. budget'.edits = budget.edits
    BY <1>9 DEF HandlerStops, ErrorDropped, TypeOK
  <2> QED
    BY <1>9, <2>1, WentOn DEF HandlerStops, ErrorDropped
<1> QED
  BY <1>1, <1>2, <1>3, <1>4, <1>5, <1>6, <1>7, <1>8, <1>9

LEMMA QuietPending == PendingInv /\ Quiet => PendingInv'
BY DEF PendingInv, Undisturbed, Pending, FarEnough, Quiet

\* The end computed from a row is not before that of the row.
LEMMA ExtendedFar ==
    ASSUME TypeOK, NEW e \in Nat \cup {NoEnd}, NEW n \in Nat, e # NoEnd
    PROVE  Extended(e, n) >= e
BY DEF Extended, TypeOK

LEMMA ReadPending ==
    ASSUME TypeOK, PendingInv, NEW h \in Handlers, ReadSubscription(h)
    PROVE  PendingInv'
<1> DEFINE x   == task[h].item
           row == IF x \in Requests THEN Len(subs) ELSE payment[x].row
           e   == IF row = 0 THEN NoEnd ELSE subs[row].ends
           t   == [IdleTask EXCEPT !.pc = "write", !.item = x, !.row = row,
                     !.activate = row # 0 /\ (x \in Payments \/ subs[row].status # "ACTIVE"),
                     !.ends = Extended(e, MonthsOf(x))]
<1>1. task' = [task EXCEPT ![h] = t]
  BY DEF ReadSubscription
<1>2. t.row = row /\ t.ends = Extended(e, MonthsOf(x))
  BY DEF IdleTask
<1>3. x \in Items /\ row \in 0..Len(subs)
  <2>1. x \in Items
    BY DEF ReadSubscription, TypeOK, WellPlaced
  <2>2. Len(subs) \in Nat
    BY DEF TypeOK
  <2>3. CASE x \in Requests
    BY <2>1, <2>2, <2>3
  <2>4. CASE x \in Payments
    <3>1. payment[x].row \in Nat /\ payment[x].row <= Len(subs)
      BY <2>4 DEF TypeOK
    <3>2. x \notin Requests
      BY <2>4, BillingAssumption
    <3> QED
      BY <2>1, <2>2, <3>1, <3>2
  <2> QED
    BY <2>1, <2>3, <2>4 DEF Items
<1>4. row # 0 => row \in DOMAIN subs
  BY <1>3 DEF TypeOK
<1>5. row # 0 /\ subs[row].ends # NoEnd => t.ends >= subs[row].ends
  <2> SUFFICES ASSUME row # 0, subs[row].ends # NoEnd PROVE t.ends >= subs[row].ends
    OBVIOUS
  <2>1. subs[row].ends \in Nat \cup {NoEnd} /\ e = subs[row].ends
    BY <1>4, EndsType
  <2>2. MonthsOf(x) \in Nat
    BY <1>3, MonthsOfType
  <2> HIDE DEF e, row, x
  <2> QED
    BY <1>2, <2>1, <2>2, ExtendedFar
<1>6. /\ UNCHANGED <<subs, budget>>
      /\ overlap' = (overlap \/ \E g \in Handlers \ {h} : task[g].pc = "write")
  BY DEF ReadSubscription
<1> HIDE DEF t, e, row, x
<1>7. task'[h] = t /\ \A g \in Handlers : g # h => task'[g] = task[g]
  BY <1>1 DEF TypeOK
<1>8. SUFFICES ASSUME Undisturbed'
               PROVE  /\ \A g, k \in Handlers : Pending(g)' /\ Pending(k)' => g = k
                      /\ \A g \in Handlers : Pending(g)' => FarEnough(g)'
  BY DEF PendingInv
<1>9. \A g \in Handlers : Pending(g)' => g = h
  BY <1>6, <1>7, <1>8 DEF Undisturbed, Pending
<1>10. FarEnough(h)'
  BY <1>2, <1>5, <1>6, <1>7 DEF FarEnough
<1> QED
  BY <1>9, <1>10

LEMMA WritePending ==
    ASSUME TypeOK, PendingInv, NEW h \in Handlers, WriteSubscription(h)
    PROVE  PendingInv'
<1> DEFINE pc == IF task[h].item \in Requests THEN "record" ELSE "find"
           t  == [task[h] EXCEPT !.pc = pc]
<1>1. task[h] \in Task /\ Pending(h)
  BY DEF TypeOK, WriteSubscription, Pending
<1>2. t.pc # "write"
  BY <1>1 DEF Task
<1>3. task' = [task EXCEPT ![h] = t] /\ UNCHANGED <<overlap, budget>>
  BY DEF WriteSubscription, Goto
<1> HIDE DEF t
<1>4. \A g \in Handlers : Pending(g)' => Pending(g) /\ g # h
  BY <1>2, <1>3 DEF Pending, TypeOK
<1> QED
  BY <1>1, <1>3, <1>4 DEF PendingInv, Undisturbed

LEMMA OthersPending ==
    ASSUME TypeOK, PendingInv,
           \/ \E r \in Requests : CreatePaymentRequest(r)
           \/ \E p \in Payments : RejectPayment(p)
           \/ \E p \in Payments, row \in 0..Len(subs) : CreatePayment(p, row)
           \/ \E i \in Invoices : AdminInvoice(i)
           \/ AdminEdits \/ MonthPasses \/ UNCHANGED vars
    PROVE  PendingInv'
<1>1. CASE AdminEdits
  <2>1. PICK rows : Edit(rows)
    BY <1>1 DEF AdminEdits, CreateSubscription, PatchSubscriptionStatus, ExtendSubscription
  <2>2. budget'.edits = budget.edits + 1 /\ budget.edits \in Nat
    BY <2>1 DEF Edit, TypeOK
  <2>3. ~Undisturbed'
    BY <2>2 DEF Undisturbed
  <2> QED
    BY <2>3 DEF PendingInv
<1>2. CASE ~AdminEdits
  <2>1. /\ UNCHANGED <<subs, overlap, task>> /\ budget'.edits = budget.edits
        /\ \A h \in Handlers : task'[h] = task[h]
    BY <1>2 DEF CreatePaymentRequest, RejectPayment, CreatePayment, AdminInvoice, MonthPasses,
                vars
  <2> QED
    BY <2>1 DEF PendingInv, Undisturbed, Pending, FarEnough
<1> QED
  BY <1>1, <1>2

LEMMA PendingInit == Init => PendingInv
BY DEF Init, PendingInv, Pending, IdleTask

LEMMA NextPending == TypeOK /\ PendingInv /\ [Next]_vars => PendingInv'
BY HandlersQuiet, QuietPending, ReadPending, WritePending, OthersPending DEF Next, Serve

LEMMA PendingInvariant == Spec => []PendingInv
BY BillingTypeCorrect, PendingInit, NextPending, PTL DEF Spec

\* What NeverShortened says of a step.
Longer ==
    \A i \in DOMAIN subs :
        subs[i].ends # NoEnd => subs'[i].ends # NoEnd /\ subs'[i].ends >= subs[i].ends

LEMMA SameRows == TypeOK /\ UNCHANGED subs => Longer
BY EndsType DEF Longer

\* The write of the one pending handler.
LEMMA WriteLonger ==
    ASSUME TypeOK, PendingInv, Undisturbed, NEW h \in Handlers, WriteSubscription(h)
    PROVE  Longer
<1> DEFINE t == task[h]
<1>1. /\ t.row \in Nat /\ t.row <= Len(subs) /\ t.ends \in Nat /\ t.pc = "write"
      /\ subs \in Seq(Row) /\ subs' = Written(t)
  BY DEF TypeOK, Task, WriteSubscription
<1>2. FarEnough(h)
  BY <1>1 DEF PendingInv, Pending
<1> SUFFICES ASSUME NEW i \in DOMAIN subs, subs[i].ends # NoEnd
             PROVE  subs'[i].ends # NoEnd /\ subs'[i].ends >= subs[i].ends
  BY DEF Longer
<1>3. subs[i].ends \in Nat /\ i \in 1..Len(subs)
  BY <1>1, EndsType
<1>4. CASE t.row = 0
  <2>1. subs'[i] = subs[i]
    BY <1>1, <1>3, <1>4, AppendProperties DEF Written
  <2> QED
    BY <1>3, <2>1
<1>5. CASE t.row # 0
  <2>1. subs' = [subs EXCEPT ![t.row] =
                   [status |-> IF t.activate THEN "ACTIVE" ELSE subs[t.row].status,
                    ends |-> t.ends]]
    BY <1>1, <1>5 DEF Written
  <2>2. CASE i = t.row
    <3>1. subs'[i].ends = t.ends
      BY <2>1, <2>2
    <3>2. t.ends >= subs[i].ends
      BY <1>2, <1>5, <2>2 DEF FarEnough
    <3>3. t.ends # NoEnd
      BY <1>1, BillingAssumption
    <3> QED
      BY <3>1, <3>2, <3>3
  <2>3. CASE i # t.row
    BY <1>3, <2>1, <2>3
  <2> QED
    BY <2>2, <2>3
<1> QED
  BY <1>4, <1>5

LEMMA NextLonger ==
    ASSUME TypeOK, PendingInv, [Next]_vars, budget'.edits = 0, ~overlap
    PROVE  Longer
<1>1. ASSUME NEW h \in Handlers, WriteSubscription(h) PROVE Longer
  <2>1. Undisturbed
    BY <1>1 DEF WriteSubscription, Undisturbed
  <2> QED
    BY <1>1, <2>1, WriteLonger
<1>2. CASE AdminEdits
  <2>1. PICK rows : Edit(rows)
    BY <1>2 DEF AdminEdits, CreateSubscription, PatchSubscriptionStatus, ExtendSubscription
  <2>2. budget'.edits = budget.edits + 1 /\ budget.edits \in Nat
    BY <2>1 DEF Edit, TypeOK
  <2> QED
    BY <2>2
<1>3. CASE ~AdminEdits /\ \A h \in Handlers : ~WriteSubscription(h)
  <2>1. UNCHANGED subs
    BY <1>3 DEF Next, Serve, PaymentCaptured, ApprovePayment, MarkPaymentRequestPaid,
                MarkPaymentApproved, ReadSubscription, WriteRefused, CreatePaymentRecord,
                MarkPaymentRequestCompleted, FindOpenInvoice, SettleInvoice, HandlerStops,
                ErrorDropped, CreatePaymentRequest, RejectPayment, CreatePayment, AdminInvoice,
                MonthPasses, vars
  <2> QED
    BY <2>1, SameRows
<1> QED
  BY <1>1, <1>2, <1>3

\* No payment takes access away while no admin edits and no extension was read
\* under another, for any number of payments, handlers, failures and retries.
THEOREM NothingShortened == Spec => NeverShortened
<1>1. TypeOK /\ PendingInv /\ [Next]_vars =>
        [budget'.edits = 0 /\ ~overlap =>
           \A i \in DOMAIN subs :
             subs[i].ends # NoEnd =>
               subs'[i].ends # NoEnd /\ subs'[i].ends >= subs[i].ends]_vars
  BY NextLonger DEF Longer
<1> QED
  BY <1>1, BillingTypeCorrect, PendingInvariant, PTL DEF Spec, NeverShortened

-----------------------------------------------------------------------------

(* Sums over finite sets.  A fold over a set is one recursive function on its  *)
(* subsets; a least counterexample, which MinimalSubset gives, takes the place *)
(* of an induction on the size of the set.                                     *)

\* A set of numbers that has a member has a least one.
LEMMA LeastNumber ==
    ASSUME NEW T, T \subseteq Nat, T # {}
    PROVE  \E n \in T : \A m \in T : n <= m
<1> DEFINE R == {p \in Nat \X Nat : p[1] < p[2]}
<1>1. OpToRel(<, Nat) = R
  BY Zenon DEF OpToRel
<1>2. IsWellFoundedOn(R, Nat)
  BY <1>1, NatLessThanWellFounded, Zenon
<1>3. PICK n \in T : \A m \in T : <<m, n>> \notin R
  <2> HIDE DEF R
  <2> QED
    BY <1>2, WFMin
<1>4. ASSUME NEW m \in T PROVE n <= m
  <2>1. m \in Nat /\ n \in Nat /\ ~ (m < n)
    BY <1>3
  <2> QED
    BY <2>1
<1> QED
  BY <1>4

\* A set of finite sets that has a member has one that is minimal in it.
LEMMA MinimalSubset ==
    ASSUME NEW S, IsFiniteSet(S), NEW T, T \subseteq SUBSET S, T # {}
    PROVE  \E s \in T : \A x \in s : s \ {x} \notin T
<1>1. \A s \in T : IsFiniteSet(s) /\ Cardinality(s) \in Nat
  BY FS_Subset, FS_CardinalityType
<1> DEFINE C == {Cardinality(s) : s \in T}
<1>2. C \subseteq Nat /\ C # {}
  BY <1>1
<1>3. PICK n \in C : \A m \in C : n <= m
  <2> HIDE DEF C
  <2> QED
    BY <1>2, LeastNumber
<1>4. PICK s \in T : n = Cardinality(s)
  BY <1>3
<1>5. \A x \in s : Cardinality(s \ {x}) = Cardinality(s) - 1
  BY <1>1, <1>4, FS_RemoveElement
<1>6. ASSUME NEW x \in s PROVE s \ {x} \notin T
  BY <1>1, <1>3, <1>4, <1>5
<1> QED
  BY <1>6

\* The element of s that a fold takes next, and the sums of w over the subsets of S.
first(s) == CHOOSE x \in s : TRUE
IsSum(f, w, S) ==
    f = [s \in SUBSET S |-> IF s = {} THEN 0 ELSE w[first(s)] + f[s \ {first(s)}]]

\* What the recursion says of one subset.
SumStep(f, w, s) ==
    /\ s = {} => f[s] = 0
    /\ s # {} => first(s) \in s /\ f[s] = w[first(s)] + f[s \ {first(s)}]

LEMMA SumEquation ==
    ASSUME NEW S, NEW w, NEW f, IsSum(f, w, S)
    PROVE  \A s \in SUBSET S : SumStep(f, w, s)
<1> SUFFICES ASSUME NEW s \in SUBSET S PROVE SumStep(f, w, s)
  OBVIOUS
<1>1. s # {} => first(s) \in s
  BY DEF first
<1> HIDE DEF first
<1>2. f[s] = IF s = {} THEN 0 ELSE w[first(s)] + f[s \ {first(s)}]
  BY DEF IsSum
<1> QED
  BY <1>1, <1>2 DEF SumStep

\* The sums of natural numbers are natural numbers.
LEMMA SumsAreNumbers ==
    ASSUME NEW S, IsFiniteSet(S), NEW w \in [S -> Nat], NEW f, IsSum(f, w, S)
    PROVE  \A s \in SUBSET S : f[s] \in Nat
<1> DEFINE T == {s \in SUBSET S : f[s] \notin Nat}
<1> SUFFICES ASSUME T # {} PROVE FALSE
  OBVIOUS
<1>1. PICK s \in T : \A x \in s : s \ {x} \notin T
  BY MinimalSubset
<1>2. SumStep(f, w, s)
  BY SumEquation
<1>3. s # {} => f[s \ {first(s)}] \in Nat /\ w[first(s)] \in Nat
  BY <1>1, <1>2 DEF SumStep
<1> QED
  BY <1>2, <1>3 DEF SumStep

\* To add d to the weight of x adds d to the sums that count x.
LEMMA SumChanges ==
    ASSUME NEW S, IsFiniteSet(S), NEW v \in [S -> Nat], NEW w \in [S -> Nat],
           NEW f, IsSum(f, v, S), NEW g, IsSum(g, w, S),
           NEW x \in S, NEW d \in Nat, w[x] = v[x] + d, \A y \in S \ {x} : w[y] = v[y]
    PROVE  \A s \in SUBSET S : g[s] = IF x \in s THEN f[s] + d ELSE f[s]
<1> DEFINE P(s) == g[s] = IF x \in s THEN f[s] + d ELSE f[s]
           T == {s \in SUBSET S : ~P(s)}
<1> SUFFICES ASSUME T # {} PROVE FALSE
  OBVIOUS
<1>1. PICK s \in T : \A y \in s : s \ {y} \notin T
  BY MinimalSubset
<1>2. SumStep(f, v, s) /\ SumStep(g, w, s)
  BY SumEquation
<1> DEFINE y == first(s)
           r == s \ {y}
<1>3. y \in s /\ f[s] = v[y] + f[r] /\ g[s] = w[y] + g[r] /\ r \in SUBSET S
  BY <1>1, <1>2 DEF SumStep
<1> HIDE DEF y
<1>4. P(r)
  BY <1>1, <1>3
<1>5. f[r] \in Nat /\ v[y] \in Nat
  BY <1>3, SumsAreNumbers
<1>6. y \in S
  BY <1>3
<1>7. CASE y = x
  BY <1>3, <1>4, <1>5, <1>7
<1>8. CASE y # x
  BY <1>3, <1>4, <1>5, <1>6, <1>8
<1> QED
  BY <1>7, <1>8

LEMMA SumOfZeros ==
    ASSUME NEW S, IsFiniteSet(S), NEW w, \A x \in S : w[x] = 0, NEW f, IsSum(f, w, S)
    PROVE  \A s \in SUBSET S : f[s] = 0
<1> DEFINE T == {s \in SUBSET S : f[s] # 0}
<1> SUFFICES ASSUME T # {} PROVE FALSE
  OBVIOUS
<1>1. PICK s \in T : \A x \in s : s \ {x} \notin T
  BY MinimalSubset
<1>2. SumStep(f, w, s)
  BY SumEquation
<1>3. s # {} => f[s \ {first(s)}] = 0 /\ w[first(s)] = 0
  BY <1>1, <1>2 DEF SumStep
<1> QED
  BY <1>2, <1>3 DEF SumStep

\* The recursion has a solution: one for the subsets of at most n elements gives
\* one for those of n + 1.
LEMMA SumExists ==
    ASSUME NEW S, IsFiniteSet(S), NEW w \in [S -> Nat]
    PROVE  \E f : IsSum(f, w, S)
<1> DEFINE Up(n) == {s \in SUBSET S : Cardinality(s) <= n}
           Rec(f, s) == IF s = {} THEN 0 ELSE w[first(s)] + f[s \ {first(s)}]
           Good(n) == \E f : f = [s \in Up(n) |-> Rec(f, s)]
           T == {n \in Nat : ~Good(n)}
<1>1. \A s \in SUBSET S : IsFiniteSet(s) /\ Cardinality(s) \in Nat /\ Cardinality(s) <= Cardinality(S)
  BY FS_Subset, FS_CardinalityType
<1>2. \A s \in SUBSET S : \A x \in s : Cardinality(s \ {x}) = Cardinality(s) - 1
  BY <1>1, FS_RemoveElement
<1>3. Good(0)
  <2>1. \A s \in Up(0) : s = {}
    BY <1>1, FS_EmptySet
  <2> DEFINE f == [s \in Up(0) |-> 0]
  <2>2. f = [s \in Up(0) |-> Rec(f, s)]
    BY <2>1
  <2> QED
    BY <2>2
<1>4. ASSUME NEW n \in Nat, Good(n) PROVE Good(n + 1)
  <2>1. PICK f : f = [s \in Up(n) |-> Rec(f, s)]
    BY <1>4
  <2> DEFINE g == [s \in Up(n + 1) |-> Rec(f, s)]
  <2>2. \A s \in Up(n + 1) : s # {} => first(s) \in s /\ s \ {first(s)} \in Up(n)
    <3> SUFFICES ASSUME NEW s \in Up(n + 1), s # {}
                 PROVE  first(s) \in s /\ s \ {first(s)} \in Up(n)
      OBVIOUS
    <3>1. first(s) \in s
      BY DEF first
    <3>2. Cardinality(s \ {first(s)}) = Cardinality(s) - 1 /\ Cardinality(s) \in Nat
      BY <1>1, <1>2, <3>1
    <3> QED
      BY <3>1, <3>2
  <2>3. \A s \in Up(n) : s \in Up(n + 1)
    BY <1>1
  <2>4. \A s \in Up(n) : g[s] = f[s]
    BY <2>1, <2>3
  <2>5. \A s \in Up(n + 1) : Rec(f, s) = Rec(g, s)
    BY <2>2, <2>4
  <2>6. g = [s \in Up(n + 1) |-> Rec(g, s)]
    BY <2>5
  <2> QED
    BY <2>6
<1>5. \A n \in Nat : Good(n)
  <2> HIDE DEF Good
  <2> SUFFICES ASSUME T # {} PROVE FALSE
    OBVIOUS
  <2>1. PICK n \in T : \A m \in T : n <= m
    BY LeastNumber
  <2>2. n # 0 /\ n - 1 \in Nat /\ n - 1 \notin T
    BY <1>3, <2>1
  <2> QED
    BY <1>4, <2>1, <2>2
<1>6. Cardinality(S) \in Nat /\ Up(Cardinality(S)) = SUBSET S
  BY <1>1, FS_CardinalityType
<1> QED
  BY <1>5, <1>6 DEF IsSum

-----------------------------------------------------------------------------

\* The months on behalf of which extensions were written, as a sum over the items.
MonthsCredited(c) ==
    MapThenFoldSet(+, 0, LAMBDA x : c[x] * MonthsOf(x), LAMBDA S : CHOOSE x \in S : TRUE, Items)
MonthsEach(c) == [x \in Items |-> c[x] * MonthsOf(x)]

LEMMA ItemsFinite == IsFiniteSet(Items)
BY BillingAssumption, FS_Union DEF Items

LEMMA MonthsEachType == \A c \in [Items -> Nat] : MonthsEach(c) \in [Items -> Nat]
BY MonthsOfType DEF MonthsEach

\* The fold of Billing is such a sum.
LEMMA CreditsSummed ==
    ASSUME NEW c \in [Items -> Nat]
    PROVE  \E f : IsSum(f, MonthsEach(c), Items) /\ MonthsCredited(c) = f[Items]
<1> DEFINE w == MonthsEach(c)
           Body(f) == [s \in SUBSET Items |->
                         IF s = {} THEN 0 ELSE c[first(s)] * MonthsOf(first(s)) + f[s \ {first(s)}]]
           F == CHOOSE f : f = Body(f)
<1>1. MonthsCredited(c) = F[Items]
  BY DEF MonthsCredited, MapThenFoldSet, first
<1>2. ASSUME NEW f PROVE f = Body(f) <=> IsSum(f, w, Items)
  <2>1. \A s \in SUBSET Items : s # {} => w[first(s)] = c[first(s)] * MonthsOf(first(s))
    <3> SUFFICES ASSUME NEW s \in SUBSET Items, s # {}
                 PROVE  w[first(s)] = c[first(s)] * MonthsOf(first(s))
      OBVIOUS
    <3>1. first(s) \in Items
      BY DEF first
    <3> HIDE DEF first
    <3> QED
      BY <3>1 DEF MonthsEach
  <2>2. Body(f) = [s \in SUBSET Items |-> IF s = {} THEN 0 ELSE w[first(s)] + f[s \ {first(s)}]]
    BY <2>1
  <2> QED
    BY <2>2 DEF IsSum
<1>3. \E f : f = Body(f)
  BY <1>2, SumExists, ItemsFinite, MonthsEachType
<1>4. F = Body(F)
  <2> HIDE DEF Body
  <2> QED
    BY <1>3
<1> QED
  BY <1>1, <1>2, <1>4

\* The same fold, of the credits before a step and after it.
LEMMA CreditedMonthsNow ==
    /\ CreditedMonths = MonthsCredited(credits)
    /\ CreditedMonths' = MonthsCredited(credits')
<1>1. CreditedMonths = MonthsCredited(credits)
  BY DEF CreditedMonths, MonthsCredited
<1>2. (CreditedMonths = MonthsCredited(credits))'
  BY <1>1, PTL
<1> QED
  BY <1>1, <1>2

LEMMA MonthsCreditedType == \A c \in [Items -> Nat] : MonthsCredited(c) \in Nat
BY CreditsSummed, SumsAreNumbers, ItemsFinite, MonthsEachType

\* An extension for an item adds its months.
LEMMA CreditAdded ==
    ASSUME NEW c \in [Items -> Nat], NEW x \in Items
    PROVE  MonthsCredited([c EXCEPT ![x] = @ + 1]) = MonthsCredited(c) + MonthsOf(x)
<1> DEFINE d == [c EXCEPT ![x] = @ + 1]
<1>1. d \in [Items -> Nat]
  OBVIOUS
<1>2. PICK f : IsSum(f, MonthsEach(c), Items) /\ MonthsCredited(c) = f[Items]
  BY CreditsSummed
<1>3. PICK g : IsSum(g, MonthsEach(d), Items) /\ MonthsCredited(d) = g[Items]
  BY <1>1, CreditsSummed
<1>4. MonthsOf(x) \in Nat
  BY MonthsOfType
<1>5. MonthsEach(d)[x] = MonthsEach(c)[x] + MonthsOf(x)
  BY <1>4 DEF MonthsEach
<1>6. \A y \in Items \ {x} : MonthsEach(d)[y] = MonthsEach(c)[y]
  BY DEF MonthsEach
<1>7. MonthsEach(c) \in [Items -> Nat] /\ MonthsEach(d) \in [Items -> Nat]
  BY <1>1, MonthsEachType
<1> HIDE DEF d
<1>8. \A s \in SUBSET Items : g[s] = IF x \in s THEN f[s] + MonthsOf(x) ELSE f[s]
  BY <1>2, <1>3, <1>4, <1>5, <1>6, <1>7, SumChanges, ItemsFinite
<1> QED
  BY <1>2, <1>3, <1>8 DEF d

LEMMA NothingCredited ==
    ASSUME NEW c \in [Items -> Nat], \A x \in Items : c[x] = 0
    PROVE  MonthsCredited(c) = 0
<1>1. PICK f : IsSum(f, MonthsEach(c), Items) /\ MonthsCredited(c) = f[Items]
  BY CreditsSummed
<1>2. \A x \in Items : MonthsEach(c)[x] = 0
  BY MonthsOfType DEF MonthsEach
<1> QED
  BY <1>1, <1>2, SumOfZeros, ItemsFinite

-----------------------------------------------------------------------------

(* The effects of reading and of writing a row. *)

LEMMA ReadEffect ==
    ASSUME TypeOK, NEW h \in Handlers, ReadSubscription(h)
    PROVE  /\ task[h].item \in Items /\ task[h].pc = "read"
           /\ UNCHANGED <<paid, subs, now, credits, budget>>
           /\ overlap' = (overlap \/ \E g \in Handlers \ {h} : Pending(g))
           /\ \A g \in Handlers \ {h} : task'[g] = task[g]
           /\ task'[h].pc = "write" /\ task'[h].item = task[h].item
           /\ \E row \in 0..Len(subs), e \in Nat \cup {NoEnd} :
                /\ row = IF task[h].item \in Requests THEN Len(subs)
                         ELSE payment[task[h].item].row
                /\ e = IF row = 0 THEN NoEnd ELSE subs[row].ends
                /\ task'[h].row = row
                /\ task'[h].ends = Extended(e, MonthsOf(task[h].item))
<1> DEFINE x   == task[h].item
           row == IF x \in Requests THEN Len(subs) ELSE payment[x].row
           e   == IF row = 0 THEN NoEnd ELSE subs[row].ends
           t   == [IdleTask EXCEPT !.pc = "write", !.item = x, !.row = row,
                     !.activate = row # 0 /\ (x \in Payments \/ subs[row].status # "ACTIVE"),
                     !.ends = Extended(e, MonthsOf(x))]
<1>1. task' = [task EXCEPT ![h] = t]
  BY DEF ReadSubscription
<1>2. t.pc = "write" /\ t.item = x /\ t.row = row /\ t.ends = Extended(e, MonthsOf(x))
  BY DEF IdleTask
<1>3. x \in Items /\ row \in 0..Len(subs)
  <2>1. x \in Items /\ Len(subs) \in Nat
    BY DEF ReadSubscription, TypeOK, WellPlaced
  <2>2. x \in Payments => payment[x].row \in Nat /\ payment[x].row <= Len(subs)
    BY DEF TypeOK
  <2> QED
    BY <2>1, <2>2 DEF Items
<1>4. e \in Nat \cup {NoEnd}
  <2>1. row # 0 => row \in DOMAIN subs
    BY <1>3 DEF TypeOK
  <2> QED
    BY <2>1, EndsType
<1>5. /\ UNCHANGED <<paid, subs, now, credits, budget>> /\ task[h].pc = "read"
      /\ overlap' = (overlap \/ \E g \in Handlers \ {h} : Pending(g))
  BY DEF ReadSubscription, Pending
<1> HIDE DEF t
<1>6. task'[h] = t /\ \A g \in Handlers \ {h} : task'[g] = task[g]
  BY <1>1 DEF TypeOK
<1> QED
  BY <1>2, <1>3, <1>4, <1>5, <1>6

LEMMA WriteEffect ==
    ASSUME TypeOK, NEW h \in Handlers, WriteSubscription(h)
    PROVE  /\ task[h].item \in Items /\ Pending(h) /\ ~Pending(h)' /\ task[h].ends \in Nat
           /\ UNCHANGED <<paid, now, overlap, budget>>
           /\ credits' = [credits EXCEPT ![task[h].item] = @ + 1]
           /\ \A g \in Handlers \ {h} : task'[g] = task[g]
           /\ task'[h].item = task[h].item
           /\ LET n == task[h].row
                  k == IF n = 0 THEN Len(subs) + 1 ELSE n
              IN /\ Len(subs') = IF n = 0 THEN Len(subs) + 1 ELSE Len(subs)
                 /\ \A i \in DOMAIN subs' :
                      IF i = k THEN subs'[i].ends = task[h].ends
                      ELSE i \in DOMAIN subs /\ subs'[i].ends = subs[i].ends
<1> DEFINE t == task[h]
           n == t.row
           pc == IF t.item \in Requests THEN "record" ELSE "find"
           u == [t EXCEPT !.pc = pc]
<1>1. /\ t \in Task /\ t.pc = "write" /\ t.item \in Items /\ n <= Len(subs)
      /\ subs \in Seq(Row) /\ Len(subs) \in Nat
  BY DEF TypeOK, WriteSubscription, WellPlaced
<1>2. t.ends \in Nat /\ n \in Nat
  BY <1>1 DEF Task
<1>3. /\ UNCHANGED <<paid, now, overlap, budget>> /\ subs' = Written(t)
      /\ credits' = [credits EXCEPT ![t.item] = @ + 1]
      /\ task' = [task EXCEPT ![h] = u]
  BY DEF WriteSubscription, Goto
<1>4. u.pc # "write" /\ u.item = t.item
  BY <1>1 DEF Task
<1>5. CASE n = 0
  <2> DEFINE r == [status |-> "ACTIVE", ends |-> t.ends]
  <2>1. subs' = Append(subs, r) /\ r.ends = t.ends
    BY <1>3, <1>5 DEF Written
  <2> HIDE DEF r
  <2>2. /\ Len(subs') = Len(subs) + 1 /\ DOMAIN subs' = 1..(Len(subs) + 1)
        /\ subs'[Len(subs) + 1] = r
        /\ \A i \in 1..Len(subs) : subs'[i] = subs[i]
    BY <1>1, <2>1
  <2>3. DOMAIN subs = 1..Len(subs)
    BY <1>1
  <2>4. /\ Len(subs') = IF n = 0 THEN Len(subs) + 1 ELSE Len(subs)
        /\ \A i \in DOMAIN subs' :
             IF i = (IF n = 0 THEN Len(subs) + 1 ELSE n) THEN subs'[i].ends = t.ends
             ELSE i \in DOMAIN subs /\ subs'[i].ends = subs[i].ends
    BY <1>1, <1>5, <2>1, <2>2, <2>3
  <2> HIDE DEF u
  <2> QED
    BY <1>1, <1>2, <1>3, <1>4, <2>4 DEF TypeOK, Pending
<1>6. CASE n # 0
  <2> DEFINE r == [status |-> IF t.activate THEN "ACTIVE" ELSE subs[t.row].status,
                   ends |-> t.ends]
  <2>1. subs' = [subs EXCEPT ![n] = r] /\ r.ends = t.ends
    BY <1>3, <1>6 DEF Written
  <2> HIDE DEF r
  <2>2. Len(subs') = Len(subs) /\ DOMAIN subs' = DOMAIN subs /\ n \in DOMAIN subs
    BY <1>1, <1>2, <1>6, <2>1
  <2>3. /\ Len(subs') = IF n = 0 THEN Len(subs) + 1 ELSE Len(subs)
        /\ \A i \in DOMAIN subs' :
             IF i = (IF n = 0 THEN Len(subs) + 1 ELSE n) THEN subs'[i].ends = t.ends
             ELSE i \in DOMAIN subs /\ subs'[i].ends = subs[i].ends
    BY <1>1, <1>6, <2>1, <2>2
  <2> HIDE DEF u
  <2> QED
    BY <1>1, <1>2, <1>3, <1>4, <2>3 DEF TypeOK, Pending
<1> QED
  BY <1>5, <1>6

-----------------------------------------------------------------------------

(* No more is given than was paid.  The end a handler is about to write was    *)
(* within what was credited when it read the row, and its own months are added *)
(* to the credits by the write itself.                                         *)

Granted == now + 1 + CreditedMonths

WithinCredits ==
    budget.edits = 0 =>
        /\ \A i \in DOMAIN subs : subs[i].ends # NoEnd => subs[i].ends <= Granted
        /\ \A h \in Handlers : Pending(h) =>
             task[h].ends <= Granted + MonthsOf(task[h].item)

LEMMA CreditedMonthsType == TypeOK => CreditedMonths \in Nat
BY CreditedMonthsNow, MonthsCreditedType DEF TypeOK

LEMMA SameCredits == credits' = credits => CreditedMonths' = CreditedMonths
BY CreditedMonthsNow

LEMMA WithinInit == Init => WithinCredits
<1> SUFFICES ASSUME Init PROVE WithinCredits
  OBVIOUS
<1>1. TypeOK
  BY TypeInit
<1>2. Granted \in Nat /\ Granted >= 1
  BY <1>1, CreditedMonthsType DEF Init, Granted
<1>3. \A h \in Handlers : ~Pending(h)
  BY DEF Init, Pending, IdleTask
<1>4. \A i \in DOMAIN subs : subs[i].ends # NoEnd => subs[i].ends = 1
  BY DEF Init
<1> QED
  BY <1>2, <1>3, <1>4 DEF WithinCredits

\* What is read is within the credits, so its extension is within them and its own
\* months.
LEMMA WithinRead ==
    ASSUME TypeOK, WithinCredits, NEW h \in Handlers, ReadSubscription(h)
    PROVE  WithinCredits'
<1> DEFINE x == task[h].item
<1>1. PICK row \in 0..Len(subs), e \in Nat \cup {NoEnd} :
        /\ e = IF row = 0 THEN NoEnd ELSE subs[row].ends
        /\ task'[h].ends = Extended(e, MonthsOf(x))
  BY ReadEffect
<1>2. /\ x \in Items /\ task'[h].item = x
      /\ UNCHANGED <<subs, now, credits, budget>>
      /\ \A g \in Handlers \ {h} : task'[g] = task[g]
  BY ReadEffect
<1>3. Granted' = Granted
  BY <1>2, SameCredits DEF Granted
<1>4. Granted \in Nat /\ now \in Nat /\ now <= Granted /\ MonthsOf(x) \in Nat
  BY <1>2, CreditedMonthsType, MonthsOfType DEF Granted, TypeOK
<1> SUFFICES ASSUME budget.edits = 0
             PROVE  /\ \A i \in DOMAIN subs' : subs'[i].ends # NoEnd => subs'[i].ends <= Granted'
                    /\ \A g \in Handlers : Pending(g)' =>
                         task'[g].ends <= Granted' + MonthsOf(task'[g].item)
  BY <1>2 DEF WithinCredits
<1>5. e # NoEnd => e \in Nat /\ e <= Granted
  <2>1. row # 0 => row \in DOMAIN subs
    BY DEF TypeOK
  <2> QED
    BY <1>1, <2>1 DEF WithinCredits
<1>6. task'[h].ends <= Granted + MonthsOf(x)
  BY <1>1, <1>4, <1>5 DEF Extended
<1>7. \A g \in Handlers : Pending(g)' => task'[g].ends <= Granted' + MonthsOf(task'[g].item)
  BY <1>2, <1>3, <1>6 DEF WithinCredits, Pending
<1>8. \A i \in DOMAIN subs' : subs'[i].ends # NoEnd => subs'[i].ends <= Granted'
  BY <1>2, <1>3 DEF WithinCredits
<1> QED
  BY <1>7, <1>8

\* The write brings in the credit it was owed.
LEMMA WithinWrite ==
    ASSUME TypeOK, WithinCredits, NEW h \in Handlers, WriteSubscription(h)
    PROVE  WithinCredits'
<1> DEFINE x == task[h].item
<1>1. /\ x \in Items /\ Pending(h) /\ ~Pending(h)' /\ task[h].ends \in Nat
      /\ UNCHANGED <<now, budget>> /\ credits' = [credits EXCEPT ![x] = @ + 1]
      /\ \A g \in Handlers \ {h} : task'[g] = task[g]
  BY WriteEffect
<1>2. \A i \in DOMAIN subs' :
        \/ subs'[i].ends = task[h].ends
        \/ i \in DOMAIN subs /\ subs'[i].ends = subs[i].ends
  BY WriteEffect
<1>3. Granted' = Granted + MonthsOf(x)
  <2>1. CreditedMonths' = CreditedMonths + MonthsOf(x)
    BY <1>1, CreditedMonthsNow, CreditAdded DEF TypeOK
  <2>2. CreditedMonths \in Nat /\ MonthsOf(x) \in Nat /\ now \in Nat
    BY <1>1, CreditedMonthsType, MonthsOfType DEF TypeOK
  <2> QED
    BY <1>1, <2>1, <2>2 DEF Granted
<1>4. Granted \in Nat /\ \A y \in Items : MonthsOf(y) \in Nat
  BY CreditedMonthsType, MonthsOfType DEF Granted, TypeOK
<1> SUFFICES ASSUME budget.edits = 0
             PROVE  /\ \A i \in DOMAIN subs' : subs'[i].ends # NoEnd => subs'[i].ends <= Granted'
                    /\ \A g \in Handlers : Pending(g)' =>
                         task'[g].ends <= Granted' + MonthsOf(task'[g].item)
  BY <1>1 DEF WithinCredits
<1>5. ASSUME NEW i \in DOMAIN subs', subs'[i].ends # NoEnd PROVE subs'[i].ends <= Granted'
  <2>1. CASE subs'[i].ends = task[h].ends
    BY <1>1, <1>3, <2>1 DEF WithinCredits
  <2>2. CASE i \in DOMAIN subs /\ subs'[i].ends = subs[i].ends
    <3>1. subs[i].ends \in Nat /\ subs[i].ends <= Granted
      BY <1>5, <2>2, EndsType DEF WithinCredits
    <3> QED
      BY <1>1, <1>3, <1>4, <2>2, <3>1
  <2> QED
    BY <1>2, <2>1, <2>2
<1>6. ASSUME NEW g \in Handlers, Pending(g)'
      PROVE  task'[g].ends <= Granted' + MonthsOf(task'[g].item)
  <2>1. task'[g] = task[g] /\ Pending(g)
    BY <1>1, <1>6 DEF Pending
  <2>2. task[g].item \in Items /\ task[g].ends \in Nat
    BY <2>1 DEF Pending, TypeOK, Task, WellPlaced
  <2>3. task[g].ends <= Granted + MonthsOf(task[g].item)
    BY <2>1 DEF WithinCredits
  <2> QED
    BY <1>1, <1>3, <1>4, <2>1, <2>2, <2>3
<1> QED
  BY <1>5, <1>6

\* A step without a read, a write or an edit; time may pass.
LEMMA WithinOthers ==
    ASSUME TypeOK, TypeOK', WithinCredits, UNCHANGED <<subs, credits>>, now' >= now,
           budget'.edits = budget.edits,
           \A g \in Handlers : Pending(g)' => task'[g] = task[g]
    PROVE  WithinCredits'
<1>1. CreditedMonths \in Nat /\ CreditedMonths' = CreditedMonths /\ now \in Nat /\ now' \in Nat
  BY CreditedMonthsType, SameCredits DEF TypeOK
<1>2. Granted \in Nat /\ Granted' \in Nat /\ Granted <= Granted'
  <2>1. Granted = now + 1 + CreditedMonths /\ Granted' = now' + 1 + CreditedMonths
    BY <1>1 DEF Granted
  <2>2. \A a, b, c \in Nat :
          b >= a => a + 1 + c \in Nat /\ b + 1 + c \in Nat /\ a + 1 + c <= b + 1 + c
    OBVIOUS
  <2>3. now' >= now
    OBVIOUS
  <2> HIDE DEF Granted
  <2> QED
    BY ONLY <1>1, <2>1, <2>2, <2>3
<1>3. \A i \in DOMAIN subs : subs[i].ends \in Nat \cup {NoEnd}
  BY EndsType
<1>4. \A g \in Handlers : Pending(g) => task[g].ends \in Nat /\ MonthsOf(task[g].item) \in Nat
  BY MonthsOfType DEF Pending, TypeOK, Task, WellPlaced
<1>5. ASSUME budget.edits = 0, NEW i \in DOMAIN subs, subs[i].ends # NoEnd
      PROVE  subs[i].ends <= Granted'
  BY <1>2, <1>3, <1>5 DEF WithinCredits
<1>6. ASSUME budget.edits = 0, NEW g \in Handlers, Pending(g)'
      PROVE  task'[g].ends <= Granted' + MonthsOf(task'[g].item)
  <2>1. task'[g] = task[g] /\ Pending(g)
    BY <1>6 DEF Pending
  <2> QED
    BY <1>2, <1>4, <1>6, <2>1 DEF WithinCredits
<1> QED
  BY <1>5, <1>6 DEF WithinCredits

LEMMA NextWithin == TypeOK /\ TypeOK' /\ WithinCredits /\ [Next]_vars => WithinCredits'
<1> SUFFICES ASSUME TypeOK, TypeOK', WithinCredits, [Next]_vars PROVE WithinCredits'
  OBVIOUS
<1>1. ASSUME NEW h \in Handlers, ReadSubscription(h) \/ WriteSubscription(h)
      PROVE  WithinCredits'
  BY <1>1, WithinRead, WithinWrite
<1>2. CASE Quiet
  <2>1. now' >= now
    BY <1>2 DEF Quiet, TypeOK
  <2> QED
    BY <1>2, <2>1, WithinOthers DEF Quiet
<1>3. CASE AdminEdits
  <2>1. PICK rows : Edit(rows)
    BY <1>3 DEF AdminEdits, CreateSubscription, PatchSubscriptionStatus, ExtendSubscription
  <2>2. budget'.edits # 0
    BY <2>1 DEF Edit, TypeOK
  <2> QED
    BY <2>2 DEF WithinCredits
<1>4. CASE \/ \E r \in Requests : CreatePaymentRequest(r)
           \/ \E p \in Payments : RejectPayment(p)
           \/ \E p \in Payments, row \in 0..Len(subs) : CreatePayment(p, row)
           \/ \E i \in Invoices : AdminInvoice(i)
           \/ MonthPasses \/ UNCHANGED vars
  <2>1. /\ UNCHANGED <<subs, credits, task>> /\ now' >= now /\ budget'.edits = budget.edits
        /\ \A g \in Handlers : task'[g] = task[g]
    BY <1>4 DEF CreatePaymentRequest, RejectPayment, CreatePayment, AdminInvoice, MonthPasses,
                vars, TypeOK
  <2> QED
    BY <2>1, WithinOthers
<1> QED
  BY <1>1, <1>2, <1>3, <1>4, HandlersQuiet DEF Next, Serve

\* However captures, approvals, their failures and retries interleave, nobody has
\* access beyond the trial's month, the present and the months that were credited.
THEOREM NothingOvercredited == Spec => []NeverOvercredited
<1>1. WithinCredits => NeverOvercredited
  BY DEF WithinCredits, NeverOvercredited, Granted
<1>2. TypeOK /\ WithinCredits /\ [Next]_vars => WithinCredits'
  BY NextType, NextWithin
<1> QED
  BY <1>1, <1>2, WithinInit, BillingTypeCorrect, PTL DEF Spec

-----------------------------------------------------------------------------

(* Whoever has paid is covered.  Without faults, edits and overlapping reads   *)
(* there is one row at most, a pending write was computed from it as it is,    *)
(* and its end makes room for one more credit than the row's own.              *)

Calm == budget.faults = 0 /\ Undisturbed

\* An approval reads the row its payment names.
ReadsNamedRow ==
    \A h \in Handlers :
        task[h].pc = "read" /\ task[h].item \in Payments => payment[task[h].item].row # 0

OneRow == Len(subs) <= 1 /\ (Len(subs) = 0 => \A x \in Items : credits[x] = 0)

RowCovers ==
    \A i \in DOMAIN subs :
        IF subs[i].ends = NoEnd THEN \A x \in Items : credits[x] = 0
        ELSE subs[i].ends >= CreditedMonths

WriteCovers ==
    \A h \in Handlers : Pending(h) =>
        /\ task[h].row = Len(subs)
        /\ task[h].ends >= CreditedMonths + MonthsOf(task[h].item)

PaidIsOwed ==
    \A r \in Requests : request[r] = "paid" /\ credits[r] = 0 =>
        \E h \in Handlers : Extending(h, r)

CoverInv == ReadsNamedRow /\ (Calm => OneRow /\ RowCovers /\ WriteCovers /\ PaidIsOwed)

LEMMA NoCredits == TypeOK /\ (\A x \in Items : credits[x] = 0) => CreditedMonths = 0
BY CreditedMonthsNow, NothingCredited DEF TypeOK

\* What is known of the number of rows, and of a row that was read.
LEMMA NoneOrOne ==
    /\ \A n \in Nat : n <= 1 => n \in {0, 1}
    /\ \A n, m \in Nat : n <= 1 /\ m <= n /\ m # 0 => m = n
OBVIOUS

LEMMA CoverInit == Init => CoverInv
<1> SUFFICES ASSUME Init PROVE CoverInv
  OBVIOUS
<1>1. TypeOK
  BY TypeInit
<1>2. CreditedMonths = 0 /\ \A x \in Items : credits[x] = 0
  BY <1>1, NoCredits DEF Init
<1>3. \A h \in Handlers : task[h].pc = "idle"
  BY DEF Init, IdleTask
<1>4. Len(subs) <= 1
  <2>1. CASE subs = <<>>
    BY <2>1
  <2>2. CASE subs = <<[status |-> "TRIAL", ends |-> 1]>>
    BY <2>2
  <2>3. CASE subs = <<[status |-> "ACTIVE", ends |-> NoEnd]>>
    BY <2>3
  <2> QED
    BY <2>1, <2>2, <2>3 DEF Init
<1>5. \A i \in DOMAIN subs : subs[i].ends = 1 \/ subs[i].ends = NoEnd
  BY DEF Init
<1>6. \A r \in Requests : request[r] # "paid"
  BY DEF Init
<1> QED
  BY <1>2, <1>3, <1>4, <1>5, <1>6
  DEF CoverInv, ReadsNamedRow, OneRow, RowCovers, WriteCovers, PaidIsOwed, Pending

\* What a request owes stays owed by a step that settles none, credits none and
\* takes no token from a handler.
LEMMA OwedKept ==
    ASSUME PaidIsOwed, UNCHANGED credits,
           \A r \in Requests : request'[r] = "paid" => request[r] = "paid",
           \A h \in Handlers, x \in Items : Extending(h, x) => Extending(h, x)'
    PROVE  PaidIsOwed'
BY DEF PaidIsOwed, Items

\* The rows and the pending writes, for a step that leaves both alone.
LEMMA CoverKept ==
    ASSUME UNCHANGED <<subs, credits>>, \A h \in Handlers : Pending(h)' => task'[h] = task[h],
           OneRow, RowCovers, WriteCovers
    PROVE  OneRow' /\ RowCovers' /\ WriteCovers'
<1>1. CreditedMonths' = CreditedMonths
  BY SameCredits
<1> QED
  BY <1>1 DEF OneRow, RowCovers, WriteCovers, Pending

\* A step that makes nothing calm that was not.
LEMMA StaysCalm ==
    ASSUME TypeOK, [Next]_vars, Calm'
    PROVE  /\ Calm /\ ~AdminEdits
           /\ \A h \in Handlers : ~HandlerStops(h) /\ ~ErrorDropped(h)
<1>1. AdminEdits => budget'.edits # 0
  <2> SUFFICES ASSUME AdminEdits PROVE budget'.edits # 0
    OBVIOUS
  <2>1. PICK rows : Edit(rows)
    BY DEF AdminEdits, CreateSubscription, PatchSubscriptionStatus, ExtendSubscription
  <2> QED
    BY <2>1 DEF Edit, TypeOK
<1>2. \A h \in Handlers : HandlerStops(h) \/ ErrorDropped(h) => budget'.faults # 0
  BY DEF HandlerStops, ErrorDropped, TypeOK
<1>3. ~AdminEdits /\ \A h \in Handlers : ~HandlerStops(h) /\ ~ErrorDropped(h)
  BY <1>1, <1>2 DEF Calm, Undisturbed
<1>4. UNCHANGED budget /\ (overlap => overlap')
  <2>1. ASSUME NEW h \in Handlers, Serve(h) PROVE UNCHANGED budget /\ (overlap => overlap')
    <3>1. CASE ReadSubscription(h)
      BY <3>1, ReadEffect
    <3>2. CASE WriteSubscription(h)
      BY <3>2, WriteEffect
    <3>3. CASE \/ \E r \in Requests : PaymentCaptured(h, r)
               \/ \E p \in Payments : ApprovePayment(h, p)
      <4>1. UNCHANGED <<overlap, budget>>
        BY <3>3 DEF PaymentCaptured, ApprovePayment
      <4> QED
        BY <4>1
    <3>4. CASE MarkPaymentRequestPaid(h) \/ MarkPaymentApproved(h) \/ WriteRefused(h)
      BY <3>4 DEF MarkPaymentRequestPaid, MarkPaymentApproved, WriteRefused
    <3>5. CASE \/ CreatePaymentRecord(h) \/ MarkPaymentRequestCompleted(h)
               \/ FindOpenInvoice(h) \/ SettleInvoice(h)
      <4>1. UNCHANGED <<overlap, budget>>
        BY <3>5 DEF CreatePaymentRecord, MarkPaymentRequestCompleted, FindOpenInvoice, SettleInvoice
      <4> QED
        BY <4>1
    <3> QED
      BY <2>1, <3>1, <3>2, <3>3, <3>4, <3>5 DEF Serve
  <2>2. ASSUME \/ \E r \in Requests : CreatePaymentRequest(r)
               \/ \E p \in Payments : RejectPayment(p)
               \/ \E p \in Payments, row \in 0..Len(subs) : CreatePayment(p, row)
               \/ \E i \in Invoices : AdminInvoice(i)
               \/ MonthPasses \/ UNCHANGED vars
        PROVE  UNCHANGED <<budget, overlap>>
    BY <2>2 DEF CreatePaymentRequest, RejectPayment, CreatePayment, AdminInvoice, MonthPasses, vars
  <2> QED
    BY <1>3, <2>1, <2>2 DEF Next
<1> QED
  BY <1>3, <1>4 DEF Calm, Undisturbed

-----------------------------------------------------------------------------

\* The row that an approval reads stays named.
LEMMA NamedKept ==
    ASSUME ReadsNamedRow, NEW h \in Handlers,
           \A g \in Handlers \ {h} : task'[g] = task[g],
           task'[h].pc # "read",
           \A p \in Payments : payment[p].row # 0 => payment'[p].row # 0
    PROVE  ReadsNamedRow'
BY DEF ReadsNamedRow

\* A read takes the one row there is, and no other read is pending.
LEMMA CoverRead ==
    ASSUME TypeOK, CreditInv, PendingInv, CoverInv, NEW h \in Handlers, ReadSubscription(h)
    PROVE  CoverInv'
<1> DEFINE x == task[h].item
<1>1. PICK row \in 0..Len(subs), e \in Nat \cup {NoEnd} :
        /\ row = IF x \in Requests THEN Len(subs) ELSE payment[x].row
        /\ e = IF row = 0 THEN NoEnd ELSE subs[row].ends
        /\ task'[h].row = row
        /\ task'[h].ends = Extended(e, MonthsOf(x))
  BY ReadEffect
<1>2. /\ x \in Items /\ task[h].pc = "read" /\ task'[h].item = x /\ task'[h].pc = "write"
      /\ UNCHANGED <<paid, subs, now, credits, budget>>
      /\ overlap' = (overlap \/ \E g \in Handlers \ {h} : Pending(g))
      /\ \A g \in Handlers \ {h} : task'[g] = task[g]
  BY ReadEffect
<1>3. ReadsNamedRow'
  BY <1>2, NamedKept DEF CoverInv, paid
<1> SUFFICES ASSUME Calm' PROVE OneRow' /\ RowCovers' /\ WriteCovers' /\ PaidIsOwed'
  BY <1>3 DEF CoverInv
<1>4. /\ OneRow /\ RowCovers /\ WriteCovers /\ PaidIsOwed
      /\ \A g \in Handlers \ {h} : ~Pending(g)
  BY <1>2 DEF Calm, Undisturbed, CoverInv
<1>5. CreditedMonths' = CreditedMonths /\ CreditedMonths \in Nat
  BY <1>2, SameCredits, CreditedMonthsType
<1>6. Len(subs) \in {0, 1} /\ row = Len(subs)
  <2>1. Len(subs) \in Nat /\ Len(subs) <= 1
    BY <1>4 DEF OneRow, TypeOK
  <2>2. CASE x \in Requests
    <3>1. row = Len(subs)
      BY <1>1, <2>2
    <3> QED
      BY <2>1, <3>1, NoneOrOne
  <2>3. CASE x \notin Requests
    <3>1. x \in Payments /\ row # 0
      BY <1>1, <1>2, <2>3 DEF Items, CoverInv, ReadsNamedRow
    <3>2. row <= Len(subs) /\ row \in Nat
      BY <1>1, <2>1
    <3>3. row = Len(subs)
      BY <2>1, <3>1, <3>2, NoneOrOne
    <3> QED
      BY <2>1, <3>3, NoneOrOne
  <2> QED
    BY <2>2, <2>3
<1>7. IF e = NoEnd THEN CreditedMonths = 0 ELSE e \in Nat /\ e >= CreditedMonths
  <2>1. CASE Len(subs) = 0
    BY <1>1, <1>4, <1>6, <2>1, NoCredits DEF OneRow
  <2>2. CASE Len(subs) = 1
    <3>1. 1 \in DOMAIN subs /\ e = subs[1].ends
      BY <1>1, <1>6, <2>2 DEF TypeOK
    <3> QED
      BY <1>4, <3>1, NoCredits DEF RowCovers
  <2> QED
    BY <1>6, <2>1, <2>2
<1>8. task'[h].ends >= CreditedMonths + MonthsOf(x)
  <2>1. MonthsOf(x) \in Nat /\ now \in Nat
    BY <1>2, MonthsOfType DEF TypeOK
  <2>2. Extended(e, MonthsOf(x)) >= CreditedMonths + MonthsOf(x)
    <3>1. CASE e = NoEnd
      BY <1>5, <1>7, <2>1, <3>1 DEF Extended
    <3>2. CASE e # NoEnd
      BY <1>5, <1>7, <2>1, <3>2 DEF Extended
    <3> QED
      BY <3>1, <3>2
  <2> QED
    BY <1>1, <2>2
<1>9. WriteCovers'
  BY <1>1, <1>2, <1>4, <1>5, <1>6, <1>8 DEF WriteCovers, Pending
<1>10. OneRow' /\ RowCovers'
  BY <1>2, <1>4, <1>5 DEF OneRow, RowCovers
<1>11. PaidIsOwed'
  <2>1. \A g \in Handlers, y \in Items : Extending(g, y) => Extending(g, y)'
    BY <1>2 DEF Extending
  <2>2. request' = request
    BY <1>2 DEF paid
  <2> QED
    BY <1>2, <1>4, <2>1, <2>2, OwedKept
<1> QED
  BY <1>9, <1>10, <1>11

\* The write gives the row room for the credit that it adds.
LEMMA CoverWrite ==
    ASSUME TypeOK, CreditInv, PendingInv, CoverInv, NEW h \in Handlers, WriteSubscription(h)
    PROVE  CoverInv'
<1> DEFINE x == task[h].item
           n == task[h].row
           k == IF n = 0 THEN Len(subs) + 1 ELSE n
<1>1. /\ x \in Items /\ Pending(h) /\ ~Pending(h)' /\ task[h].ends \in Nat
      /\ UNCHANGED <<paid, now, overlap, budget>>
      /\ credits' = [credits EXCEPT ![x] = @ + 1]
      /\ \A g \in Handlers \ {h} : task'[g] = task[g]
      /\ task'[h].item = x
  BY WriteEffect
<1>2. /\ Len(subs') = IF n = 0 THEN Len(subs) + 1 ELSE Len(subs)
      /\ \A i \in DOMAIN subs' :
           IF i = k THEN subs'[i].ends = task[h].ends
           ELSE i \in DOMAIN subs /\ subs'[i].ends = subs[i].ends
  BY WriteEffect
<1>3. task'[h].pc # "read"
  BY DEF WriteSubscription, Goto, TypeOK, Task
<1>4. ReadsNamedRow'
  BY <1>1, <1>3, NamedKept DEF CoverInv, paid
<1> SUFFICES ASSUME Calm' PROVE OneRow' /\ RowCovers' /\ WriteCovers' /\ PaidIsOwed'
  BY <1>4 DEF CoverInv
<1>5. /\ OneRow /\ RowCovers /\ WriteCovers /\ PaidIsOwed
      /\ \A g \in Handlers \ {h} : ~Pending(g)
  BY <1>1 DEF Calm, Undisturbed, CoverInv, PendingInv
<1>6. /\ n = Len(subs) /\ Len(subs) \in {0, 1}
      /\ task[h].ends >= CreditedMonths + MonthsOf(x)
  <2>1. Len(subs) \in Nat /\ Len(subs) <= 1
    BY <1>5 DEF OneRow, TypeOK
  <2> QED
    BY <1>1, <1>5, <2>1, NoneOrOne DEF WriteCovers
<1>7. CreditedMonths' = CreditedMonths + MonthsOf(x)
  BY <1>1, CreditedMonthsNow, CreditAdded DEF TypeOK
<1>8. Len(subs') = 1 /\ k = 1
  BY <1>2, <1>6
<1>9. DOMAIN subs' = {1}
  BY <1>8, NextType DEF TypeOK, Next, Serve
<1>10. subs'[1].ends = task[h].ends /\ task[h].ends # NoEnd
  BY <1>1, <1>2, <1>8, <1>9, BillingAssumption
<1>11. OneRow' /\ RowCovers'
  BY <1>6, <1>7, <1>8, <1>9, <1>10 DEF OneRow, RowCovers
<1>12. WriteCovers'
  BY <1>1, <1>5 DEF WriteCovers, Pending
<1>13. PaidIsOwed'
  <2> SUFFICES ASSUME NEW r \in Requests, request'[r] = "paid", credits'[r] = 0
               PROVE  \E g \in Handlers : Extending(g, r)'
    BY DEF PaidIsOwed
  <2>1. r # x /\ credits[r] = 0 /\ request[r] = "paid"
    BY <1>1 DEF TypeOK, Items, paid
  <2>2. PICK g \in Handlers : Extending(g, r)
    BY <1>5, <2>1 DEF PaidIsOwed
  <2>3. g # h
    BY <2>1, <2>2 DEF Extending
  <2> QED
    BY <1>1, <2>2, <2>3 DEF Extending
<1> QED
  BY <1>11, <1>12, <1>13

\* Calm, the one row there is never stands in the way of another.
LEMMA NeverRefused ==
    ASSUME TypeOK, CoverInv, Calm, NEW h \in Handlers, Pending(h)
    PROVE  OneLiveRow(Written(task[h]))
<1> DEFINE rows == Written(task[h])
<1>1. task[h].row = Len(subs) /\ Len(subs) \in {0, 1}
  <2>1. Len(subs) \in Nat /\ Len(subs) <= 1
    BY DEF CoverInv, OneRow, TypeOK
  <2> QED
    BY <2>1, NoneOrOne DEF CoverInv, WriteCovers
<1>2. subs \in Seq(Row)
  BY DEF TypeOK
<1>3. DOMAIN rows = {1}
  <2>1. CASE Len(subs) = 0
    <3>1. rows = Append(subs, [status |-> "ACTIVE", ends |-> task[h].ends])
      BY <1>1, <2>1 DEF Written
    <3> HIDE DEF rows
    <3> QED
      BY <1>2, <2>1, <3>1
  <2>2. CASE Len(subs) = 1
    <3>1. DOMAIN rows = DOMAIN subs
      BY <1>1, <2>2 DEF Written
    <3> HIDE DEF rows
    <3> QED
      BY <1>2, <2>2, <3>1
  <2> QED
    BY <1>1, <2>1, <2>2
<1> HIDE DEF rows
<1>4. \A i, j \in DOMAIN rows : i = j
  BY <1>3
<1>5. OneLiveRow(rows)
  BY <1>4 DEF OneLiveRow
<1> QED
  BY <1>5 DEF rows

\* The winner of MarkPaymentRequestPaid holds the right to the extension.
LEMMA CoverMarked ==
    ASSUME TypeOK, CreditInv, CoverInv, NEW h \in Handlers, MarkPaymentRequestPaid(h)
    PROVE  CoverInv'
<1> DEFINE r == task[h].item
<1>0. /\ r \in Requests /\ task[h].pc = "mark" /\ task[h] \in Task
      /\ UNCHANGED <<payment, subs, credits, overlap, budget>>
  BY DEF MarkPaymentRequestPaid, TypeOK
<1>1. CASE request[r] = "pending"
  <2>1. request' = [request EXCEPT ![r] = "paid"] /\ task' = [task EXCEPT ![h].pc = "read"]
    BY <1>1 DEF MarkPaymentRequestPaid, Goto
  <2>2. task'[h].pc = "read" /\ task'[h].item = r /\ \A g \in Handlers \ {h} : task'[g] = task[g]
    BY <1>0, <2>1 DEF TypeOK, Task
  <2>3. ReadsNamedRow'
    BY <1>0, <2>2, BillingAssumption DEF CoverInv, ReadsNamedRow
  <2> SUFFICES ASSUME Calm' PROVE OneRow' /\ RowCovers' /\ WriteCovers' /\ PaidIsOwed'
    BY <2>3 DEF CoverInv
  <2>4. OneRow /\ RowCovers /\ WriteCovers /\ PaidIsOwed
    BY <1>0 DEF Calm, Undisturbed, CoverInv
  <2>5. OneRow' /\ RowCovers' /\ WriteCovers'
    BY <1>0, <2>2, <2>4, CoverKept DEF Pending
  <2>6. PaidIsOwed'
    <3> SUFFICES ASSUME NEW q \in Requests, request'[q] = "paid", credits'[q] = 0
                 PROVE  \E g \in Handlers : Extending(g, q)'
      BY DEF PaidIsOwed
    <3>1. CASE q = r
      BY <2>2, <3>1 DEF Extending
    <3>2. CASE q # r
      <4>1. PICK g \in Handlers : Extending(g, q)
        BY <1>0, <2>1, <2>4, <3>2 DEF PaidIsOwed, TypeOK
      <4>2. g # h
        BY <1>0, <4>1 DEF Extending
      <4> QED
        BY <2>2, <4>1, <4>2 DEF Extending
    <3> QED
      BY <3>1, <3>2
  <2> QED
    BY <2>5, <2>6
<1>2. CASE request[r] # "pending"
  <2>1. request' = request /\ task' = [task EXCEPT ![h] = IdleTask]
    BY <1>2 DEF MarkPaymentRequestPaid, Finish
  <2>2. task'[h].pc = "idle" /\ \A g \in Handlers \ {h} : task'[g] = task[g]
    BY <2>1 DEF TypeOK, IdleTask
  <2>3. ReadsNamedRow'
    BY <1>0, <2>2, NamedKept DEF CoverInv
  <2> SUFFICES ASSUME Calm' PROVE OneRow' /\ RowCovers' /\ WriteCovers' /\ PaidIsOwed'
    BY <2>3 DEF CoverInv
  <2>4. OneRow /\ RowCovers /\ WriteCovers /\ PaidIsOwed
    BY <1>0 DEF Calm, Undisturbed, CoverInv
  <2>5. \A g \in Handlers, x \in Items : Extending(g, x) => Extending(g, x)'
    BY <1>0, <2>2 DEF Extending
  <2> QED
    BY <1>0, <2>1, <2>2, <2>4, <2>5, CoverKept, OwedKept DEF Pending
<1> QED
  BY <1>1, <1>2

\* An approval goes on to read only if its payment names a row.
LEMMA CoverApproved ==
    ASSUME TypeOK, CreditInv, CoverInv, NEW h \in Handlers, MarkPaymentApproved(h)
    PROVE  CoverInv'
<1> DEFINE p == task[h].item
<1>1. /\ p \in Payments /\ task[h].pc = "mark" /\ task[h] \in Task
      /\ UNCHANGED <<request, subs, credits, overlap, budget>>
  BY DEF MarkPaymentApproved, SetPayment, paid, TypeOK
<1>2. \A q \in Payments : payment'[q].row = payment[q].row
  <2>1. payment' = [payment EXCEPT ![p].status = "APPROVED"] \/ payment' = payment
    BY DEF MarkPaymentApproved, SetPayment, paid
  <2>2. payment \in [Payments -> [status : {"none", "PENDING", "APPROVED", "REJECTED"}, row : Nat]]
    BY DEF TypeOK
  <2> HIDE DEF p
  <2> QED
    BY <2>1, <2>2
<1>3. /\ \A g \in Handlers \ {h} : task'[g] = task[g]
      /\ task'[h].pc \in {"read", "find", "idle"}
      /\ task'[h].pc = "read" => task'[h].item = p /\ payment[p].row # 0
  <2>1. CASE Finish(h)
    BY <2>1 DEF Finish, TypeOK, IdleTask
  <2>2. CASE Goto(h, IF payment[p].row = 0 THEN "find" ELSE "read")
    BY <1>1, <2>2 DEF Goto, TypeOK, Task
  <2> QED
    BY <2>1, <2>2 DEF MarkPaymentApproved
<1>4. ReadsNamedRow'
  BY <1>2, <1>3 DEF CoverInv, ReadsNamedRow
<1> SUFFICES ASSUME Calm' PROVE OneRow' /\ RowCovers' /\ WriteCovers' /\ PaidIsOwed'
  BY <1>4 DEF CoverInv
<1>5. OneRow /\ RowCovers /\ WriteCovers /\ PaidIsOwed
  BY <1>1 DEF Calm, Undisturbed, CoverInv
<1>6. \A g \in Handlers, x \in Items : Extending(g, x) => Extending(g, x)'
  BY <1>1, <1>3 DEF Extending
<1> QED
  BY <1>1, <1>3, <1>5, <1>6, CoverKept, OwedKept DEF Pending
-----------------------------------------------------------------------------

(* The steps that neither read nor write the rows and hand out no token.       *)

CoverUntouched ==
    /\ UNCHANGED <<subs, credits>> /\ (Calm' => Calm)
    /\ \A r \in Requests : request'[r] = "paid" => request[r] = "paid"
    /\ \A h \in Handlers : task'[h].pc \in {"read", "write"} => task'[h] = task[h]
    /\ \A h \in Handlers : task[h].pc = "read" /\ task[h].item \in Payments =>
                             payment'[task[h].item] = payment[task[h].item]
    /\ Calm' => \A h \in Handlers, x \in Items : Extending(h, x) => Extending(h, x)'

LEMMA UntouchedCovers == CoverInv /\ CoverUntouched => CoverInv'
<1> SUFFICES ASSUME CoverInv, CoverUntouched PROVE CoverInv'
  OBVIOUS
<1>1. ReadsNamedRow'
  BY DEF CoverInv, CoverUntouched, ReadsNamedRow
<1> SUFFICES ASSUME Calm' PROVE OneRow' /\ RowCovers' /\ WriteCovers' /\ PaidIsOwed'
  BY <1>1 DEF CoverInv
<1>2. OneRow /\ RowCovers /\ WriteCovers /\ PaidIsOwed
  BY DEF CoverInv, CoverUntouched
<1>3. \A h \in Handlers : Pending(h)' => task'[h] = task[h]
  BY DEF CoverUntouched, Pending
<1>4. OneRow' /\ RowCovers' /\ WriteCovers'
  BY <1>2, <1>3, CoverKept DEF CoverUntouched
<1>5. PaidIsOwed'
  BY <1>2, OwedKept DEF CoverUntouched
<1> QED
  BY <1>4, <1>5

\* A handler that goes on without a token, or is never seen calm again.
LEMMA HandlerUntouched ==
    ASSUME TypeOK, UNCHANGED <<subs, credits, request, payment>>, Calm' => Calm,
           NEW h \in Handlers, \A g \in Handlers \ {h} : task'[g] = task[g],
           task'[h].pc \notin {"read", "write"},
           Calm' => task[h].pc \notin {"read", "write"}
    PROVE  CoverUntouched
<1>1. \A g \in Handlers : task'[g].pc \in {"read", "write"} => task'[g] = task[g]
  OBVIOUS
<1>2. Calm' => \A g \in Handlers, x \in Items : Extending(g, x) => Extending(g, x)'
  BY DEF Extending
<1> QED
  BY <1>1, <1>2 DEF CoverUntouched

LEMMA CaptureUntouched ==
    ASSUME TypeOK, Calm' => Calm, NEW h \in Handlers,
           \/ \E r \in Requests : PaymentCaptured(h, r)
           \/ \E p \in Payments : ApprovePayment(h, p)
           \/ CreatePaymentRecord(h) \/ MarkPaymentRequestCompleted(h)
           \/ FindOpenInvoice(h) \/ SettleInvoice(h)
    PROVE  CoverUntouched
<1>0. task \in [Handlers -> Task]
  BY DEF TypeOK
<1>1. CASE \/ \E r \in Requests : PaymentCaptured(h, r)
           \/ \E p \in Payments : ApprovePayment(h, p)
  <2>1. /\ task[h].pc = "idle" /\ task'[h].pc = "mark" /\ \A g \in Handlers \ {h} : task'[g] = task[g]
        /\ UNCHANGED <<subs, credits, request, payment>>
    BY <1>0, <1>1 DEF PaymentCaptured, ApprovePayment, IdleTask, paid
  <2> QED
    BY <2>1, HandlerUntouched
<1>2. CASE CreatePaymentRecord(h)
  <2>1. /\ task[h].pc = "record" /\ task'[h].pc = "complete"
        /\ \A g \in Handlers \ {h} : task'[g] = task[g]
        /\ UNCHANGED <<subs, credits, request, payment>>
    BY <1>0, <1>2 DEF CreatePaymentRecord, Goto, Task
  <2> QED
    BY <2>1, HandlerUntouched
<1>3. CASE MarkPaymentRequestCompleted(h)
  <2>1. /\ task[h].pc = "complete" /\ task'[h].pc = "idle"
        /\ \A g \in Handlers \ {h} : task'[g] = task[g]
        /\ UNCHANGED <<subs, credits, request, payment>>
    BY <1>0, <1>3 DEF MarkPaymentRequestCompleted, Finish, IdleTask
  <2> QED
    BY <2>1, HandlerUntouched
<1>4. CASE FindOpenInvoice(h)
  <2>1. /\ task[h].pc = "find" /\ task'[h].pc \in {"idle", "settle"}
        /\ \A g \in Handlers \ {h} : task'[g] = task[g]
    <3>1. CASE Finish(h)
      BY <1>0, <1>4, <3>1 DEF FindOpenInvoice, Finish, IdleTask
    <3>2. CASE \E i \in Invoices :
                 task' = [task EXCEPT ![h] = [task[h] EXCEPT !.pc = "settle", !.invoice = {i}]]
      BY <1>0, <1>4, <3>2 DEF FindOpenInvoice, Task
    <3> QED
      BY <1>4, <3>1, <3>2 DEF FindOpenInvoice
  <2>2. UNCHANGED <<subs, credits, request, payment>>
    BY <1>4 DEF FindOpenInvoice, paid
  <2> QED
    BY <2>1, <2>2, HandlerUntouched
<1>5. CASE SettleInvoice(h)
  <2>1. /\ task[h].pc = "settle" /\ task'[h].pc = "idle"
        /\ \A g \in Handlers \ {h} : task'[g] = task[g]
    BY <1>0, <1>5 DEF SettleInvoice, Finish, IdleTask
  <2>2. UNCHANGED <<subs, credits, request, payment>>
    BY <1>5 DEF SettleInvoice, SetInvoice, paid
  <2> QED
    BY <2>1, <2>2, HandlerUntouched
<1> QED
  BY <1>1, <1>2, <1>3, <1>4, <1>5

\* A handler that is stopped, or whose write is refused or lost.
LEMMA FailureUntouched ==
    ASSUME TypeOK, CoverInv, [Next]_vars, Calm' => Calm, NEW h \in Handlers,
           WriteRefused(h) \/ HandlerStops(h) \/ ErrorDropped(h)
    PROVE  CoverUntouched
<1>0. task \in [Handlers -> Task]
  BY DEF TypeOK
<1>1. /\ Finish(h) \/ (\E pc \in {"find", "complete"} : Goto(h, pc))
      /\ UNCHANGED <<paid, subs, credits>>
  BY DEF WriteRefused, HandlerStops, ErrorDropped
<1>2. task'[h].pc \notin {"read", "write"} /\ \A g \in Handlers \ {h} : task'[g] = task[g]
  BY <1>0, <1>1 DEF Finish, Goto, IdleTask, Task
<1>3. ~Calm'
  <2>1. Calm' => ~HandlerStops(h) /\ ~ErrorDropped(h)
    BY StaysCalm
  <2>2. Calm => ~WriteRefused(h)
    BY NeverRefused DEF WriteRefused, Pending
  <2> QED
    BY <2>1, <2>2
<1> QED
  BY <1>1, <1>2, <1>3, HandlerUntouched DEF paid

\* Requests, payments and invoices that come and go: a payment whose approval reads
\* a row is approved, and is not made or rejected any more.
LEMMA OthersCover ==
    ASSUME TypeOK, CreditInv, CoverInv, Calm' => Calm,
           \/ \E r \in Requests : CreatePaymentRequest(r)
           \/ \E p \in Payments : RejectPayment(p)
           \/ \E p \in Payments, row \in 0..Len(subs) : CreatePayment(p, row)
           \/ \E i \in Invoices : AdminInvoice(i)
           \/ MonthPasses \/ UNCHANGED vars
    PROVE  CoverUntouched
<1>1. UNCHANGED <<subs, credits, task>>
  BY DEF CreatePaymentRequest, RejectPayment, CreatePayment, AdminInvoice, MonthPasses, vars
<1>2. \A r \in Requests : request'[r] = "paid" => request[r] = "paid"
  <2>1. CASE \E r \in Requests : CreatePaymentRequest(r)
    BY <2>1 DEF CreatePaymentRequest, TypeOK
  <2>2. CASE request' = request
    BY <2>2
  <2> QED
    BY <2>1, <2>2 DEF RejectPayment, CreatePayment, AdminInvoice, SetPayment, SetInvoice,
                      MonthPasses, paid, vars
<1>3. \A h \in Handlers : task[h].pc = "read" /\ task[h].item \in Payments =>
        payment'[task[h].item] = payment[task[h].item]
  <2> SUFFICES ASSUME NEW h \in Handlers, task[h].pc = "read", task[h].item \in Payments
               PROVE  payment'[task[h].item] = payment[task[h].item]
    OBVIOUS
  <2>1. payment[task[h].item].status = "APPROVED"
    <3>1. Extending(h, task[h].item) /\ task[h].item \in Items
      BY DEF Extending, Items
    <3> QED
      BY <3>1, BillingAssumption DEF CreditInv, Settled
  <2>2. CASE \E p \in Payments : RejectPayment(p)
    BY <2>1, <2>2 DEF RejectPayment, SetPayment, TypeOK
  <2>3. CASE \E p \in Payments, row \in 0..Len(subs) : CreatePayment(p, row)
    BY <2>1, <2>3 DEF CreatePayment, TypeOK
  <2>4. CASE payment' = payment
    BY <2>4
  <2> QED
    BY <2>2, <2>3, <2>4 DEF CreatePaymentRequest, AdminInvoice, SetInvoice, MonthPasses, paid, vars
<1>4. \A h \in Handlers, x \in Items : Extending(h, x) => Extending(h, x)'
  BY <1>1 DEF Extending
<1> QED
  BY <1>1, <1>2, <1>3, <1>4 DEF CoverUntouched

\* An edit leaves the payments and the handlers alone, and nothing is calm after it.
LEMMA EditCover ==
    ASSUME CoverInv, AdminEdits, ~Calm'
    PROVE  CoverInv'
<1>1. PICK rows : Edit(rows)
  BY DEF AdminEdits, CreateSubscription, PatchSubscriptionStatus, ExtendSubscription
<1>2. UNCHANGED <<task, payment>>
  BY <1>1 DEF Edit, paid
<1> QED
  BY <1>2 DEF CoverInv, ReadsNamedRow

LEMMA NextCover ==
    TypeOK /\ CreditInv /\ PendingInv /\ CoverInv /\ [Next]_vars => CoverInv'
<1> SUFFICES ASSUME TypeOK, CreditInv, PendingInv, CoverInv, [Next]_vars PROVE CoverInv'
  OBVIOUS
<1>1. Calm' => Calm
  BY StaysCalm
<1>2. ASSUME NEW h \in Handlers, Serve(h) \/ HandlerStops(h) \/ ErrorDropped(h)
      PROVE  CoverInv'
  <2>1. CASE \/ ReadSubscription(h) \/ WriteSubscription(h)
             \/ MarkPaymentRequestPaid(h) \/ MarkPaymentApproved(h)
    BY <2>1, CoverRead, CoverWrite, CoverMarked, CoverApproved
  <2>2. CASE \/ \E r \in Requests : PaymentCaptured(h, r)
             \/ \E p \in Payments : ApprovePayment(h, p)
             \/ CreatePaymentRecord(h) \/ MarkPaymentRequestCompleted(h)
             \/ FindOpenInvoice(h) \/ SettleInvoice(h)
    <3>1. CoverUntouched
      BY <1>1, <2>2, CaptureUntouched
    <3> QED
      BY <3>1, UntouchedCovers
  <2>3. CASE WriteRefused(h) \/ HandlerStops(h) \/ ErrorDropped(h)
    BY <1>1, <2>3, FailureUntouched, UntouchedCovers
  <2> QED
    BY <1>2, <2>1, <2>2, <2>3 DEF Serve
<1>3. CASE AdminEdits
  BY <1>3, StaysCalm, EditCover
<1>4. CASE \/ \E r \in Requests : CreatePaymentRequest(r)
           \/ \E p \in Payments : RejectPayment(p)
           \/ \E p \in Payments, row \in 0..Len(subs) : CreatePayment(p, row)
           \/ \E i \in Invoices : AdminInvoice(i)
           \/ MonthPasses \/ UNCHANGED vars
  <2>1. CoverUntouched
    BY <1>1, <1>4, OthersCover
  <2> QED
    BY <2>1, UntouchedCovers
<1> QED
  BY <1>2, <1>3, <1>4 DEF Next

\* Whoever has paid, and has no handler left, has a row that lasts as long as the
\* months credited, unless a handler stopped half way, an admin edited the rows, or
\* two extensions were read at once.
THEOREM PaidIsCovered == Spec => []CoveredUnlessDisturbed
<1>1. TypeOK /\ CreditInv /\ CoverInv => CoveredUnlessDisturbed
  <2> SUFFICES ASSUME TypeOK, CreditInv, CoverInv, Calm, NEW r \in Requests,
                      request[r] = "paid", ~InFlight(r)
               PROVE  /\ credits[r] = 1
                      /\ \E i \in DOMAIN subs :
                           subs[i].ends = NoEnd \/ subs[i].ends >= CreditedMonths
    BY DEF CoveredUnlessDisturbed, CapturedIsCovered, Calm, Undisturbed
  <2>1. OneRow /\ RowCovers /\ PaidIsOwed
    BY DEF CoverInv
  <2>2. credits[r] # 0
    BY <2>1 DEF PaidIsOwed, InFlight, Extending
  <2>3. credits[r] \in Nat /\ credits[r] <= 1
    BY DEF TypeOK, CreditInv, Items
  <2>4. Len(subs) # 0 /\ Len(subs) \in Nat
    BY <2>1, <2>2 DEF OneRow, Items, TypeOK
  <2>5. 1 \in DOMAIN subs
    BY <2>4 DEF TypeOK
  <2> QED
    BY <2>1, <2>2, <2>3, <2>5 DEF RowCovers
<1> QED
  BY <1>1, CoverInit, NextCover, BillingTypeCorrect, CreditInvariant, PendingInvariant, PTL DEF Spec

-----------------------------------------------------------------------------

(* Billing implements the ledger.  The write of an extension is the grant of   *)
(* its item: CreditInv says that it is settled and not yet granted, ExactInv   *)
(* that the end computed at the read still is the end of the row with the      *)
(* months added, unless something disturbed it.                                *)

\* The end a handler is about to write is that of its row with the months added, to
\* what is left of it or to the present.
Exact(t) ==
    LET ended == t.row # 0 /\ subs[t.row].ends # NoEnd
        base  == IF ended /\ subs[t.row].ends > now THEN subs[t.row].ends ELSE now
    IN /\ ended => t.ends >= subs[t.row].ends + MonthsOf(t.item)
       /\ t.ends <= base + MonthsOf(t.item)
       /\ t.ends >= MonthsOf(t.item)

ExactInv == Undisturbed => \A h \in Handlers : Pending(h) => Exact(task[h])

LEMMA ExactInit == Init => ExactInv
BY DEF Init, ExactInv, Pending, IdleTask

\* While the rows stay, what is exact stays so, and time may pass.
LEMMA StillExact ==
    ASSUME TypeOK, TypeOK', NEW h \in Handlers, Pending(h), Exact(task[h]),
           task'[h] = task[h], subs' = subs, now' >= now
    PROVE  Exact(task[h])'
<1> DEFINE t == task[h]
           m == MonthsOf(t.item)
<1>1. /\ t.row \in Nat /\ t.row <= Len(subs) /\ t.ends \in Nat /\ t.item \in Items
      /\ now \in Nat /\ now' \in Nat
  BY DEF TypeOK, Task, Pending, WellPlaced
<1>2. m \in Nat
  BY <1>1, MonthsOfType
<1>3. t.row # 0 /\ subs[t.row].ends # NoEnd => subs[t.row].ends \in Nat
  <2>1. t.row # 0 => t.row \in DOMAIN subs
    BY <1>1 DEF TypeOK
  <2> QED
    BY <2>1, EndsType
<1>4. MonthsOf(task[h].item)' = m
  BY DEF MonthsOf
<1> QED
  BY <1>1, <1>2, <1>3, <1>4 DEF Exact

LEMMA ReadExact ==
    ASSUME TypeOK, TypeOK', ExactInv, NEW h \in Handlers, ReadSubscription(h)
    PROVE  ExactInv'
<1> DEFINE x == task[h].item
<1>1. /\ x \in Items /\ task'[h].item = x /\ UNCHANGED <<subs, now, budget>>
      /\ overlap' = (overlap \/ \E g \in Handlers \ {h} : Pending(g))
      /\ \A g \in Handlers \ {h} : task'[g] = task[g]
  BY ReadEffect
<1>2. PICK row \in 0..Len(subs), e \in Nat \cup {NoEnd} :
        /\ e = IF row = 0 THEN NoEnd ELSE subs[row].ends
        /\ task'[h].row = row /\ task'[h].ends = Extended(e, MonthsOf(x))
  BY ReadEffect
<1>3. MonthsOf(x) \in Nat /\ now \in Nat /\ NoEnd \notin Nat /\ Len(subs) \in Nat
  BY <1>1, MonthsOfType, BillingAssumption DEF TypeOK
<1>4. Exact(task[h])'
  <2>1. MonthsOf(task[h].item)' = MonthsOf(x)
    BY <1>1 DEF MonthsOf
  <2>2. CASE e = NoEnd
    BY <1>1, <1>2, <1>3, <2>1, <2>2 DEF Exact, Extended
  <2>3. CASE e # NoEnd
    BY <1>1, <1>2, <1>3, <2>1, <2>3 DEF Exact, Extended
  <2> QED
    BY <2>2, <2>3
<1>5. Undisturbed' => \A g \in Handlers : Pending(g)' => g = h
  BY <1>1 DEF Undisturbed, Pending
<1> QED
  BY <1>4, <1>5 DEF ExactInv

\* After a write that nothing overlapped no other is pending.
LEMMA WriteExact ==
    ASSUME TypeOK, PendingInv, NEW h \in Handlers, WriteSubscription(h)
    PROVE  ExactInv'
<1>1. /\ Pending(h) /\ ~Pending(h)' /\ UNCHANGED <<overlap, budget>>
      /\ \A g \in Handlers \ {h} : task'[g] = task[g]
  BY WriteEffect
<1>2. Undisturbed' => \A g \in Handlers : ~Pending(g)'
  BY <1>1 DEF PendingInv, Undisturbed, Pending
<1> QED
  BY <1>2 DEF ExactInv

LEMMA NextExact ==
    TypeOK /\ TypeOK' /\ PendingInv /\ ExactInv /\ [Next]_vars => ExactInv'
<1> SUFFICES ASSUME TypeOK, TypeOK', PendingInv, ExactInv, [Next]_vars PROVE ExactInv'
  OBVIOUS
<1>1. ASSUME NEW h \in Handlers, ReadSubscription(h) \/ WriteSubscription(h)
      PROVE  ExactInv'
  BY <1>1, ReadExact, WriteExact
<1>2. ASSUME UNCHANGED <<subs, overlap>>, budget'.edits = budget.edits, now' >= now,
             \A h \in Handlers : Pending(h)' => task'[h] = task[h]
      PROVE  ExactInv'
  <2> SUFFICES ASSUME Undisturbed', NEW h \in Handlers, Pending(h)' PROVE Exact(task[h])'
    BY DEF ExactInv
  <2>1. task'[h] = task[h] /\ Pending(h) /\ Undisturbed
    BY <1>2 DEF Pending, Undisturbed
  <2>2. Exact(task[h])
    BY <2>1 DEF ExactInv
  <2> QED
    BY <1>2, <2>1, <2>2, StillExact
<1>3. CASE Quiet
  <2>1. now' >= now
    BY <1>3 DEF Quiet, TypeOK
  <2> QED
    BY <1>2, <1>3, <2>1 DEF Quiet
<1>4. CASE AdminEdits
  <2>1. PICK rows : Edit(rows)
    BY <1>4 DEF AdminEdits, CreateSubscription, PatchSubscriptionStatus, ExtendSubscription
  <2>2. budget'.edits # 0
    BY <2>1 DEF Edit, TypeOK
  <2> QED
    BY <2>2 DEF ExactInv, Undisturbed
<1>5. CASE \/ \E r \in Requests : CreatePaymentRequest(r)
           \/ \E p \in Payments : RejectPayment(p)
           \/ \E p \in Payments, row \in 0..Len(subs) : CreatePayment(p, row)
           \/ \E i \in Invoices : AdminInvoice(i)
           \/ MonthPasses \/ UNCHANGED vars
  <2>1. /\ UNCHANGED <<subs, overlap, task>> /\ now' >= now /\ budget'.edits = budget.edits
        /\ \A h \in Handlers : task'[h] = task[h]
    BY <1>5 DEF CreatePaymentRequest, RejectPayment, CreatePayment, AdminInvoice, MonthPasses,
                vars, TypeOK
  <2> QED
    BY <1>2, <2>1
<1> QED
  BY <1>1, <1>3, <1>4, <1>5, HandlersQuiet DEF Next, Serve

LEMMA ExactInvariant == Spec => []ExactInv
<1>1. TypeOK /\ PendingInv /\ ExactInv /\ [Next]_vars => ExactInv'
  BY NextType, NextExact
<1> QED
  BY <1>1, ExactInit, BillingTypeCorrect, PendingInvariant, PTL DEF Spec

\* The statuses of the items in their tables.
Status == [x \in Items |-> IF x \in Requests THEN request[x] ELSE payment[x].status]

LEMMA StandingIs ==
    ASSUME NEW x \in Items
    PROVE  /\ credits[x] > 0 => Standing[x] = "granted"
           /\ ~(credits[x] > 0) =>
                /\ Status[x] = "none" => Standing[x] = "new"
                /\ Status[x] \in {"pending", "PENDING"} => Standing[x] = "open"
                /\ Status[x] = "REJECTED" => Standing[x] = "refused"
                /\ Status[x] \in {"paid", "APPROVED"} => Standing[x] = "settled"
<1> DEFINE Known(status) == CASE status = "none"                 -> "new"
                              [] status \in {"pending", "PENDING"} -> "open"
                              [] status = "REJECTED"             -> "refused"
                              [] OTHER                           -> "settled"
<1>1. Standing[x] = IF credits[x] > 0 THEN "granted" ELSE Known(Status[x])
  BY DEF Standing, Status
<1>2. /\ Known("none") = "new" /\ Known("pending") = "open" /\ Known("PENDING") = "open"
      /\ Known("REJECTED") = "refused"
      /\ Known("paid") = "settled" /\ Known("APPROVED") = "settled"
  OBVIOUS
<1> HIDE DEF Known
<1> QED
  BY <1>1, <1>2

\* What leaves the tables and the credits alone leaves the standing of every item.
LEMMA StandingKept ==
    UNCHANGED credits /\ (\A x \in Items : Status'[x] = Status[x]) => Standing' = Standing
BY DEF Standing, Status

\* A step that moves one item.
LEMMA OneStands ==
    ASSUME NEW x \in Items, NEW from, NEW to, Standing[x] = from, Standing'[x] = to,
           \A y \in Items : y # x => Status'[y] = Status[y] /\ credits'[y] = credits[y]
    PROVE  Ledger!Stands(x, from, to)
<1>1. \A y \in Items : y # x => Standing'[y] = Standing[y]
  BY DEF Standing, Status
<1>2. Standing' = [y \in Items |-> Standing'[y]] /\ Standing = [y \in Items |-> Standing[y]]
  BY DEF Standing
<1>3. Standing' = [Standing EXCEPT ![x] = to]
  BY <1>1, <1>2
<1> QED
  BY <1>3 DEF Ledger!Stands

\* What is not settled is not credited.
LEMMA Uncredited ==
    ASSUME TypeOK, CreditInv, NEW x \in Items, ~Settled(x)
    PROVE  credits[x] = 0
BY DEF TypeOK, CreditInv

\* Of the variables of the ledger, those beside the standing of items.
Beside == <<completed, recorded, invoice, subs, now, overlap>>

LEMMA BesideKept ==
    ASSUME UNCHANGED Beside, budget'.edits = budget.edits
    PROVE  /\ UNCHANGED <<invoice, subs, now>> /\ (completed \cup recorded)' = completed \cup recorded
           /\ Undisturbed' = Undisturbed
BY DEF Beside, Undisturbed

\* A request or a payment is made, settled or refused by one UPDATE or INSERT.
LEMMA ItemMoves ==
    ASSUME TypeOK, TypeOK', CreditInv, NEW x \in Items, ~Settled(x), UNCHANGED credits,
           \A y \in Items : y # x => Status'[y] = Status[y],
           \/ Status[x] = "none" /\ Status'[x] \in {"pending", "PENDING"}
           \/ /\ Status[x] \in {"pending", "PENDING"}
              /\ Status'[x] \in {"paid", "APPROVED"} \/ (x \in Payments /\ Status'[x] = "REJECTED"),
           UNCHANGED Beside, budget'.edits = budget.edits
    PROVE  Ledger!Next
<1>1. ~(credits[x] > 0) /\ ~(credits'[x] > 0)
  BY Uncredited
<1>2. /\ Status'[x] \in {"pending", "PENDING"} => Standing'[x] = "open"
      /\ Status'[x] = "REJECTED" => Standing'[x] = "refused"
      /\ Status'[x] \in {"paid", "APPROVED"} => Standing'[x] = "settled"
  <2> DEFINE Known(status) == CASE status = "none"                 -> "new"
                                [] status \in {"pending", "PENDING"} -> "open"
                                [] status = "REJECTED"             -> "refused"
                                [] OTHER                           -> "settled"
  <2>1. Standing'[x] = IF credits'[x] > 0 THEN "granted" ELSE Known(Status'[x])
    BY DEF Standing, Status
  <2>2. /\ Known("pending") = "open" /\ Known("PENDING") = "open" /\ Known("REJECTED") = "refused"
        /\ Known("paid") = "settled" /\ Known("APPROVED") = "settled"
    OBVIOUS
  <2> HIDE DEF Known
  <2> QED
    BY <1>1, <2>1, <2>2
<1>3. /\ Status[x] = "none" => Standing[x] = "new"
      /\ Status[x] \in {"pending", "PENDING"} => Standing[x] = "open"
  BY <1>1, StandingIs
<1>4. CASE Status[x] = "none" /\ Status'[x] \in {"pending", "PENDING"}
  <2>1. Ledger!Stands(x, "new", "open")
    BY <1>2, <1>3, <1>4, OneStands
  <2>2. Ledger!Open(x)
    BY <2>1, BesideKept DEF Ledger!Open
  <2> QED
    BY <2>2 DEF Ledger!Next, Ledger!Items, Items
<1>5. CASE Status[x] \in {"pending", "PENDING"} /\ Status'[x] \in {"paid", "APPROVED"}
  <2>1. Ledger!Stands(x, "open", "settled")
    BY <1>2, <1>3, <1>5, OneStands
  <2>2. Ledger!Settle(x)
    BY <2>1, BesideKept DEF Ledger!Settle
  <2> QED
    BY <2>2 DEF Ledger!Next, Ledger!Items, Items
<1>6. CASE Status[x] \in {"pending", "PENDING"} /\ x \in Payments /\ Status'[x] = "REJECTED"
  <2>1. Ledger!Stands(x, "open", "refused")
    BY <1>2, <1>3, <1>6, OneStands
  <2>2. Ledger!Refuse(x)
    BY <2>1, BesideKept DEF Ledger!Refuse
  <2> QED
    BY <1>6, <2>2 DEF Ledger!Next
<1> QED
  BY <1>4, <1>5, <1>6

\* The steps that leave the ledger as it is.
LEMMA LedgerKept ==
    ASSUME UNCHANGED <<request, payment, credits>>, UNCHANGED Beside, budget'.edits = budget.edits
    PROVE  UNCHANGED Ledger!vars
<1>1. Standing' = Standing
  BY StandingKept DEF Status
<1> QED
  BY <1>1, BesideKept DEF Ledger!vars

\* One status of a request or of a payment is written.
LEMMA RequestWritten ==
    ASSUME TypeOK, TypeOK', CreditInv, NEW r \in Requests, NEW status,
           request' = [request EXCEPT ![r] = status],
           \/ request[r] = "none" /\ status = "pending"
           \/ request[r] = "pending" /\ status = "paid",
           UNCHANGED <<payment, credits>>, UNCHANGED Beside, budget'.edits = budget.edits
    PROVE  Ledger!Next
<1>1. r \in Items /\ Status[r] = request[r] /\ Status'[r] = status
  BY DEF Status, Items, TypeOK
<1>2. \A y \in Items : y # r => Status'[y] = Status[y]
  BY DEF Status, TypeOK
<1>3. ~Settled(r)
  BY DEF Settled
<1>4. \/ Status[r] = "none" /\ Status'[r] \in {"pending", "PENDING"}
      \/ /\ Status[r] \in {"pending", "PENDING"}
         /\ Status'[r] \in {"paid", "APPROVED"} \/ (r \in Payments /\ Status'[r] = "REJECTED")
  BY <1>1
<1>5. UNCHANGED credits
  OBVIOUS
<1> QED
  BY ONLY TypeOK, TypeOK', CreditInv, UNCHANGED Beside, budget'.edits = budget.edits,
     <1>1, <1>2, <1>3, <1>4, <1>5, ItemMoves

LEMMA PaymentWritten ==
    ASSUME TypeOK, TypeOK', CreditInv, NEW p \in Payments,
           \A q \in Payments : q # p => payment'[q] = payment[q],
           \/ payment[p].status = "none" /\ payment'[p].status = "PENDING"
           \/ payment[p].status = "PENDING" /\ payment'[p].status \in {"APPROVED", "REJECTED"},
           UNCHANGED <<request, credits>>, UNCHANGED Beside, budget'.edits = budget.edits
    PROVE  Ledger!Next
<1>0. p \notin Requests
  BY BillingAssumption
<1>1. p \in Items /\ Status[p] = payment[p].status /\ Status'[p] = payment'[p].status
  BY <1>0 DEF Status, Items
<1>2. \A y \in Items : y # p => Status'[y] = Status[y]
  BY DEF Status, Items
<1>3. ~Settled(p)
  BY <1>0 DEF Settled
<1>4. \/ Status[p] = "none" /\ Status'[p] \in {"pending", "PENDING"}
      \/ /\ Status[p] \in {"pending", "PENDING"}
         /\ Status'[p] \in {"paid", "APPROVED"} \/ (p \in Payments /\ Status'[p] = "REJECTED")
  BY <1>1
<1>5. UNCHANGED credits
  OBVIOUS
<1> QED
  BY ONLY TypeOK, TypeOK', CreditInv, UNCHANGED Beside, budget'.edits = budget.edits,
     <1>1, <1>2, <1>3, <1>4, <1>5, ItemMoves

\* One status of an invoice is written.
LEMMA InvoiceWritten ==
    ASSUME TypeOK, NEW i \in Invoices, NEW status, SetInvoice(i, status),
           \/ invoice[i] = "none" /\ status = "OPEN"
           \/ invoice[i] = "OPEN" /\ status \in {"PAID", "VOID"},
           UNCHANGED <<subs, now, credits, overlap>>, budget'.edits = budget.edits
    PROVE  Ledger!Next
<1>1. invoice' = [invoice EXCEPT ![i] = status] /\ UNCHANGED <<request, payment, completed, recorded>>
  BY DEF SetInvoice
<1>2. Standing' = Standing
  BY <1>1, StandingKept DEF Status
<1>3. Undisturbed' = Undisturbed
  BY DEF Undisturbed
<1>4. CASE invoice[i] = "none" /\ status = "OPEN"
  <2>1. Ledger!Bill(i)
    BY <1>1, <1>2, <1>3, <1>4 DEF Ledger!Bill
  <2> QED
    BY <2>1 DEF Ledger!Next
<1>5. CASE invoice[i] = "OPEN" /\ status \in {"PAID", "VOID"}
  <2>1. Ledger!Close(i)
    BY <1>1, <1>2, <1>3, <1>5 DEF Ledger!Close
  <2> QED
    BY <2>1 DEF Ledger!Next
<1> QED
  BY <1>4, <1>5

\* Who records or completes a request has written its extension.
LEMMA RequestShown ==
    ASSUME TypeOK, CreditInv, NEW h \in Handlers,
           CreatePaymentRecord(h) \/ MarkPaymentRequestCompleted(h)
    PROVE  Ledger!Next
<1> DEFINE r == task[h].item
<1>1. r \in Requests /\ r \in Items /\ credits[r] = 1
  BY DEF CreatePaymentRecord, MarkPaymentRequestCompleted, TypeOK, WellPlaced, CreditInv, Items
<1>2. UNCHANGED <<request, payment, invoice, subs, now, credits, overlap, budget>>
  BY DEF CreatePaymentRecord, MarkPaymentRequestCompleted
<1>3. (completed \cup recorded)' = (completed \cup recorded) \cup {r}
  BY DEF CreatePaymentRecord, MarkPaymentRequestCompleted
<1>4. Standing[r] = "granted"
  BY <1>1, StandingIs
<1>5. Standing' = Standing /\ Undisturbed' = Undisturbed
  BY <1>2, StandingKept DEF Status, Undisturbed
<1> HIDE DEF r
<1>6. Ledger!Show(r)
  BY <1>2, <1>3, <1>4, <1>5 DEF Ledger!Show
<1> QED
  BY <1>1, <1>6 DEF Ledger!Next

\* A write changes one row, the handler's own or a new one.
LEMMA RowWritten ==
    ASSUME TypeOK, NEW h \in Handlers, WriteSubscription(h)
    PROVE  LET n == task[h].row
               i == IF n = 0 THEN Len(subs) + 1 ELSE n
           IN /\ i \in 1..(Len(subs) + 1) /\ Ledger!OneRowWritten(i)
              /\ subs'[i].ends = task[h].ends
              /\ i \in DOMAIN subs => i = n /\ n # 0
<1> DEFINE t == task[h]
           n == t.row
<1>1. /\ n \in Nat /\ n <= Len(subs) /\ subs \in Seq(Row) /\ Len(subs) \in Nat
      /\ DOMAIN subs = 1..Len(subs) /\ subs' = Written(t)
  BY DEF TypeOK, Task, WriteSubscription
<1>2. CASE n = 0
  <2> DEFINE r == [status |-> "ACTIVE", ends |-> t.ends]
  <2>1. subs' = Append(subs, r) /\ r.ends = t.ends
    BY <1>1, <1>2 DEF Written
  <2> HIDE DEF r
  <2>2. /\ Len(subs') = Len(subs) + 1 /\ subs'[Len(subs) + 1] = r
        /\ \A j \in 1..Len(subs) : subs'[j] = subs[j]
    BY <1>1, <2>1
  <2>3. Ledger!OneRowWritten(Len(subs) + 1)
    BY <1>1, <2>2 DEF Ledger!OneRowWritten
  <2> QED
    BY <1>1, <1>2, <2>1, <2>2, <2>3
<1>3. CASE n # 0
  <2> DEFINE r == [status |-> IF t.activate THEN "ACTIVE" ELSE subs[t.row].status,
                   ends |-> t.ends]
  <2>1. subs' = [subs EXCEPT ![n] = r] /\ r.ends = t.ends
    BY <1>1, <1>3 DEF Written
  <2> HIDE DEF r
  <2>2. /\ Len(subs') = Len(subs) /\ n \in DOMAIN subs /\ subs'[n] = r
        /\ \A j \in DOMAIN subs : j # n => subs'[j] = subs[j]
    BY <1>1, <1>3, <2>1
  <2>3. Ledger!OneRowWritten(n)
    BY <2>2 DEF Ledger!OneRowWritten
  <2> QED
    BY <1>1, <1>3, <2>1, <2>2, <2>3
<1> QED
  BY <1>2, <1>3

\* The write of an extension is the grant: its item was settled and not granted yet.
LEMMA ExtensionGranted ==
    ASSUME TypeOK, TypeOK', CreditInv, ExactInv, NEW h \in Handlers, WriteSubscription(h)
    PROVE  Ledger!Next
<1> DEFINE t == task[h]
           x == t.item
           n == t.row
           i == IF n = 0 THEN Len(subs) + 1 ELSE n
<1>1. /\ x \in Items /\ Pending(h) /\ t.ends \in Nat /\ UNCHANGED <<paid, now, overlap, budget>>
      /\ credits' = [credits EXCEPT ![x] = @ + 1]
  BY WriteEffect
<1>2. credits[x] = 0 /\ Settled(x)
  BY <1>1 DEF CreditInv, Extending, Pending
<1>3. credits'[x] > 0 /\ \A y \in Items : y # x => credits'[y] = credits[y]
  BY <1>1, <1>2 DEF TypeOK
<1>4. Standing[x] = "settled"
  <2>1. Status[x] \in {"paid", "APPROVED"}
    BY <1>1, <1>2 DEF Settled, Status
  <2> QED
    BY <1>1, <1>2, <2>1, StandingIs
<1>5. Standing'[x] = "granted"
  BY <1>1, <1>3 DEF Standing
<1>6. \A y \in Items : Status'[y] = Status[y]
  BY <1>1 DEF Status, paid
<1>7. Ledger!Stands(x, "settled", "granted")
  BY <1>1, <1>3, <1>4, <1>5, <1>6, OneStands
<1>8. /\ i \in 1..(Len(subs) + 1) /\ Ledger!OneRowWritten(i) /\ subs'[i].ends = t.ends
      /\ i \in DOMAIN subs => i = n /\ n # 0
  BY RowWritten
<1>9. subs'[i].ends # NoEnd
  BY <1>1, <1>8, BillingAssumption
<1>10. Undisturbed => Ledger!Extends(i, MonthsBought[x])
  <2> SUFFICES ASSUME Undisturbed PROVE Ledger!Extends(i, MonthsBought[x])
    OBVIOUS
  <2>1. Exact(t)
    BY <1>1 DEF ExactInv
  <2>2. MonthsBought[x] = MonthsOf(x)
    BY <1>1 DEF MonthsBought
  <2>3. n # 0 => i = n /\ i \in DOMAIN subs
    BY DEF TypeOK, Task
  <2>4. i \in DOMAIN subs <=> n # 0
    BY <1>8, <2>3
  <2>5. CASE n = 0
    BY <1>8, <2>1, <2>2, <2>4, <2>5 DEF Exact, Ledger!Extends
  <2>6. CASE n # 0
    <3>1. i = n
      BY <2>6
    <3> HIDE DEF i, n, x, t
    <3> QED
      BY <1>8, <2>1, <2>2, <2>4, <2>6, <3>1 DEF Exact, Ledger!Extends, n, x
  <2> QED
    BY <2>5, <2>6
<1>11. Undisturbed' = Undisturbed /\ (completed \cup recorded)' = completed \cup recorded
       /\ UNCHANGED <<invoice, now>>
  BY <1>1 DEF Undisturbed, paid
<1> HIDE DEF t, x, n, i
<1>12. Ledger!Grant(x)
  BY <1>7, <1>8, <1>9, <1>10, <1>11 DEF Ledger!Grant
<1> QED
  BY <1>1, <1>12 DEF Ledger!Next, Ledger!Items, Items

\* An edit by an administrator.
LEMMA EditAmends ==
    ASSUME TypeOK, TypeOK', AdminEdits
    PROVE  Ledger!Next
<1>1. PICK rows : Edit(rows)
  BY DEF AdminEdits, CreateSubscription, PatchSubscriptionStatus, ExtendSubscription
<1>2. /\ UNCHANGED <<paid, now, credits, overlap>> /\ budget'.edits = budget.edits + 1
      /\ budget.edits \in Nat
  BY <1>1 DEF Edit, TypeOK
<1>3. Undisturbed' = FALSE
  BY <1>2 DEF Undisturbed
<1>4. Standing' = Standing
  BY <1>2, StandingKept DEF Status, paid
<1>5. subs \in Seq(Row) /\ Len(subs) \in Nat /\ DOMAIN subs = 1..Len(subs)
  BY DEF TypeOK
<1>6. ASSUME NEW s, NEW e, CreateSubscription(s, e)
      PROVE  \E i \in 1..(Len(subs) + 1) : Ledger!OneRowWritten(i)
  <2> DEFINE r == [status |-> s, ends |-> e]
  <2>1. subs' = Append(subs, r)
    BY <1>6 DEF CreateSubscription, Edit
  <2> HIDE DEF r
  <2>2. Len(subs') = Len(subs) + 1 /\ \A j \in 1..Len(subs) : subs'[j] = subs[j]
    BY <1>5, <2>1
  <2>3. Ledger!OneRowWritten(Len(subs) + 1)
    BY <1>5, <2>2 DEF Ledger!OneRowWritten
  <2> QED
    BY <1>5, <2>3
<1>7. ASSUME NEW i \in DOMAIN subs, NEW r, subs' = [subs EXCEPT ![i] = r]
      PROVE  \E j \in 1..(Len(subs) + 1) : Ledger!OneRowWritten(j)
  <2>1. Len(subs') = Len(subs) /\ \A j \in DOMAIN subs : j # i => subs'[j] = subs[j]
    BY <1>5, <1>7
  <2>2. Ledger!OneRowWritten(i)
    BY <2>1 DEF Ledger!OneRowWritten
  <2> QED
    BY <1>5, <2>2
<1>8. ASSUME NEW i \in DOMAIN subs, NEW s, PatchSubscriptionStatus(i, s)
      PROVE  \E j \in 1..(Len(subs) + 1) : Ledger!OneRowWritten(j)
  <2>1. subs' = [subs EXCEPT ![i] = [subs[i] EXCEPT !.status = s]]
    BY <1>8 DEF PatchSubscriptionStatus, Edit
  <2> QED
    BY <2>1, <1>7
<1>9. ASSUME NEW i \in DOMAIN subs, NEW e, ExtendSubscription(i, e)
      PROVE  \E j \in 1..(Len(subs) + 1) : Ledger!OneRowWritten(j)
  <2>1. subs' = [subs EXCEPT ![i] = [subs[i] EXCEPT !.ends = e]]
    BY <1>9 DEF ExtendSubscription, Edit
  <2> QED
    BY <2>1, <1>7
<1>10. \E j \in 1..(Len(subs) + 1) : Ledger!OneRowWritten(j)
  BY <1>6, <1>8, <1>9 DEF AdminEdits
<1>11. Ledger!Amend
  BY <1>2, <1>3, <1>4, <1>10 DEF Ledger!Amend, paid
<1> QED
  BY <1>11 DEF Ledger!Next

\* A read that overtakes a pending write ends the quiet, and is nothing else.
LEMMA ReadOverlaps ==
    ASSUME TypeOK, NEW h \in Handlers, ReadSubscription(h)
    PROVE  [Ledger!Next]_Ledger!vars
<1>1. /\ UNCHANGED <<paid, subs, now, credits, budget>>
      /\ overlap \in BOOLEAN /\ overlap' = (overlap \/ \E g \in Handlers \ {h} : Pending(g))
  BY ReadEffect DEF TypeOK
<1>2. Standing' = Standing /\ UNCHANGED <<completed, recorded, invoice, subs, now>>
  BY <1>1, StandingKept DEF Status, paid
<1>3. Undisturbed' = Undisturbed \/ Undisturbed' = FALSE
  BY <1>1 DEF Undisturbed
<1>4. CASE Undisturbed' = Undisturbed
  BY <1>2, <1>4 DEF Ledger!vars
<1>5. CASE Undisturbed' = FALSE
  <2>1. Ledger!Overlap
    BY <1>2, <1>5 DEF Ledger!Overlap
  <2> QED
    BY <2>1 DEF Ledger!Next
<1> QED
  BY <1>3, <1>4, <1>5

LEMMA MonthInLedger ==
    ASSUME MonthPasses
    PROVE  Ledger!Next
<1>1. Standing' = Standing /\ Undisturbed' = Undisturbed
  BY StandingKept DEF MonthPasses, Status, paid, Undisturbed
<1>2. Ledger!MonthPasses
  BY <1>1 DEF MonthPasses, Ledger!MonthPasses, paid
<1> QED
  BY <1>2 DEF Ledger!Next

\* The statements of a capture and of an approval that decide an item.
LEMMA MarkSettles ==
    ASSUME TypeOK, TypeOK', CreditInv, NEW h \in Handlers,
           MarkPaymentRequestPaid(h) \/ MarkPaymentApproved(h)
    PROVE  [Ledger!Next]_Ledger!vars
<1>0. UNCHANGED <<credits, subs, now, overlap, budget, completed, recorded, invoice>>
  BY DEF MarkPaymentRequestPaid, MarkPaymentApproved, SetPayment, paid
<1>1. UNCHANGED Beside /\ budget'.edits = budget.edits
  BY <1>0 DEF Beside
<1>2. CASE UNCHANGED <<request, payment>>
  BY <1>0, <1>1, <1>2, LedgerKept
<1>3. CASE MarkPaymentRequestPaid(h) /\ ~UNCHANGED <<request, payment>>
  <2> DEFINE r == task[h].item
  <2>1. /\ r \in Requests /\ request[r] = "pending" /\ UNCHANGED payment
        /\ request' = [request EXCEPT ![r] = "paid"]
    BY <1>3 DEF MarkPaymentRequestPaid
  <2> HIDE DEF r
  <2> QED
    BY <1>0, <1>1, <2>1, RequestWritten
<1>4. CASE MarkPaymentApproved(h) /\ ~UNCHANGED <<request, payment>>
  <2> DEFINE p == task[h].item
  <2>1. p \in Payments /\ payment[p].status = "PENDING" /\ SetPayment(p, "APPROVED")
    BY <1>4 DEF MarkPaymentApproved, paid
  <2> HIDE DEF p
  <2>2. /\ UNCHANGED request /\ payment'[p].status = "APPROVED"
        /\ \A q \in Payments : q # p => payment'[q] = payment[q]
    BY <2>1 DEF SetPayment, TypeOK
  <2> QED
    BY <1>0, <1>1, <2>1, <2>2, PaymentWritten
<1> QED
  BY <1>2, <1>3, <1>4

\* The other steps that move an item or an invoice.
LEMMA AdminWrites ==
    ASSUME TypeOK, TypeOK', CreditInv,
           \/ \E r \in Requests : CreatePaymentRequest(r)
           \/ \E p \in Payments : RejectPayment(p)
           \/ \E p \in Payments, row \in 0..Len(subs) : CreatePayment(p, row)
           \/ \E i \in Invoices : AdminInvoice(i)
    PROVE  Ledger!Next
<1>1. ASSUME NEW r \in Requests, CreatePaymentRequest(r) PROVE Ledger!Next
  <2>1. UNCHANGED <<payment, credits>> /\ UNCHANGED Beside /\ budget'.edits = budget.edits
    BY <1>1 DEF CreatePaymentRequest, Beside
  <2> QED
    BY <1>1, <2>1, RequestWritten DEF CreatePaymentRequest
<1>2. ASSUME NEW p \in Payments, RejectPayment(p) PROVE Ledger!Next
  <2>1. UNCHANGED <<request, credits>> /\ UNCHANGED Beside /\ budget'.edits = budget.edits
    BY <1>2 DEF RejectPayment, SetPayment, Beside
  <2>2. /\ payment[p].status = "PENDING" /\ payment'[p].status = "REJECTED"
        /\ \A q \in Payments : q # p => payment'[q] = payment[q]
    BY <1>2 DEF RejectPayment, SetPayment, TypeOK
  <2> QED
    BY <2>1, <2>2, PaymentWritten
<1>3. ASSUME NEW p \in Payments, NEW row, CreatePayment(p, row) PROVE Ledger!Next
  <2>1. UNCHANGED <<request, credits>> /\ UNCHANGED Beside /\ budget'.edits = budget.edits
    BY <1>3 DEF CreatePayment, Beside
  <2>2. /\ payment[p].status = "none" /\ payment'[p].status = "PENDING"
        /\ \A q \in Payments : q # p => payment'[q] = payment[q]
    BY <1>3 DEF CreatePayment, TypeOK
  <2> QED
    BY <2>1, <2>2, PaymentWritten
<1>4. ASSUME NEW i \in Invoices, AdminInvoice(i) PROVE Ledger!Next
  <2>1. UNCHANGED <<subs, now, credits, overlap>> /\ budget'.edits = budget.edits
    BY <1>4 DEF AdminInvoice
  <2>2. PICK status \in {"OPEN", "PAID", "VOID"} :
          /\ SetInvoice(i, status)
          /\ \/ invoice[i] = "none" /\ status = "OPEN"
             \/ invoice[i] = "OPEN" /\ status \in {"PAID", "VOID"}
    BY <1>4 DEF AdminInvoice
  <2> QED
    BY <2>1, <2>2, InvoiceWritten
<1> QED
  BY <1>1, <1>2, <1>3, <1>4

\* An approval settles the invoice it found, if that is still open.
LEMMA InvoiceSettled ==
    ASSUME TypeOK, NEW h \in Handlers, SettleInvoice(h)
    PROVE  [Ledger!Next]_Ledger!vars
<1>1. UNCHANGED <<subs, now, credits, overlap>> /\ budget'.edits = budget.edits
  BY DEF SettleInvoice
<1>2. PICK i \in task[h].invoice :
        IF invoice[i] = "OPEN" THEN SetInvoice(i, "PAID") ELSE UNCHANGED paid
  BY DEF SettleInvoice
<1>3. i \in Invoices
  BY <1>2 DEF TypeOK, Task
<1>4. CASE invoice[i] = "OPEN"
  BY <1>1, <1>2, <1>3, <1>4, InvoiceWritten
<1>5. CASE invoice[i] # "OPEN"
  BY <1>1, <1>2, <1>5, LedgerKept DEF paid, Beside
<1> QED
  BY <1>4, <1>5

\* The steps of a handler that the ledger does not see.
LEMMA HandlerUnseen ==
    ASSUME TypeOK, NEW h \in Handlers,
           \/ \E r \in Requests : PaymentCaptured(h, r)
           \/ \E p \in Payments : ApprovePayment(h, p)
           \/ WriteRefused(h) \/ FindOpenInvoice(h) \/ HandlerStops(h) \/ ErrorDropped(h)
    PROVE  UNCHANGED Ledger!vars
<1>1. UNCHANGED <<request, payment, credits>> /\ UNCHANGED Beside
  BY DEF PaymentCaptured, ApprovePayment, WriteRefused, FindOpenInvoice, HandlerStops,
         ErrorDropped, paid, Beside
<1>2. budget'.edits = budget.edits
  BY HandlersQuiet DEF Quiet
<1> QED
  BY <1>1, <1>2, LedgerKept

LEMMA LedgerStep ==
    TypeOK /\ TypeOK' /\ CreditInv /\ ExactInv /\ [Next]_vars => [Ledger!Next]_Ledger!vars
<1> SUFFICES ASSUME TypeOK, TypeOK', CreditInv, ExactInv, [Next]_vars
             PROVE  [Ledger!Next]_Ledger!vars
  OBVIOUS
<1>1. ASSUME NEW h \in Handlers, Serve(h) \/ HandlerStops(h) \/ ErrorDropped(h)
      PROVE  [Ledger!Next]_Ledger!vars
  BY <1>1, MarkSettles, ReadOverlaps, ExtensionGranted, RequestShown, InvoiceSettled,
     HandlerUnseen DEF Serve
<1>2. CASE \/ \E r \in Requests : CreatePaymentRequest(r)
           \/ \E p \in Payments : RejectPayment(p)
           \/ \E p \in Payments, row \in 0..Len(subs) : CreatePayment(p, row)
           \/ \E i \in Invoices : AdminInvoice(i)
  BY <1>2, AdminWrites
<1>3. CASE AdminEdits
  BY <1>3, EditAmends
<1>4. CASE MonthPasses
  BY <1>4, MonthInLedger
<1>5. CASE UNCHANGED vars
  BY <1>5, LedgerKept DEF vars, paid, Beside
<1> QED
  BY <1>1, <1>2, <1>3, <1>4, <1>5 DEF Next

LEMMA LedgerInit == Init => Ledger!Init
<1> SUFFICES ASSUME Init PROVE Ledger!Init
  OBVIOUS
<1>1. Standing = [x \in Items |-> "new"]
  <2>1. \A x \in Items : Standing[x] = "new"
    <3> SUFFICES ASSUME NEW x \in Items PROVE Standing[x] = "new"
      OBVIOUS
    <3>1. credits[x] = 0 /\ Status[x] = "none"
      BY DEF Init, Status, Items
    <3> QED
      BY <3>1, StandingIs
  <2> QED
    BY <2>1 DEF Standing
<1>2. Len(subs) <= 1
  <2> DEFINE trial == [status |-> "TRIAL", ends |-> 1]
             endless == [status |-> "ACTIVE", ends |-> NoEnd]
  <2>1. subs \in {<<>>, <<trial>>, <<endless>>}
    BY DEF Init
  <2> HIDE DEF trial, endless
  <2>2. Len(<<>>) = 0 /\ Len(<<trial>>) = 1 /\ Len(<<endless>>) = 1
    OBVIOUS
  <2>3. Len(subs) \in {0, 1}
    BY <2>1, <2>2, Zenon
  <2>4. \A n \in {0, 1} : n <= 1
    OBVIOUS
  <2> QED
    BY <2>3, <2>4, Zenon
<1> QED
  BY <1>1, <1>2 DEF Init, Ledger!Init, Ledger!Items, Items, Undisturbed

\* Billing implements the ledger, for any number of payments, handlers, rows and
\* faults: every statement of a handler is one step of it or none.
THEOREM BillingImplementsLedger == Spec => ImplementsLedger
BY LedgerInit, LedgerStep, NextType, BillingTypeCorrect, CreditInvariant, ExactInvariant, PTL
   DEF Spec, ImplementsLedger, Ledger!Spec
=============================================================================

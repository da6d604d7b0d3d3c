----------------------------- MODULE DashboardForms -----------------------------
(***************************************************************************)
(* The forms and dialogs of the dashboard at work: one of them, the two    *)
(* entities of its list it can be opened for (or a new one), what is typed *)
(* into it, the question some ask before they disable, and saves that are  *)
(* under way while the user closes it and opens it for another.  Of the    *)
(* values it is told only for whom they were typed.                        *)
(***************************************************************************)
EXTENDS FiniteSets, Naturals

VARIABLES formKind,   \* the form
          shownFor,   \* the entity it is open for, or "nobody": closed
          typedFor,   \* the entity its values were typed for; "nobody": they are the defaults
          question,   \* pendingValues: the entity for which they were, or "nobody": no question
          saving,     \* saves under way [to, of, here]: here, its mutation is this form's
          sent,       \* history: [to, of] of the last save
          left        \* history: entities whose values the user turned away from, unsaved

formVars == <<formKind, shownFor, typedFor, question, saving, sent, left>>

-----------------------------------------------------------------------------
(* The forms.                                                              *)

One == {"new"}                   \* a form that creates
Either == {"first", "second"}    \* a form that edits, and the entities on the page (bound)

\* fields, mutation: whether the typed values and the mutation outlive the closing;
\* resync: what makes an effect put the entity's values back ("render": every render);
\* typing: whether something must be typed before it can be submitted;
\* clears: the events that empty it; then: what a success does to it.
Form(entities, fields, mutation, resync, typing, clears, then) ==
    [entities |-> entities, fields |-> fields, mutation |-> mutation, resync |-> resync,
     typing |-> typing, clears |-> clears, then |-> then, asks |-> FALSE, switches |-> FALSE]

\* Dialogs that are always mounted and render nothing while closed.
Kept(entities, typing, clears, then) == Form(entities, TRUE, TRUE, "never", typing, clears, then)
\* Forms that are a page, or a part of the page of one entity.
OnPage(entities, resync, typing, then) == Form(entities, FALSE, FALSE, resync, typing, {}, then)
\* Dialogs that are always mounted around a form that is not.
Around(entities, resync, typing) == Form(entities, FALSE, TRUE, resync, typing, {}, "closes")
Asking(f) == [f EXCEPT !.asks = TRUE]
\* Cards in the page, which leave the rows below within reach.
Switching(f) == [f EXCEPT !.switches = TRUE]

CreateSubscriptionDialog == Kept(One, TRUE, {"success"}, "closes")
CreatePaymentDialog == Kept(One, TRUE, {"success"}, "closes")
CreateInvoiceDialog == Kept(One, TRUE, {"success"}, "closes")
CreateCameraDialogForm == Kept(One, TRUE, {"success"}, "leaves")
ResetPasswordDialogForm == Kept({"first"}, FALSE, {"close", "success"}, "closes")
ForcePasswordChangeDialogForm == Kept({"first"}, FALSE, {}, "closes")
ChildParentsDialogForm == Switching(Kept(Either, TRUE, {"success"}, "stays"))

\* ChildForm and ClassroomForm put their defaultValues back whenever these are
\* another object; all but CreateClassroomDialog make a new one in every render.
CreateChildDialog == Around(One, "render", TRUE)
CreateClassroomDialog == Around(One, "never", TRUE)
EditChildDialog == Asking(Around(Either, "render", FALSE))
EditClassroomDialog == Asking(Around(Either, "render", FALSE))

\* Mounted for a subscription, and not anew for the next one.
ExtendSubscriptionDialog == Switching(Form(Either, FALSE, FALSE, "never", FALSE, {}, "closes"))
ChangeSubscriptionStatusDialog == Switching(Form(Either, FALSE, FALSE, "never", FALSE, {}, "closes"))

CreateSchoolForm == OnPage(One, "never", TRUE, "leaves")
EditSchoolForm == OnPage(Either, "never", FALSE, "leaves")
\* The callbacks of mutate, unlike what follows mutateAsync, die with the component.
UserFormFields == OnPage(One, "never", TRUE, "leaves if here")
ParentFormFields == OnPage(One, "never", TRUE, "leaves if here")
ChangePasswordForm == OnPage({"first"}, "never", TRUE, "leaves")
CameraConfiguration == OnPage(Either, "data", FALSE, "stays")
RevenueShareForm == OnPage(Either, "data", FALSE, "stays")
UserProfile == OnPage(Either, "data", FALSE, "stays")
\* The only form that knows whether something was typed (dirty), until it is saved.
ScheduleForm == [OnPage(Either, "data", TRUE, "stays") EXCEPT !.clears = {"success"}]
AssignAdminForm == Form(Either, FALSE, FALSE, "never", TRUE, {"success"}, "stays")

Forms ==
    [CreateSubscriptionDialog |-> CreateSubscriptionDialog, CreatePaymentDialog |-> CreatePaymentDialog,
     CreateInvoiceDialog |-> CreateInvoiceDialog, CreateCameraDialog |-> CreateCameraDialogForm,
     ResetPasswordDialog |-> ResetPasswordDialogForm,
     ForcePasswordChangeDialog |-> ForcePasswordChangeDialogForm,
     ChildParentsDialog |-> ChildParentsDialogForm, CreateChildDialog |-> CreateChildDialog,
     CreateClassroomDialog |-> CreateClassroomDialog, EditChildDialog |-> EditChildDialog,
     EditClassroomDialog |-> EditClassroomDialog, ExtendSubscriptionDialog |-> ExtendSubscriptionDialog,
     ChangeSubscriptionStatusDialog |-> ChangeSubscriptionStatusDialog,
     CreateSchoolPage |-> CreateSchoolForm, EditSchoolPage |-> EditSchoolForm,
     UserForm |-> UserFormFields, ParentForm |-> ParentFormFields,
     ChangePasswordForm |-> ChangePasswordForm, EditCameraForm |-> CameraConfiguration,
     RevenueShareSection |-> RevenueShareForm, UserDetailPage |-> UserProfile,
     SchoolScheduleTab |-> ScheduleForm, SchoolAdminsSection |-> AssignAdminForm]

theForm == Forms[formKind]

-----------------------------------------------------------------------------
Entities == One \union Either
OrNobody == Entities \union {"nobody"}

FormsTypeOK ==
    /\ formKind \in DOMAIN Forms
    /\ shownFor \in theForm.entities \union {"nobody"}
    /\ typedFor \in OrNobody /\ question \in OrNobody
    /\ saving \subseteq [to : Entities, of : OrNobody, here : BOOLEAN]
    /\ sent \in [to : OrNobody, of : OrNobody]
    /\ left \subseteq Entities

FormsInit ==
    /\ formKind \in DOMAIN Forms
    /\ shownFor = "nobody" /\ typedFor = "nobody" /\ question = "nobody"
    /\ saving = {} /\ sent = [to |-> "nobody", of |-> "nobody"] /\ left = {}

open == shownFor # "nobody"
isPending == \E s \in saving : s.here

OpenForm ==
    /\ ~open
    /\ shownFor' \in theForm.entities
    /\ UNCHANGED <<formKind, typedFor, question, saving, sent, left>>

SwitchForm ==
    /\ open /\ theForm.switches
    /\ shownFor' \in theForm.entities \ {shownFor}
    /\ left' = left \union ({typedFor} \ {"nobody"})
    /\ UNCHANGED <<formKind, typedFor, question, saving, sent>>

TypeInto ==
    /\ open /\ typedFor' = shownFor
    /\ UNCHANGED <<formKind, shownFor, question, saving, sent, left>>

keptAfter(event) == IF theForm.fields /\ event \notin theForm.clears THEN typedFor ELSE "nobody"

\* The button, the background or the page left.  It is not refused while a save is
\* under way, nor while the question is open: that stays open with its values.
CloseForm ==
    /\ open
    /\ shownFor' = "nobody" /\ typedFor' = keptAfter("close")
    /\ saving' = {[s EXCEPT !.here = s.here /\ theForm.mutation] : s \in saving}
    /\ left' = left \union ({typedFor', question} \ {"nobody"})
    /\ UNCHANGED <<formKind, question, sent>>

\* The entity is fetched again, or the page renders again.
Resync ==
    /\ open /\ theForm.resync # "never"
    /\ typedFor' = "nobody"
    /\ UNCHANGED <<formKind, shownFor, question, saving, sent, left>>

\* Bound: two saves under way.
Save(values) ==
    /\ ~isPending /\ Cardinality(saving) < 2
    /\ saving' = saving \union {[to |-> shownFor, of |-> values, here |-> TRUE]}
    /\ sent' = [to |-> shownFor, of |-> values]

\* Either changes the state of the dialog, which renders.
afterRender == IF theForm.resync = "render" THEN "nobody" ELSE typedFor
SubmitForm ==
    /\ open /\ ~isPending /\ (theForm.typing => typedFor # "nobody")
    /\ typedFor' = afterRender
    /\ \/ Save(typedFor) /\ UNCHANGED question
       \/ /\ theForm.asks /\ typedFor # "nobody"       \* the status was set to DISABLED
          /\ question' = typedFor /\ UNCHANGED <<saving, sent>>
    /\ UNCHANGED <<formKind, shownFor, left>>

onConfirm ==
    /\ open /\ question # "nobody"
    /\ Save(question) /\ typedFor' = afterRender
    /\ UNCHANGED <<formKind, shownFor, question, left>>

onCancel ==
    /\ open /\ question # "nobody"
    /\ question' = "nobody" /\ typedFor' = afterRender
    /\ UNCHANGED <<formKind, shownFor, saving, sent, left>>

\* Mutant: a success leaves the question as it is.
questionAfterKept == question

questionAfter == IF theForm.asks THEN "nobody" ELSE question

\* A success closes what is open now, for whomever it is.  (A generated password is
\* shown first, in the place of its form.)
SaveSucceeds(s) ==
    /\ saving' = saving \ {s}
    /\ question' = questionAfter
    /\ IF \/ theForm.then \in {"closes", "leaves"}
          \/ theForm.then = "leaves if here" /\ s.here
       THEN shownFor' = "nobody" /\ typedFor' = keptAfter("success")
       ELSE /\ typedFor' = IF s.here /\ "success" \in theForm.clears THEN "nobody" ELSE typedFor
            /\ UNCHANGED shownFor
    /\ UNCHANGED <<formKind, sent, left>>

\* The form stays as it is, but that it renders.
SaveFails(s) ==
    /\ saving' = saving \ {s}
    /\ typedFor' = afterRender
    /\ UNCHANGED <<formKind, shownFor, question, sent, left>>

FormsNext ==
    \/ OpenForm \/ SwitchForm \/ TypeInto \/ CloseForm \/ Resync
    \/ SubmitForm \/ onConfirm \/ onCancel
    \/ \E s \in saving : SaveSucceeds(s) \/ SaveFails(s)

FormsSpec == FormsInit /\ [][FormsNext]_formVars

-----------------------------------------------------------------------------
(* Properties                                                              *)

\* What was typed for one entity is saved for that entity, through closing,
\* reopening for another, the question before disabling, and saves that answer
\* late.  The ways around it are the two in which the user turns away from typed
\* values the component keeps (history left): a card or the parents' dialog shown
\* for the next row, and a question left open behind a closed drawer.
SavedForWhomTyped == sent.of \in {"nobody", sent.to} \union left
=============================================================================

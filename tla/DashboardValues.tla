----------------------------- MODULE DashboardValues -----------------------------
(***************************************************************************)
(* From a record of the backend to the values of the form that edits it    *)
(* and back: the conversions of the dashboard, for one record that is      *)
(* edited again and again.  A name is a sequence of characters; an address *)
(* is a sequence of lines, since the dashboard keeps the fields the        *)
(* backend has no column for in a block of it; a percentage is counted in  *)
(* hundredths.  What passes unchanged is left out.                         *)
(***************************************************************************)
EXTENDS Integers, Sequences, FiniteSetsExt

Space == "space"   \* a character; the others are letters

CONSTANTS Names,   \* names and notes typed, as their schemas trim them
          Streets, \* addresses typed, a sequence of lines each
          Words,   \* what is typed into the fields kept in the block
          Shares,  \* percentages typed for a school
          Horizon  \* bound: how many days ahead a share is set

\* Nobody types the line that begins a block.
ValuesAssumption ==
    /\ \A name \in Names :
          name \in Seq(STRING) /\ name # <<>> /\ name[1] # Space /\ name[Len(name)] # Space
    /\ \A street \in Streets :
          street \in Seq([key : {"street"}, value : STRING]) /\ street # <<>>
    /\ \A word \in Words : word \in STRING /\ word # ""
    /\ \A share \in Shares : share \in Int
    /\ Horizon \in Nat

ASSUME ValuesAssumption

VARIABLES recordKind,   \* "child", "classroom", "school", "camera" or "revenueShare"
          record        \* external: the record as the backend has it

valuesVars == <<recordKind, record>>

\* What a form offers, and what the tables allow.  No handler of these tables checks
\* the status it is sent.
EntityStatuses == {"ACTIVE", "DISABLED"}
RecordStatuses == EntityStatuses \union {"BLOCKED"}

\* A form knows two states: whatever is not DISABLED is shown as ACTIVE.
formStatus(status) == IF status = "DISABLED" THEN "DISABLED" ELSE "ACTIVE"

\* The backend keeps a column for which nothing, or an empty text, is sent.
Coalesce(new, old) == IF new = <<>> THEN old ELSE new

trim(text) ==
    LET letters == {i \in DOMAIN text : text[i] # Space}
    IN IF letters = {} THEN <<>> ELSE SubSeq(text, Min(letters), Max(letters))

-----------------------------------------------------------------------------
(* Children and classrooms.                                                *)

splitFullName(name) ==
    LET spaces == {i \in DOMAIN name : name[i] = Space}
    IN IF spaces = {} THEN [first |-> name, last |-> <<>>]
       ELSE [first |-> SubSeq(name, 1, Min(spaces) - 1),
             last |-> trim(SubSeq(name, Min(spaces) + 1, Len(name)))]

childToFormValues(child) ==
    LET name == splitFullName(trim(child.full_name))
    IN [first |-> name.first, last |-> name.last, status |-> formStatus(child.status)]

buildFullName(first, last) == trim(trim(first) \o <<Space>> \o trim(last))

updateChild(child, values) ==
    [full_name |-> Coalesce(buildFullName(values.first, values.last), child.full_name),
     status |-> values.status]

\* What the form calls notes is the age group.
classroomToFormValues(room) == [notes |-> room.age_group, status |-> formStatus(room.status)]

updateClassroom(room, values) ==
    [age_group |-> Coalesce(trim(values.notes), room.age_group), status |-> values.status]

-----------------------------------------------------------------------------
(* Schools.                                                                *)

META_START == [key |-> "start", value |-> ""]
META_END == [key |-> "end", value |-> ""]
metaKeys == {"timezone", "city", "contact_name", "contact_email", "notes"}

\* A line for each field that is not empty.
encodeSchoolAddress(meta, street) ==
    LET Line(k) == IF meta[k] = "" THEN <<>> ELSE <<[key |-> k, value |-> meta[k]]>>
        metaLines == Line("timezone") \o Line("city") \o Line("contact_name")
                     \o Line("contact_email") \o Line("notes")
    IN IF metaLines = <<>> THEN street ELSE <<META_START>> \o metaLines \o <<META_END>> \o street

\* Mutant: a field is written into the block and not read from it.
decodeSchoolAddressNoNotes(lines) ==
    LET starts == {i \in DOMAIN lines : lines[i] = META_START}
        start == Min(starts)
        end == Min({i \in DOMAIN lines : i > start /\ lines[i] = META_END} \union {Len(lines) + 1})
        At(k) == {i \in start..(end - 1) : k # "notes" /\ lines[i].key = k}
    IN IF starts = {} THEN [meta |-> [k \in metaKeys |-> ""], street |-> lines]
       ELSE [meta |-> [k \in metaKeys |-> IF At(k) = {} THEN "" ELSE lines[Max(At(k))].value],
             street |-> SubSeq(lines, end + 1, Len(lines))]

\* The first block, and what follows it; of a key, its last line.
decodeSchoolAddress(lines) ==
    LET starts == {i \in DOMAIN lines : lines[i] = META_START}
        start == Min(starts)
        end == Min({i \in DOMAIN lines : i > start /\ lines[i] = META_END} \union {Len(lines) + 1})
        At(k) == {i \in start..(end - 1) : lines[i].key = k}
    IN IF starts = {} THEN [meta |-> [k \in metaKeys |-> ""], street |-> lines]
       ELSE [meta |-> [k \in metaKeys |-> IF At(k) = {} THEN "" ELSE lines[Max(At(k))].value],
             street |-> SubSeq(lines, end + 1, Len(lines))]

\* An address with no street in it is shown whole.
normalizeSchool(school) ==
    LET decoded == decodeSchoolAddress(school.address)
    IN [meta |-> decoded.meta, phone |-> school.phone, status |-> school.status,
        address |-> IF decoded.street = <<>> THEN school.address ELSE decoded.street]

schoolDetailToFormValues(school) ==
    LET shown == normalizeSchool(school)
        Zoned(k) == IF k = "timezone" /\ shown.meta[k] = "" THEN "Africa/Addis_Ababa"
                    ELSE shown.meta[k]
    IN [meta |-> [k \in metaKeys |-> Zoned(k)], phone |-> shown.phone,
        status |-> formStatus(shown.status), address |-> shown.address]

\* A school's own administrator sends no status (updateSchoolLimited).
updateSchool(school, values) ==
    [address |-> Coalesce(encodeSchoolAddress(values.meta, values.address), school.address),
     phone |-> Coalesce(values.phone, school.phone), status |-> values.status]
updateSchoolLimited(school, values) ==
    [updateSchool(school, values) EXCEPT !.status = school.status]

-----------------------------------------------------------------------------
(* Cameras and revenue shares.                                             *)

\* The address of the stream is never shown, so its field is empty.
cameraToFormValues(camera) == [rtsp_url |-> <<>>, status |-> formStatus(camera.status)]

toUpdateCameraInput(camera, values) ==
    [rtsp_url |-> Coalesce(trim(values.rtsp_url), camera.rtsp_url), status |-> values.status]

\* Days from today.  What is in effect on the last of them stays in effect.
Days == 0..Horizon
Whole == 10000   \* a hundred percent
DefaultShare == 7000

\* The form shows the share in effect today, from the day it began; a school without
\* one is offered 70 percent from today.  A day that has come is day 0.
revenueShareToFormValues(share) ==
    LET school == IF share.percentage[0] = <<>> THEN DefaultShare ELSE share.percentage[0][1]
    IN [school |-> school, platform |-> Whole - school, active_from |-> 0]

revenueShareFormSchema(values) ==
    /\ values.school \in 0..Whole /\ values.platform \in 0..Whole
    /\ values.school + values.platform = Whole

\* Every share that is still open or planned ends before the new one begins.
setSchoolRevenueShare(share, values) ==
    IF revenueShareFormSchema(values)
    THEN [percentage |-> [day \in Days |-> IF day >= values.active_from THEN <<values.school>>
                                           ELSE share.percentage[day]]]
    ELSE share

-----------------------------------------------------------------------------
(* The record and its edits.                                               *)

FormOf(kind, r) ==
    CASE kind = "child" -> childToFormValues(r)
      [] kind = "classroom" -> classroomToFormValues(r)
      [] kind = "school" -> schoolDetailToFormValues(r)
      [] kind = "camera" -> cameraToFormValues(r)
      [] kind = "revenueShare" -> revenueShareToFormValues(r)

Saved(kind, r, values) ==
    CASE kind = "child" -> updateChild(r, values)
      [] kind = "classroom" -> updateClassroom(r, values)
      [] kind = "school" -> updateSchool(r, values)
      [] kind = "camera" -> toUpdateCameraInput(r, values)
      [] kind = "revenueShare" -> setSchoolRevenueShare(r, values)

\* A school needs a time zone; the other fields may stay empty.
Metas == {meta \in [metaKeys -> {""} \union Words] : meta["timezone"] # ""}

\* What can be typed into a form that is open with these values.
Typed(kind, values) ==
    CASE kind = "child" ->
           [first : Names, last : Names \union {<<>>}, status : EntityStatuses]
      [] kind = "classroom" -> [notes : Names \union {<<>>, <<Space>>}, status : EntityStatuses]
      [] kind = "school" ->
           [meta : Metas, address : Streets \union {<<>>, values.address},
            phone : {<<>>, <<"a">>}, status : EntityStatuses]
      [] kind = "camera" -> [rtsp_url : {<<>>, <<"a">>, <<"a", "a">>}, status : EntityStatuses]
      [] kind = "revenueShare" ->
           {[school |-> p, platform |-> Whole - p, active_from |-> day] : p \in Shares, day \in Days}

\* Records as the backend has them before they are first edited here.
Records ==
    [child |-> [full_name : Names, status : RecordStatuses],
     classroom |-> [age_group : {<<>>, <<"a">>}, status : RecordStatuses],
     school |-> [address : Streets \union {<<>>}, phone : {<<>>, <<"a">>}, status : RecordStatuses],
     camera |-> [rtsp_url : {<<"a">>}, status : EntityStatuses \union {"OFFLINE", "ERROR"}],
     revenueShare |-> {[percentage |-> [day \in Days |-> <<>>]]}]

ValuesTypeOK ==
    /\ recordKind \in DOMAIN Records
    /\ \A r \in Records[recordKind] : DOMAIN record = DOMAIN r

ValuesInit ==
    /\ recordKind \in DOMAIN Records
    /\ record \in Records[recordKind]

SaveForm ==
    /\ \E values \in {FormOf(recordKind, record)} \union Typed(recordKind, FormOf(recordKind, record)) :
        \/ record' = Saved(recordKind, record, values)
        \/ recordKind = "school" /\ record' = updateSchoolLimited(record, values)
    /\ UNCHANGED recordKind

\* The worker that reads a camera's stream sets its status.
CameraStatusMoves ==
    /\ recordKind = "camera" /\ record.status # "DISABLED"
    /\ \E status \in {"ACTIVE", "OFFLINE", "ERROR"} : record' = [record EXCEPT !.status = status]
    /\ UNCHANGED recordKind

\* Midnight passes, and a planned share may take effect.
DayPasses ==
    /\ recordKind = "revenueShare"
    /\ record' = [percentage |-> [day \in Days |->
                     record.percentage[IF day < Horizon THEN day + 1 ELSE Horizon]]]
    /\ UNCHANGED recordKind

ValuesNext == SaveForm \/ CameraStatusMoves \/ DayPasses

ValuesSpec == ValuesInit /\ [][ValuesNext]_valuesVars

-----------------------------------------------------------------------------
(* Properties                                                              *)

\* The records that do not survive their own form: a child, a classroom or a school
\* that is blocked, which the form makes active; a name with two spaces after its
\* first word; a school without a time zone, or with the block but no street (the
\* block is repeated in the street's place); a camera that is down; a school without
\* a share, or with a change of its share planned, which the save takes back.
changedByItsForm ==
    CASE recordKind = "child" ->
           \/ record.status = "BLOCKED"
           \/ \E i \in DOMAIN record.full_name :
                 /\ record.full_name[i] = Space /\ record.full_name[i + 1] = Space
                 /\ \A j \in 1..(i - 1) : record.full_name[j] # Space
      [] recordKind = "classroom" -> record.status = "BLOCKED"
      [] recordKind = "school" ->
           LET decoded == decodeSchoolAddress(record.address)
           IN \/ record.status = "BLOCKED"
              \/ decoded.meta["timezone"] = "" \/ decoded.street = <<>>
      [] recordKind = "camera" -> record.status \in {"OFFLINE", "ERROR"}
      [] recordKind = "revenueShare" ->
           \/ record.percentage[0] = <<>>
           \/ \E day \in Days : record.percentage[day] # record.percentage[0]

\* To open a record's form and save it as it stands changes nothing, but for those;
\* and of these, too, every save after the second changes nothing.
UneditedSaveKeeps ==
    LET again == Saved(recordKind, record, FormOf(recordKind, record))
        settled == Saved(recordKind, again, FormOf(recordKind, again))
    IN /\ again # record => changedByItsForm
       /\ Saved(recordKind, settled, FormOf(recordKind, settled)) = settled
=============================================================================

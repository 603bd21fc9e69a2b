--------------------------- MODULE IncidentsProofs ---------------------------
(***************************************************************************)
(* The incident engine proved for any processes, alerts, rules and         *)
(* operators: FiringInv is inductive, ActiveMeansFiring and                *)
(* DuplicatesAreRaces follow from it, and OnlyOperatorsReopen from its      *)
(* types.  Then the remediation record of one incident, for any diagnoses, *)
(* presses, notes, questions and browsers: its three invariants follow     *)
(* from RecordInv, which has a part for each column and for the job.       *)
(***************************************************************************)
EXTENDS Incidents, IncidentRecord, WellFoundedInduction, SequenceTheorems, TLAPS

\* An alert's row is written after its incident's, which never goes away.
RowsBehind ==
  /\ \A i \in Incident : alert[i] # NoAlert => Exists(i)
  /\ \A p \in Delivery : delivery[p].at = "linking" => Exists(delivery[p].incident)

\* Between its two statements a resolution has left no incident of its alert
\* active, but those linked or reopened since.
ClosingLeftNone ==
  \A p \in Delivery, f \in Fingerprint, i \in Incident :
    delivery[p] = Closing(f) /\ Linked(i, f) /\ ActiveRow(i) => i \in crossed \cup reopened

FiringInv == TypeOK /\ RowsBehind /\ ClosingLeftNone /\ ActiveMeansFiring

-----------------------------------------------------------------------------
(* Lemmas about rows *)

\* A row exists if and only if its status is one of the five.
LEMMA ExistsByStatus ==
  ASSUME TypeOK, NEW i \in Incident
  PROVE  /\ Exists(i) <=> incident[i].status \in Status
         /\ Exists(i) <=> incident[i] \in IncidentRow
         /\ ~ Exists(i) => incident[i].status = "none"
  BY DEF TypeOK, Exists, IncidentRow, NoIncident, Status

\* Where a delivery is, from its label.
LEMMA DeliveryForms ==
  ASSUME TypeOK, NEW p \in Delivery
  PROVE  /\ delivery[p].at = "finding" =>
              delivery[p].fingerprint \in Fingerprint /\ delivery[p] = Finding(delivery[p].fingerprint)
         /\ delivery[p].at = "linking" =>
              delivery[p].fingerprint \in Fingerprint /\ delivery[p].incident \in Incident
         /\ delivery[p].at = "closing" =>
              delivery[p].fingerprint \in Fingerprint /\ delivery[p] = Closing(delivery[p].fingerprint)
  BY DEF TypeOK, Idle, Finding, Linking, Closing

\* The same of a tick.
LEMMA TickForms ==
  ASSUME TypeOK, NEW p \in Tick, tick[p].at = "checked"
  PROVE  tick[p].rule \in Rule /\ tick[p] = Checked(tick[p].rule)
  BY DEF TypeOK, Idle, Checked

\* What a statement on the incidents may do to one that is not inserted by it.
Ranked(i) == Rank(incident[i].status) <= Rank(incident'[i].status)

LEMMA Ranks ==
  /\ Rank("none") = 0 /\ Rank("open") = 1 /\ Rank("investigating") = 1
  /\ Rank("mitigated") = 2 /\ Rank("resolved") = 3 /\ Rank("suppressed") = 4
  BY DEF Rank, Active

-----------------------------------------------------------------------------
(* Types *)

LEMMA TypeOKInit == Init => TypeOK
  BY DEF Init, TypeOK, Idle

\* What the histories of the runs are, whatever a step does to them.
LEMMA ForgetType ==
  ASSUME TypeOK, NEW X, Forget(X)
  PROVE  met' \in [Run -> SUBSET Incident]
  BY DEF TypeOK, Forget

LEMMA MeetType ==
  ASSUME TypeOK, NEW r \in Run, NEW i \in Incident, NEW X, Meet(r, i, X)
  PROVE  met' \in [Run -> SUBSET Incident] /\ raced' \subseteq SUBSET Incident
<1>1. \A q \in Run : met[q] \subseteq Incident
  BY DEF TypeOK
<1>2. \A q \in Run : (IF q = r THEN {} ELSE IF q \in X THEN met[q] \cup {i} ELSE met[q])
                       \in SUBSET Incident
  BY <1>1
<1>3. met' \in [Run -> SUBSET Incident]
  BY <1>2 DEF Meet
<1>4. raced' \subseteq SUBSET Incident
  BY <1>1 DEF Meet, TypeOK
<1> QED
  BY <1>3, <1>4

LEMMA InsertType ==
  ASSUME TypeOK, NEW i \in Incident, NEW title \in Rule \cup {"other"}, Insert(i, title)
  PROVE  /\ incident' \in [Incident -> IncidentRow \cup {NoIncident}]
         /\ incident[i].status = "none" /\ ~ Exists(i) /\ incident'[i] \in IncidentRow
         /\ incident'[i].status = "open" /\ incident'[i].title = title
         /\ incident'[i].fresh = (title \in Rule)
         /\ \A j \in Incident \ {i} : incident'[j] = incident[j]
<1>1. [status |-> "open", mitigated_at |-> "null", title |-> title, fresh |-> title \in Rule]
        \in IncidentRow
  BY DEF IncidentRow, Status
<1>2. ~ Exists(i) /\ incident[i].status = "none"
  BY ExistsByStatus DEF Insert
<1> QED
  BY <1>1, <1>2 DEF Insert, TypeOK

LEMMA TypeOKStep == TypeOK /\ [Next]_vars => TypeOK'
<1> SUFFICES ASSUME TypeOK, [Next]_vars PROVE TypeOK'
  OBVIOUS
<1> USE IncidentsAssumption
<1>1. CASE UNCHANGED vars
  BY <1>1 DEF vars, TypeOK
<1>2. ASSUME NEW p \in Delivery, NEW f \in Fingerprint, Firing(p, f) PROVE TypeOK'
  BY <1>2 DEF Firing, TypeOK, history
<1>3. ASSUME NEW p \in Delivery, NEW f \in Fingerprint, Mitigate(p, f) PROVE TypeOK'
  <2>1. ASSUME NEW i \in Incident, Linked(i, f) /\ Mitigable(i)
        PROVE  [incident[i] EXCEPT !.status = "mitigated", !.mitigated_at = "recent"] \in IncidentRow
    <3>1. incident[i] \in IncidentRow
      BY <2>1, ExistsByStatus DEF Mitigable, ActiveRow, Active, Status
    <3> QED
      BY <3>1 DEF IncidentRow, Status
  <2>2. incident' \in [Incident -> IncidentRow \cup {NoIncident}]
    <3>1. ASSUME NEW i \in Incident PROVE incident'[i] \in IncidentRow \cup {NoIncident}
      <4>1. \/ /\ Linked(i, f) /\ Mitigable(i)
               /\ incident'[i] = [incident[i] EXCEPT !.status = "mitigated", !.mitigated_at = "recent"]
            \/ incident'[i] = incident[i]
        BY <1>3, Zenon DEF Mitigate
      <4>2. incident[i] \in IncidentRow \cup {NoIncident}
        BY DEF TypeOK
      <4> QED
        BY <4>1, <4>2, <2>1
    <3>2. incident' = [i \in Incident |-> incident'[i]]
      BY <1>3 DEF Mitigate
    <3> QED
      BY <3>1, <3>2
  <2>3. /\ delivery' = [delivery EXCEPT ![p] = Closing(f)]
        /\ UNCHANGED <<alert, tick, reopened, crossed, met, raced, ops>>
    BY <1>3 DEF Mitigate, history
  <2> QED
    BY <2>2, <2>3 DEF TypeOK
<1>4. ASSUME NEW p \in Delivery, CreateForAlert(p) PROVE TypeOK'
  <2>1. PICK i \in Incident :
          Insert(i, "other") /\ delivery' = [delivery EXCEPT ![p] = Linking(delivery[p].fingerprint, i)]
    BY <1>4 DEF CreateForAlert
  <2>2. incident' \in [Incident -> IncidentRow \cup {NoIncident}]
    BY <2>1, InsertType
  <2>3. delivery[p].fingerprint \in Fingerprint
    BY <1>4, DeliveryForms DEF CreateForAlert
  <2> QED
    BY <1>4, <2>1, <2>2, <2>3 DEF CreateForAlert, TypeOK, history
<1>5. ASSUME NEW p \in Delivery, LinkAlert(p) PROVE TypeOK'
  <2>1. delivery[p].fingerprint \in Fingerprint /\ delivery[p].incident \in Incident
    BY <1>5, DeliveryForms DEF LinkAlert
  <2>2. [fingerprint |-> delivery[p].fingerprint, status |-> "firing"] \in AlertRow
    BY <2>1 DEF AlertRow
  <2>3. met' \in [Run -> SUBSET Incident] /\ raced' \subseteq SUBSET Incident
    BY <1>5, <2>1, MeetType DEF LinkAlert, Run
  <2>4. alert' \in [Incident -> AlertRow \cup {NoAlert}]
    BY <1>5, <2>1, <2>2 DEF LinkAlert, TypeOK
  <2>5. crossed' \subseteq Incident
    BY <1>5, <2>1 DEF LinkAlert, TypeOK
  <2>6. /\ delivery' = [delivery EXCEPT ![p] = Idle]
        /\ UNCHANGED <<incident, tick, reopened, ops>>
    BY <1>5 DEF LinkAlert
  <2> QED
    BY <2>3, <2>4, <2>5, <2>6 DEF TypeOK
<1>6. ASSUME NEW p \in Delivery, CloseAlerts(p) PROVE TypeOK'
  <2>1. ASSUME NEW i \in Incident, Linked(i, delivery[p].fingerprint)
        PROVE  [alert[i] EXCEPT !.status = "resolved"] \in AlertRow
    BY <2>1 DEF Linked, TypeOK, AlertRow
  <2>2. alert' \in [Incident -> AlertRow \cup {NoAlert}]
    BY <1>6, <2>1 DEF CloseAlerts, TypeOK
  <2> QED
    BY <1>6, <2>2 DEF CloseAlerts, TypeOK, history
<1>7. ASSUME NEW p \in Delivery, DeliveryFails(p) PROVE TypeOK'
  BY <1>7, ForgetType DEF DeliveryFails, AfterFault, TypeOK
<1>8. ASSUME NEW p \in Tick, NEW r \in Rule, CheckRule(p, r) PROVE TypeOK'
  BY <1>8 DEF CheckRule, TypeOK, history
<1>9. ASSUME NEW p \in Tick, CreateForRule(p) PROVE TypeOK'
  <2>1. tick[p].rule \in Rule
    BY <1>9, TickForms DEF CreateForRule
  <2>2. PICK i \in Incident :
          Insert(i, tick[p].rule) /\ Meet(p, i, AboutToAdd(tick[p].rule))
    BY <1>9 DEF CreateForRule
  <2>3. incident' \in [Incident -> IncidentRow \cup {NoIncident}]
    BY <2>1, <2>2, InsertType
  <2>4. met' \in [Run -> SUBSET Incident] /\ raced' \subseteq SUBSET Incident
    BY <2>2, MeetType DEF Run
  <2> QED
    BY <1>9, <2>3, <2>4 DEF CreateForRule, TypeOK
<1>10. ASSUME NEW p \in Tick, LeaveRule(p) PROVE TypeOK'
  BY <1>10, ForgetType DEF LeaveRule, TypeOK
<1>11. ASSUME NEW D \in SUBSET Delivery, NEW T \in SUBSET Tick, Crash(D, T) PROVE TypeOK'
  BY <1>11, ForgetType DEF Crash, TypeOK
<1>12. CASE CreateByHand
  <2>1. incident' \in [Incident -> IncidentRow \cup {NoIncident}]
    BY <1>12, InsertType DEF CreateByHand
  <2> QED
    BY <1>12, <2>1 DEF CreateByHand, Operate, TypeOK
<1>13. ASSUME NEW i \in Incident, Suppress(i) PROVE TypeOK'
  <2>1. [alert[i] EXCEPT !.status = "suppressed"] \in AlertRow
    BY <1>13 DEF Suppress, Suppressible, TypeOK, AlertRow
  <2> QED
    BY <1>13, <2>1 DEF Suppress, Operate, TypeOK
<1>14. ASSUME NEW i \in Incident, NEW s \in Status, Patch(i, s) PROVE TypeOK'
  <2>1. incident[i] \in IncidentRow
    BY <1>14, ExistsByStatus DEF Patch
  <2>2. [incident[i] EXCEPT !.status = s] \in IncidentRow
    BY <2>1 DEF IncidentRow
  <2> QED
    BY <1>14, <2>2 DEF Patch, Operate, TypeOK
<1>15. CASE AutoResolveStale
  <2>1. ASSUME NEW i \in Incident, Stale(i)
        PROVE  [incident[i] EXCEPT !.status = "resolved"] \in IncidentRow
    <3>1. incident[i] \in IncidentRow
      BY <2>1, ExistsByStatus DEF Stale, Status
    <3> QED
      BY <3>1 DEF IncidentRow, Status
  <2>2. incident' \in [Incident -> IncidentRow \cup {NoIncident}]
    BY <1>15, <2>1 DEF AutoResolveStale, TypeOK
  <2> QED
    BY <1>15, <2>2 DEF AutoResolveStale, TypeOK, history
<1>16. ASSUME NEW i \in Incident, CooldownPasses(i) \/ DayPasses(i) PROVE TypeOK'
  <2>1. incident[i] \in IncidentRow
    BY <1>16, ExistsByStatus DEF CooldownPasses, DayPasses
  <2>2. /\ [incident[i] EXCEPT !.fresh = FALSE] \in IncidentRow
        /\ [incident[i] EXCEPT !.mitigated_at = "old"] \in IncidentRow
    BY <2>1 DEF IncidentRow
  <2>3. incident' \in [Incident -> IncidentRow \cup {NoIncident}]
    <3>1. CASE incident' = [incident EXCEPT ![i] = [incident[i] EXCEPT !.fresh = FALSE]]
      BY <3>1, <2>2 DEF TypeOK
    <3>2. CASE incident' = [incident EXCEPT ![i] = [incident[i] EXCEPT !.mitigated_at = "old"]]
      BY <3>2, <2>2 DEF TypeOK
    <3> QED
      BY <1>16, <3>1, <3>2 DEF CooldownPasses, DayPasses
  <2> QED
    BY <1>16, <2>3 DEF CooldownPasses, DayPasses, TypeOK, history
<1> QED
  BY <1>1, <1>2, <1>3, <1>4, <1>5, <1>6, <1>7, <1>8, <1>9, <1>10, <1>11, <1>12,
     <1>13, <1>14, <1>15, <1>16 DEF Next, Webhook, Deliver

-----------------------------------------------------------------------------
(* What a step does to one incident *)

Inserted(i) == incident[i].status = "none" /\ ~ Exists(i) /\ incident'[i].status = "open"
Mitigated(i) == ActiveRow(i) /\ incident'[i].status = "mitigated"
Resolved(i) == incident[i].status = "mitigated" /\ incident'[i].status = "resolved"
Kept(i) == incident'[i].status = incident[i].status

LEMMA MitigateMoves ==
  ASSUME TypeOK, NEW p \in Delivery, NEW f \in Fingerprint, Mitigate(p, f), NEW i \in Incident
  PROVE  /\ Kept(i) \/ Mitigated(i)
         /\ Linked(i, f) => ~ ActiveRow(i)'
<1>1. CASE Linked(i, f) /\ Mitigable(i)
  <2>1. incident[i] \in IncidentRow
    BY <1>1, ExistsByStatus DEF Mitigable, ActiveRow, Active, Status
  <2>2. incident'[i] = [incident[i] EXCEPT !.status = "mitigated", !.mitigated_at = "recent"]
    BY <1>1, Zenon DEF Mitigate
  <2>3. incident'[i].status = "mitigated"
    BY <2>1, <2>2 DEF IncidentRow
  <2> QED
    BY <1>1, <2>3 DEF Mitigated, Mitigable, ActiveRow, Active
<1>2. CASE ~ (Linked(i, f) /\ Mitigable(i))
  <2>1. incident'[i] = incident[i]
    BY <1>2, Zenon DEF Mitigate
  <2> QED
    BY <1>2, <2>1 DEF Kept, Mitigable, ActiveRow
<1> QED
  BY <1>1, <1>2

LEMMA AutoResolveMoves ==
  ASSUME TypeOK, AutoResolveStale, NEW i \in Incident
  PROVE  Kept(i) \/ Resolved(i)
<1>1. CASE Stale(i)
  <2>1. incident[i] \in IncidentRow
    BY <1>1, ExistsByStatus DEF Stale, Status
  <2>2. incident'[i] = [incident[i] EXCEPT !.status = "resolved"]
    BY <1>1, Zenon DEF AutoResolveStale
  <2> QED
    BY <1>1, <2>1, <2>2 DEF Resolved, Stale, IncidentRow
<1>2. CASE ~ Stale(i)
  <2>1. incident'[i] = incident[i]
    BY <1>2, Zenon DEF AutoResolveStale
  <2> QED
    BY <2>1 DEF Kept
<1> QED
  BY <1>1, <1>2

LEMMA InsertMoves ==
  ASSUME TypeOK, NEW k \in Incident, NEW title \in Rule \cup {"other"}, Insert(k, title),
         NEW i \in Incident
  PROVE  Kept(i) \/ Inserted(i)
  BY InsertType DEF Kept, Inserted

LEMMA TimeMoves ==
  ASSUME TypeOK, NEW k \in Incident, CooldownPasses(k) \/ DayPasses(k), NEW i \in Incident
  PROVE  Kept(i)
<1>1. incident[k] \in IncidentRow
  BY ExistsByStatus DEF CooldownPasses, DayPasses
<1>2. CASE incident' = [incident EXCEPT ![k] = [incident[k] EXCEPT !.fresh = FALSE]]
  BY <1>1, <1>2 DEF Kept, TypeOK, IncidentRow
<1>3. CASE incident' = [incident EXCEPT ![k] = [incident[k] EXCEPT !.mitigated_at = "old"]]
  BY <1>1, <1>3 DEF Kept, TypeOK, IncidentRow
<1> QED
  BY <1>2, <1>3 DEF CooldownPasses, DayPasses

LEMMA PatchMoves ==
  ASSUME TypeOK, NEW k \in Incident, NEW s \in Status, Patch(k, s), NEW i \in Incident
  PROVE  /\ i # k => incident'[i] = incident[i]
         /\ Exists(k) /\ incident'[k].status = s
<1>1. incident[k] \in IncidentRow
  BY ExistsByStatus DEF Patch
<1>2. incident' = [incident EXCEPT ![k] = [incident[k] EXCEPT !.status = s]]
  BY DEF Patch
<1> QED
  BY <1>1, <1>2 DEF Patch, TypeOK, IncidentRow

\* The steps without an operator.
LEMMA StatusMoves ==
  ASSUME TypeOK, Next, ops' = ops, NEW i \in Incident
  PROVE  Kept(i) \/ Inserted(i) \/ Mitigated(i) \/ Resolved(i)
<1>0. ~ Operate
  BY DEF Operate, TypeOK
<1>1. ASSUME NEW p \in Delivery, NEW f \in Fingerprint, Firing(p, f) \/ Mitigate(p, f)
      PROVE  Kept(i) \/ Mitigated(i)
  BY <1>1, MitigateMoves DEF Firing, Kept
<1>2. ASSUME NEW p \in Delivery, Deliver(p) PROVE Kept(i) \/ Inserted(i)
  BY <1>2, InsertMoves DEF Deliver, CreateForAlert, LinkAlert, CloseAlerts, Kept
<1>3. ASSUME NEW p \in Tick, CreateForRule(p) PROVE Kept(i) \/ Inserted(i)
  BY <1>3, TickForms, InsertMoves DEF CreateForRule
<1>4. ASSUME NEW p \in Tick, LeaveRule(p) \/ \E r \in Rule : CheckRule(p, r) PROVE Kept(i)
  BY <1>4 DEF LeaveRule, CheckRule, Kept
<1>5. ASSUME \/ \E p \in Delivery : DeliveryFails(p)
             \/ \E D \in SUBSET Delivery, T \in SUBSET Tick : Crash(D, T)
      PROVE  Kept(i)
  BY <1>5 DEF DeliveryFails, Crash, Kept
<1> QED
  BY <1>0, <1>1, <1>2, <1>3, <1>4, <1>5, TimeMoves, AutoResolveMoves
     DEF Next, Webhook, CreateByHand, Suppress, Patch

\* Whatever the processes do and however late, only an operator takes an
\* incident back.  (handleAlertWebhook, autoResolveStale)
THEOREM OnlyOperatorsReopenAlways == Spec => OnlyOperatorsReopen
<1>1. TypeOK /\ [Next]_vars => [ops' = ops =>
        \A i \in Incident : Rank(incident[i].status) <= Rank(incident'[i].status)]_vars
  <2> SUFFICES ASSUME TypeOK, Next, ops' = ops, NEW i \in Incident
               PROVE  Rank(incident[i].status) <= Rank(incident'[i].status)
    OBVIOUS
  <2>1. Rank(incident[i].status) \in 0 .. 4
    BY Ranks, ExistsByStatus DEF Status
  <2> QED
    BY <2>1, StatusMoves, Ranks DEF Kept, Inserted, Mitigated, Resolved, ActiveRow, Active
<1> QED
  BY <1>1, TypeOKInit, TypeOKStep, PTL DEF Spec, OnlyOperatorsReopen

-----------------------------------------------------------------------------
(* Active means firing *)

LEMMA FiringInvInit == Init => FiringInv
  BY TypeOKInit DEF Init, FiringInv, RowsBehind, ClosingLeftNone, ActiveMeansFiring, Idle, Closing,
     NoAlert, Linked

\* Rows go on existing, and what becomes active is new or reopened.
Onward(i) ==
  /\ Exists(i) => Exists(i)'
  /\ ActiveRow(i)' => ActiveRow(i) \/ ~ Exists(i) \/ i \in reopened'

LEMMA MovesOnward ==
  ASSUME TypeOK, TypeOK', NEW i \in Incident, Kept(i) \/ Inserted(i) \/ Mitigated(i) \/ Resolved(i)
  PROVE  Onward(i)
<1>1. Exists(i) => Exists(i)'
  <2>1. Exists(i) <=> incident[i].status \in Status
    BY ExistsByStatus
  <2>2. incident'[i].status \in Status => Exists(i)'
    BY DEF Exists, NoIncident, Status, TypeOK
  <2> QED
    BY <2>1, <2>2 DEF Kept, Inserted, Mitigated, Resolved, Status
<1> QED
  BY <1>1 DEF Kept, Inserted, Mitigated, Resolved, ActiveRow, Active, Onward

\* A step that links nothing and closes nothing: no delivery takes up either,
\* and an alert's row stays or is suppressed.
LEMMA FiringInvKept ==
  ASSUME FiringInv, TypeOK',
         \A i \in Incident : Onward(i),
         \A i \in Incident :
           \/ alert'[i] = alert[i]
           \/ /\ alert[i] # NoAlert
              /\ alert'[i].fingerprint = alert[i].fingerprint /\ alert'[i].status # "resolved",
         \A p \in Delivery :
           \/ delivery'[p] = delivery[p]
           \/ delivery'[p].at \notin {"linking", "closing"}
           \/ delivery'[p].at = "linking" /\ incident'[delivery'[p].incident] # NoIncident,
         \A p \in Delivery : delivery'[p].at = "linking" => delivery'[p].incident \in Incident,
         reopened \subseteq reopened', crossed' = crossed
  PROVE  FiringInv'
<1> USE DEF FiringInv
<1>1. RowsBehind'
  <2>1. ASSUME NEW i \in Incident, alert'[i] # NoAlert PROVE Exists(i)'
    BY <2>1 DEF RowsBehind, Onward
  <2>2. ASSUME NEW p \in Delivery, delivery'[p].at = "linking" PROVE incident'[delivery'[p].incident] # NoIncident
    BY <2>2 DEF RowsBehind, Onward, Exists
  <2> QED
    BY <2>1, <2>2 DEF RowsBehind, Exists
<1>2. ClosingLeftNone'
  <2> SUFFICES ASSUME NEW p \in Delivery, NEW f \in Fingerprint, NEW i \in Incident,
                      delivery'[p] = Closing(f), Linked(i, f)', ActiveRow(i)'
               PROVE  i \in crossed' \cup reopened'
    BY DEF ClosingLeftNone
  <2>1. delivery[p] = Closing(f)
    BY DEF Closing
  <2>2. Linked(i, f)
    BY DEF Linked
  <2>3. Exists(i)
    BY <2>2 DEF RowsBehind, Linked
  <2> QED
    BY <2>1, <2>2, <2>3 DEF Onward, ClosingLeftNone
<1>3. ActiveMeansFiring'
  <2> SUFFICES ASSUME NEW i \in Incident, alert'[i].status = "resolved", ActiveRow(i)'
               PROVE  i \in crossed' \cup reopened'
    BY DEF ActiveMeansFiring
  <2>1. alert[i].status = "resolved"
    OBVIOUS
  <2>2. alert[i] # NoAlert
    BY <2>1 DEF NoAlert
  <2> QED
    BY <2>1, <2>2 DEF Onward, ActiveMeansFiring, RowsBehind
<1> QED
  BY <1>1, <1>2, <1>3

\* Deliveries that end, or that only look for an incident.
LEMMA DeliveryStays ==
  ASSUME FiringInv, TypeOK',
         \A q \in Delivery :
           delivery'[q] = delivery[q] \/ delivery'[q].at \notin {"linking", "closing"}
  PROVE  \A q \in Delivery : delivery'[q].at = "linking" => delivery'[q].incident \in Incident
<1>1. \A q \in Delivery : delivery[q].at = "linking" => delivery[q].incident \in Incident
  BY DeliveryForms DEF FiringInv
<1> QED
  BY <1>1

LEMMA FiringInvLink ==
  ASSUME FiringInv, TypeOK', NEW p \in Delivery, LinkAlert(p)
  PROVE  FiringInv'
<1> USE DEF FiringInv
<1> DEFINE k == delivery[p].incident
           g == delivery[p].fingerprint
<1>1. k \in Incident /\ g \in Fingerprint /\ Exists(k)
  BY DeliveryForms DEF LinkAlert, RowsBehind
<1>2. /\ alert'[k] = [fingerprint |-> g, status |-> "firing"]
      /\ \A i \in Incident \ {k} : alert'[i] = alert[i]
  BY <1>1 DEF LinkAlert, TypeOK
<1>3. delivery'[p] = Idle /\ \A q \in Delivery \ {p} : delivery'[q] = delivery[q]
  BY DEF LinkAlert, TypeOK
<1>4. /\ incident' = incident /\ reopened' = reopened /\ crossed \subseteq crossed'
      /\ (\E q \in Delivery : delivery[q] = Closing(g)) => k \in crossed'
  BY DEF LinkAlert
<1>5. RowsBehind'
  BY <1>1, <1>2, <1>3, <1>4 DEF RowsBehind, Exists, Idle
<1>6. ClosingLeftNone'
  <2> SUFFICES ASSUME NEW q \in Delivery, NEW f \in Fingerprint, NEW i \in Incident,
                      delivery'[q] = Closing(f), Linked(i, f)', ActiveRow(i)'
               PROVE  i \in crossed' \cup reopened'
    BY DEF ClosingLeftNone
  <2>1. delivery[q] = Closing(f)
    BY <1>3 DEF Idle, Closing
  <2>2. CASE i = k
    BY <2>1, <2>2, <1>2, <1>4 DEF Linked
  <2>3. CASE i # k
    BY <2>1, <2>3, <1>2, <1>4 DEF Linked, ActiveRow, ClosingLeftNone
  <2> QED
    BY <2>2, <2>3
<1>7. ActiveMeansFiring'
  BY <1>2, <1>4 DEF ActiveMeansFiring, ActiveRow
<1> QED
  BY <1>5, <1>6, <1>7

LEMMA FiringInvMitigate ==
  ASSUME FiringInv, TypeOK', NEW p \in Delivery, NEW f \in Fingerprint, Mitigate(p, f)
  PROVE  FiringInv'
<1> USE DEF FiringInv
<1>1. /\ delivery'[p] = Closing(f) /\ \A q \in Delivery \ {p} : delivery'[q] = delivery[q]
      /\ UNCHANGED <<alert, reopened, crossed>>
  <2>1. delivery' = [delivery EXCEPT ![p] = Closing(f)] /\ UNCHANGED <<alert, reopened, crossed>>
    BY DEF Mitigate, history
  <2> QED
    BY <2>1 DEF TypeOK
<1>2. \A i \in Incident : Onward(i) /\ (ActiveRow(i)' => ActiveRow(i)) /\ (Linked(i, f) => ~ ActiveRow(i)')
  BY MitigateMoves, MovesOnward DEF Kept, Mitigated, ActiveRow, Active
<1>3. RowsBehind'
  <2>1. \A q \in Delivery : delivery[q].at = "linking" => delivery[q].incident \in Incident
    BY DeliveryForms
  <2>2. \A q \in Delivery : delivery'[q].at = "linking" => delivery'[q] = delivery[q]
    BY <1>1 DEF Closing
  <2>3. \A q \in Delivery : delivery'[q].at = "linking" => incident'[delivery'[q].incident] # NoIncident
    BY <1>2, <2>1, <2>2 DEF RowsBehind, Onward, Exists
  <2>4. \A i \in Incident : alert'[i] # NoAlert => Exists(i)'
    BY <1>1, <1>2 DEF RowsBehind, Onward
  <2> QED
    BY <2>3, <2>4 DEF RowsBehind, Exists
<1>4. ClosingLeftNone'
  <2> SUFFICES ASSUME NEW q \in Delivery, NEW h \in Fingerprint, NEW i \in Incident,
                      delivery'[q] = Closing(h), Linked(i, h)', ActiveRow(i)'
               PROVE  i \in crossed' \cup reopened'
    BY DEF ClosingLeftNone
  <2>1. Linked(i, h)
    BY <1>1 DEF Linked
  <2>2. CASE q = p
    BY <2>1, <2>2, <1>1, <1>2 DEF Closing
  <2>3. CASE q # p
    BY <2>1, <2>3, <1>1, <1>2 DEF ClosingLeftNone
  <2> QED
    BY <2>2, <2>3
<1>5. ActiveMeansFiring'
  BY <1>1, <1>2 DEF ActiveMeansFiring
<1> QED
  BY <1>3, <1>4, <1>5

LEMMA FiringInvClose ==
  ASSUME FiringInv, TypeOK', NEW p \in Delivery, CloseAlerts(p)
  PROVE  FiringInv'
<1> USE DEF FiringInv
<1> DEFINE f == delivery[p].fingerprint
<1>1. f \in Fingerprint /\ delivery[p] = Closing(f)
  BY DeliveryForms DEF CloseAlerts
<1>2. delivery'[p] = Idle /\ \A q \in Delivery \ {p} : delivery'[q] = delivery[q]
  BY DEF CloseAlerts, TypeOK
<1>3. UNCHANGED <<incident, reopened, crossed>>
  BY DEF CloseAlerts, history
<1>4. ASSUME NEW i \in Incident
      PROVE  \/ alert'[i] = alert[i]
             \/ /\ Linked(i, f) /\ alert'[i].fingerprint = alert[i].fingerprint
  <2>1. CASE Linked(i, f) /\ alert[i].status = "firing"
    <3>1. alert[i] \in AlertRow
      BY <2>1 DEF Linked, TypeOK
    <3>2. alert'[i] = [alert[i] EXCEPT !.status = "resolved"]
      BY <2>1, Zenon DEF CloseAlerts
    <3> QED
      BY <2>1, <3>1, <3>2 DEF AlertRow
  <2>2. CASE ~ (Linked(i, f) /\ alert[i].status = "firing")
    BY <2>2, Zenon DEF CloseAlerts
  <2> QED
    BY <2>1, <2>2
<1>5. RowsBehind'
  BY <1>2, <1>3, <1>4 DEF RowsBehind, Exists, Linked, Idle
<1>6. ClosingLeftNone'
  <2> SUFFICES ASSUME NEW q \in Delivery, NEW h \in Fingerprint, NEW i \in Incident,
                      delivery'[q] = Closing(h), Linked(i, h)', ActiveRow(i)'
               PROVE  i \in crossed' \cup reopened'
    BY DEF ClosingLeftNone
  <2>1. delivery[q] = Closing(h)
    BY <1>2 DEF Idle, Closing
  <2>2. Linked(i, h)
    BY <1>4 DEF Linked
  <2> QED
    BY <2>1, <2>2, <1>3 DEF ClosingLeftNone, ActiveRow
<1>7. ActiveMeansFiring'
  <2> SUFFICES ASSUME NEW i \in Incident, alert'[i].status = "resolved", ActiveRow(i)'
               PROVE  i \in crossed' \cup reopened'
    BY DEF ActiveMeansFiring
  <2>1. ActiveRow(i)
    BY <1>3 DEF ActiveRow
  <2>2. CASE alert'[i] = alert[i]
    BY <2>1, <2>2, <1>3 DEF ActiveMeansFiring
  <2>3. CASE Linked(i, f)
    BY <2>1, <2>3, <1>1, <1>3 DEF ClosingLeftNone
  <2> QED
    BY <2>2, <2>3, <1>4
<1> QED
  BY <1>5, <1>6, <1>7

\* The operator's own status change is the one that reopens.
LEMMA FiringInvPatch ==
  ASSUME FiringInv, TypeOK', NEW k \in Incident, NEW s \in Status, Patch(k, s)
  PROVE  FiringInv'
<1> USE DEF FiringInv
<1>1. /\ \A i \in Incident \ {k} : incident'[i] = incident[i]
      /\ Exists(k) /\ incident'[k].status = s
  BY PatchMoves
<1>2. /\ UNCHANGED <<alert, delivery, crossed>> /\ reopened \subseteq reopened'
      /\ s \in Active /\ ~ ActiveRow(k) => k \in reopened'
  BY DEF Patch
<1>3. ASSUME NEW i \in Incident PROVE Onward(i)
  <2>1. CASE i = k
    <3>1. Exists(k)'
      BY <1>1 DEF Exists, NoIncident, Status
    <3> QED
      BY <2>1, <3>1, <1>1, <1>2 DEF Onward, ActiveRow
  <2>2. CASE i # k
    BY <2>2, <1>1 DEF Onward, ActiveRow, Exists
  <2> QED
    BY <2>1, <2>2
<1>4. \A p \in Delivery : delivery'[p].at = "linking" => delivery'[p].incident \in Incident
  BY <1>2, DeliveryForms
<1> QED
  BY <1>2, <1>3, <1>4, FiringInvKept

LEMMA FiringInvStep == FiringInv /\ [Next]_vars => FiringInv'
<1> SUFFICES ASSUME FiringInv, [Next]_vars PROVE FiringInv'
  OBVIOUS
<1> USE DEF FiringInv
<1>1. TypeOK'
  BY TypeOKStep
<1>2. \A p \in Delivery : delivery[p].at = "linking" => delivery[p].incident \in Incident
  BY DeliveryForms
<1>3. CASE UNCHANGED vars
  BY <1>3 DEF vars, RowsBehind, ClosingLeftNone, ActiveMeansFiring, TypeOK, Exists, ActiveRow, Linked
\* The incidents' rows move and nothing else, or only a tick does.
<1>4. ASSUME \A i \in Incident : Kept(i) \/ Inserted(i) \/ Mitigated(i) \/ Resolved(i),
             UNCHANGED <<alert, delivery, reopened, crossed>>
      PROVE  FiringInv'
  <2>1. \A i \in Incident : Onward(i)
    BY <1>1, <1>4, MovesOnward
  <2> QED
    BY <1>1, <1>2, <1>4, <2>1, FiringInvKept
\* A delivery moves, and the incidents stay or get one more row.
<1>5. ASSUME \A q \in Delivery :
               delivery'[q] = delivery[q] \/ delivery'[q].at \notin {"linking", "closing"},
             UNCHANGED <<incident, alert, reopened, crossed>>
      PROVE  FiringInv'
  <2>1. \A i \in Incident : Onward(i)
    BY <1>1, <1>5, MovesOnward DEF Kept
  <2>2. \A q \in Delivery : delivery'[q].at = "linking" => delivery'[q].incident \in Incident
    BY <1>1, <1>5, DeliveryStays
  <2> QED
    BY <1>1, <1>5, <2>1, <2>2, FiringInvKept
<1>6. ASSUME NEW p \in Delivery, NEW f \in Fingerprint, Firing(p, f) PROVE FiringInv'
  <2>1. Finding(f).at = "finding" /\ delivery' = [delivery EXCEPT ![p] = Finding(f)]
    BY <1>6 DEF Finding, Firing
  <2>2. \A q \in Delivery :
          delivery'[q] = delivery[q] \/ delivery'[q].at \notin {"linking", "closing"}
    BY <2>1 DEF TypeOK
  <2> QED
    BY <1>5, <1>6, <2>2 DEF Firing, history
<1>7. ASSUME NEW p \in Delivery, CreateForAlert(p) PROVE FiringInv'
  <2>1. PICK k \in Incident :
          Insert(k, "other") /\ delivery' = [delivery EXCEPT ![p] = Linking(delivery[p].fingerprint, k)]
    BY <1>7 DEF CreateForAlert
  <2>2. \A i \in Incident : Onward(i)
    BY <1>1, <2>1, InsertMoves, MovesOnward
  <2>3. delivery'[p] = Linking(delivery[p].fingerprint, k) /\ \A q \in Delivery \ {p} : delivery'[q] = delivery[q]
    BY <2>1 DEF TypeOK
  <2>4. delivery'[p].incident = k /\ delivery'[p].at = "linking"
    BY <2>3 DEF Linking
  <2>5. incident'[k] # NoIncident
    BY <2>1, InsertType DEF IncidentRow, NoIncident, Status
  <2>6. UNCHANGED <<alert, reopened, crossed>>
    BY <1>7 DEF CreateForAlert, history
  <2>7. \A q \in Delivery : delivery'[q].at = "linking" => delivery'[q].incident \in Incident
    BY <2>3, <2>4, <1>2
  <2>8. \A q \in Delivery :
          \/ delivery'[q] = delivery[q]
          \/ delivery'[q].at = "linking" /\ incident'[delivery'[q].incident] # NoIncident
    BY <2>3, <2>4, <2>5
  <2> QED
    BY <1>1, <2>2, <2>6, <2>7, <2>8, FiringInvKept
<1>8. ASSUME \/ \E p \in Delivery : DeliveryFails(p)
             \/ \E D \in SUBSET Delivery, T \in SUBSET Tick : Crash(D, T)
      PROVE  FiringInv'
  <2>1. \A q \in Delivery : delivery'[q] = delivery[q] \/ delivery'[q] = Idle
    <3>1. CASE \E p \in Delivery : DeliveryFails(p)
      BY <1>1, <3>1 DEF DeliveryFails, AfterFault, TypeOK
    <3>2. CASE \E D \in SUBSET Delivery, T \in SUBSET Tick : Crash(D, T)
      BY <3>2 DEF Crash
    <3> QED
      BY <1>8, <3>1, <3>2
  <2>2. Idle.at = "idle" /\ UNCHANGED <<incident, alert, reopened, crossed>>
    BY <1>8 DEF DeliveryFails, Crash, Idle
  <2> QED
    BY <1>5, <2>1, <2>2
<1>9. ASSUME NEW p \in Tick,
             LeaveRule(p) \/ CreateForRule(p) \/ \E r \in Rule : CheckRule(p, r)
      PROVE  FiringInv'
  <2>1. \A i \in Incident : Kept(i) \/ Inserted(i)
    BY <1>9, TickForms, InsertMoves DEF CheckRule, LeaveRule, CreateForRule, Kept
  <2> QED
    BY <1>4, <1>9, <2>1 DEF CheckRule, LeaveRule, CreateForRule, history
<1>10. CASE CreateByHand
  BY <1>4, <1>10, InsertMoves DEF CreateByHand
<1>11. ASSUME NEW k \in Incident, Suppress(k) PROVE FiringInv'
  <2>1. \A i \in Incident : Onward(i)
    BY <1>1, <1>11, MovesOnward DEF Suppress, Kept
  <2>2. alert[k] \in AlertRow /\ alert[k] # NoAlert
    BY <1>11 DEF Suppress, Suppressible, TypeOK
  <2>3. alert'[k].fingerprint = alert[k].fingerprint /\ alert'[k].status = "suppressed"
    BY <1>11, <2>2 DEF Suppress, TypeOK, AlertRow
  <2>4. \A i \in Incident \ {k} : alert'[i] = alert[i]
    BY <1>11 DEF Suppress, TypeOK
  <2> QED
    BY <1>1, <1>2, <1>11, <2>1, <2>2, <2>3, <2>4, FiringInvKept DEF Suppress
<1>12. CASE AutoResolveStale
  BY <1>4, <1>12, AutoResolveMoves DEF AutoResolveStale, history
<1>13. ASSUME NEW k \in Incident, CooldownPasses(k) \/ DayPasses(k) PROVE FiringInv'
  BY <1>4, <1>13, TimeMoves DEF CooldownPasses, DayPasses, history
<1> QED
  BY <1>1, <1>3, <1>6, <1>7, <1>8, <1>9, <1>10, <1>11, <1>12, <1>13, FiringInvLink,
     FiringInvMitigate, FiringInvClose, FiringInvPatch DEF Next, Webhook, Deliver

\* For any alerts and deliveries: an incident outlives its alert's resolution only
\* if it was linked in the middle of it or reopened.  (handleAlertWebhook)
THEOREM ActiveMeansFiringAlways == Spec => []ActiveMeansFiring
<1>1. FiringInv => ActiveMeansFiring
  BY DEF FiringInv
<1> QED
  BY <1>1, FiringInvInit, FiringInvStep, PTL DEF Spec

-----------------------------------------------------------------------------
(* Duplicates *)

\* A run that is about to add an incident has met every one opened for its alert,
\* or made for its rule, since it looked: there was none when it did.
AlertsMet ==
  /\ \A f \in Fingerprint : \A d \in Adding(f) : OpenFor(f) \subseteq met[d]
  /\ \A f \in Fingerprint : \A i, j \in OpenFor(f) : i = j \/ {i, j} \in raced
RulesMet ==
  /\ \A r \in Rule : \A t \in AboutToAdd(r) : FreshFor(r) \subseteq met[t]
  /\ \A r \in Rule : \A i, j \in FreshFor(r) : i = j \/ {i, j} \in raced

LEMMA StepOnward ==
  ASSUME TypeOK, TypeOK', Next, NEW i \in Incident
  PROVE  Onward(i) /\ reopened \subseteq reopened'
<1>1. CASE ops' = ops
  <2>1. Onward(i)
    BY <1>1, StatusMoves, MovesOnward
  <2>2. ~ Operate
    BY <1>1 DEF Operate, TypeOK
  <2>3. reopened' = reopened
    BY <2>2 DEF Next, Webhook, Firing, Mitigate, Deliver, CreateForAlert, LinkAlert, CloseAlerts,
       DeliveryFails, CheckRule, CreateForRule, LeaveRule, Crash, CreateByHand, Suppress, Patch,
       AutoResolveStale, CooldownPasses, DayPasses, history
  <2> QED
    BY <2>1, <2>3
<1>2. CASE CreateByHand
  BY <1>2, InsertMoves, MovesOnward DEF CreateByHand
<1>3. ASSUME NEW k \in Incident, Suppress(k) PROVE Onward(i) /\ reopened \subseteq reopened'
  BY <1>3, MovesOnward DEF Suppress, Kept
<1>4. ASSUME NEW k \in Incident, NEW s \in Status, Patch(k, s)
      PROVE  Onward(i) /\ reopened \subseteq reopened'
  <2>1. /\ i # k => incident'[i] = incident[i]
        /\ Exists(k) /\ incident'[k].status = s
    BY <1>4, PatchMoves
  <2>2. /\ reopened \subseteq reopened'
        /\ s \in Active /\ ~ ActiveRow(k) => k \in reopened'
    BY <1>4 DEF Patch
  <2>3. incident'[i].status \in Status => Exists(i)'
    BY DEF Exists, NoIncident, Status
  <2> QED
    BY <2>1, <2>2, <2>3 DEF Onward, ActiveRow, Exists
<1>5. CASE ops' # ops
  BY <1>2, <1>3, <1>4, <1>5 DEF Next, Webhook, Firing, Mitigate, Deliver, CreateForAlert, LinkAlert,
     CloseAlerts, DeliveryFails, CheckRule, CreateForRule, LeaveRule, Crash, AutoResolveStale,
     CooldownPasses, DayPasses, history
<1> QED
  BY <1>1, <1>5

\* Only LinkAlert links.
LEMMA LinksStay ==
  ASSUME TypeOK, Next, NEW i \in Incident, NEW f \in Fingerprint,
         \A p \in Delivery : ~ LinkAlert(p), Linked(i, f)'
  PROVE  Linked(i, f)
<1>1. CASE alert' = alert
  BY <1>1 DEF Linked
<1>2. ASSUME NEW p \in Delivery, CloseAlerts(p) PROVE Linked(i, f)
  <2>1. CASE Linked(i, delivery[p].fingerprint) /\ alert[i].status = "firing"
    <3>1. alert[i] \in AlertRow
      BY <2>1 DEF Linked, TypeOK
    <3>2. alert'[i] = [alert[i] EXCEPT !.status = "resolved"]
      BY <1>2, <2>1, Zenon DEF CloseAlerts
    <3>3. alert'[i].fingerprint = alert[i].fingerprint
      BY <3>1, <3>2 DEF AlertRow
    <3> QED
      BY <2>1, <3>3 DEF Linked
  <2>2. CASE ~ (Linked(i, delivery[p].fingerprint) /\ alert[i].status = "firing")
    <3>1. alert'[i] = alert[i]
      BY <1>2, <2>2, Zenon DEF CloseAlerts
    <3> QED
      BY <3>1 DEF Linked
  <2> QED
    BY <2>1, <2>2
<1>3. ASSUME NEW k \in Incident, Suppress(k) PROVE Linked(i, f)
  <2>1. alert[k] \in AlertRow /\ alert[k] # NoAlert
    BY <1>3 DEF Suppress, Suppressible, TypeOK
  <2>2. /\ alert'[k].fingerprint = alert[k].fingerprint
        /\ \A j \in Incident \ {k} : alert'[j] = alert[j]
    BY <1>3, <2>1 DEF Suppress, TypeOK, AlertRow
  <2> QED
    BY <2>1, <2>2 DEF Linked
<1>4. alert' = alert \/ (\E p \in Delivery : CloseAlerts(p)) \/ \E k \in Incident : Suppress(k)
  BY DEF Next, Webhook, Firing, Mitigate, Deliver, CreateForAlert,
     DeliveryFails, CheckRule, CreateForRule, LeaveRule, Crash, CreateByHand, Patch,
     AutoResolveStale, CooldownPasses, DayPasses, history
<1> QED
  BY <1>1, <1>2, <1>3, <1>4

LEMMA OpenForShrinks ==
  ASSUME FiringInv, TypeOK', Next, NEW f \in Fingerprint, \A p \in Delivery : ~ LinkAlert(p)
  PROVE  OpenFor(f)' \subseteq OpenFor(f)
<1> USE DEF FiringInv
<1> SUFFICES ASSUME NEW i \in Incident, Linked(i, f)', ActiveRow(i)', i \notin reopened'
             PROVE  Linked(i, f) /\ ActiveRow(i) /\ i \notin reopened
  BY DEF OpenFor
<1>1. Linked(i, f)
  BY LinksStay
<1>2. Exists(i)
  BY <1>1 DEF RowsBehind, Linked
<1> QED
  BY <1>1, <1>2, StepOnward DEF Onward

\* Deliveries that move without beginning one.
LEMMA AddingShrinks ==
  ASSUME TypeOK, Next, NEW f \in Fingerprint, \A p \in Delivery : ~ Firing(p, f)
  PROVE  Adding(f)' \subseteq Adding(f)
<1> SUFFICES ASSUME NEW q \in Delivery, delivery'[q].at \in {"finding", "linking"},
                    delivery'[q].fingerprint = f
             PROVE  delivery[q].at \in {"finding", "linking"} /\ delivery[q].fingerprint = f
  BY DEF Adding
<1>1. ASSUME NEW p \in Delivery, NEW g \in Fingerprint, Firing(p, g)
      PROVE  delivery'[q] = delivery[q]
  <2>1. g # f /\ delivery' = [delivery EXCEPT ![p] = Finding(g)]
    BY <1>1 DEF Firing
  <2>2. Finding(g).fingerprint = g
    BY DEF Finding
  <2> QED
    BY <2>1, <2>2 DEF TypeOK
<1>2. ASSUME NEW p \in Delivery, NEW g \in Fingerprint, Mitigate(p, g)
      PROVE  delivery'[q] = delivery[q]
  <2>1. delivery' = [delivery EXCEPT ![p] = Closing(g)]
    BY <1>2 DEF Mitigate
  <2>2. Closing(g).at = "closing"
    BY DEF Closing
  <2> QED
    BY <2>1, <2>2 DEF TypeOK
<1>3. ASSUME NEW p \in Delivery, CreateForAlert(p)
      PROVE  delivery'[q] = delivery[q] \/ (delivery[q].at = "finding" /\ delivery[q].fingerprint = f)
  <2>1. PICK k \in Incident : delivery' = [delivery EXCEPT ![p] = Linking(delivery[p].fingerprint, k)]
    BY <1>3 DEF CreateForAlert
  <2>2. Linking(delivery[p].fingerprint, k).fingerprint = delivery[p].fingerprint
    BY DEF Linking
  <2> QED
    BY <1>3, <2>1, <2>2 DEF CreateForAlert, TypeOK
<1>4. ASSUME NEW p \in Delivery,
             LinkAlert(p) \/ CloseAlerts(p) \/ DeliveryFails(p)
      PROVE  delivery'[q] = delivery[q]
  <2>1. delivery' = [delivery EXCEPT ![p] = Idle]
    BY <1>4 DEF LinkAlert, CloseAlerts, DeliveryFails, AfterFault
  <2>2. Idle.at = "idle"
    BY DEF Idle
  <2> QED
    BY <2>1, <2>2 DEF TypeOK
<1>5. ASSUME NEW D, NEW T, Crash(D, T) PROVE delivery'[q] = delivery[q]
  <2>1. delivery'[q] = IF q \in D THEN Idle ELSE delivery[q]
    BY <1>5 DEF Crash
  <2>2. Idle.at = "idle"
    BY DEF Idle
  <2> QED
    BY <2>1, <2>2
<1>6. \/ delivery' = delivery
      \/ \E p \in Delivery, g \in Fingerprint : Firing(p, g) \/ Mitigate(p, g)
      \/ \E p \in Delivery : CreateForAlert(p) \/ LinkAlert(p) \/ CloseAlerts(p)
                            \/ DeliveryFails(p)
      \/ \E D \in SUBSET Delivery, T \in SUBSET Tick : Crash(D, T)
  BY DEF Next, Webhook, Deliver, CheckRule, CreateForRule, LeaveRule, CreateByHand, Suppress, Patch,
     AutoResolveStale, CooldownPasses, DayPasses, history
<1> QED
  BY <1>1, <1>2, <1>3, <1>4, <1>5, <1>6

\* The history of the runs: pairs are never forgotten, a run forgets what it met
\* only when it is over, and only a new incident is met.
LEMMA MeetIs ==
  ASSUME TypeOK, NEW r \in Run, NEW i, NEW X, Meet(r, i, X)
  PROVE  /\ raced \subseteq raced'
         /\ \A j \in met[r] : {i, j} \in raced'
         /\ \A q \in Run : q # r => met[q] \subseteq met'[q]
         /\ \A q \in Run \cap X : q # r => i \in met'[q]
<1>1. \A q \in Run : met'[q] = IF q = r THEN {} ELSE IF q \in X THEN met[q] \cup {i} ELSE met[q]
  BY DEF Meet
<1>2. raced' = raced \cup {{i, j} : j \in met[r]}
  BY DEF Meet
<1> QED
  BY <1>1, <1>2

\* Who is still about to add an incident after a step has not forgotten.
LEMMA HistoryGrows ==
  ASSUME TypeOK, [Next]_vars
  PROVE  /\ raced \subseteq raced'
         /\ \A f \in Fingerprint : \A d \in Adding(f)' : met[d] \subseteq met'[d]
         /\ \A r \in Rule : \A t \in AboutToAdd(r)' : met[t] \subseteq met'[t]
<1>1. CASE UNCHANGED <<met, raced>>
  BY <1>1
<1>2. ASSUME NEW X, Forget(X), raced' = raced,
             \A d \in X : (d \in Delivery => delivery'[d] = Idle) /\ (d \in Tick => tick'[d] = Idle)
      PROVE  /\ raced \subseteq raced'
             /\ \A f \in Fingerprint : \A d \in Adding(f)' : met[d] \subseteq met'[d]
             /\ \A r \in Rule : \A t \in AboutToAdd(r)' : met[t] \subseteq met'[t]
  <2>1. \A q \in Run : q \notin X => met'[q] = met[q]
    BY <1>2 DEF Forget
  <2>2. \A f \in Fingerprint : \A d \in Adding(f)' : d \in Run /\ d \notin X
    BY <1>2 DEF Adding, Idle, Run
  <2>3. \A r \in Rule : \A t \in AboutToAdd(r)' : t \in Run /\ t \notin X
    BY <1>2 DEF AboutToAdd, Checked, Idle, Run
  <2> QED
    BY <1>2, <2>1, <2>2, <2>3
<1>3. ASSUME NEW d \in Delivery, DeliveryFails(d)
      PROVE  Forget({d}) /\ raced' = raced /\ delivery'[d] = Idle /\ d \notin Tick
  BY <1>3, IncidentsAssumption DEF DeliveryFails, AfterFault, TypeOK
<1>4. ASSUME NEW t \in Tick, LeaveRule(t)
      PROVE  Forget({t}) /\ raced' = raced /\ tick'[t] = Idle /\ t \notin Delivery
  BY <1>4, IncidentsAssumption DEF LeaveRule, TypeOK
<1>5. ASSUME NEW D \in SUBSET Delivery, NEW T \in SUBSET Tick, Crash(D, T)
      PROVE  /\ Forget(D \cup T) /\ raced' = raced
             /\ \A q \in D \cup T : (q \in Delivery => delivery'[q] = Idle)
                                    /\ (q \in Tick => tick'[q] = Idle)
  <2>1. /\ \A q \in Delivery : q \in D => delivery'[q] = Idle
        /\ \A q \in Tick : q \in T => tick'[q] = Idle
    BY <1>5 DEF Crash
  <2>2. /\ \A q \in D : q \in Delivery /\ q \notin Tick
        /\ \A q \in T : q \in Tick /\ q \notin Delivery
    BY IncidentsAssumption
  <2>3. Forget(D \cup T) /\ raced' = raced
    BY <1>5 DEF Crash
  <2> QED
    BY <2>1, <2>2, <2>3
<1>6. ASSUME NEW d \in Delivery, LinkAlert(d)
      PROVE  /\ raced \subseteq raced'
             /\ \A f \in Fingerprint : \A e \in Adding(f)' : met[e] \subseteq met'[e]
             /\ \A r \in Rule : \A t \in AboutToAdd(r)' : met[t] \subseteq met'[t]
  <2>1. Meet(d, delivery[d].incident, Adding(delivery[d].fingerprint)) /\ d \in Run
    BY <1>6 DEF LinkAlert, Run
  <2>2. raced \subseteq raced' /\ \A q \in Run : q # d => met[q] \subseteq met'[q]
    BY <2>1, MeetIs
  <2>3. delivery'[d] = Idle
    BY <1>6 DEF LinkAlert, TypeOK
  <2>4. \A f \in Fingerprint : \A e \in Adding(f)' : e \in Run /\ e # d
    BY <2>3 DEF Adding, Idle, Run
  <2>5. \A r \in Rule : \A t \in AboutToAdd(r)' : t \in Run /\ t # d
    BY IncidentsAssumption DEF AboutToAdd, Run
  <2> QED
    BY <2>2, <2>4, <2>5
<1>7. ASSUME NEW u \in Tick, CreateForRule(u)
      PROVE  /\ raced \subseteq raced'
             /\ \A f \in Fingerprint : \A e \in Adding(f)' : met[e] \subseteq met'[e]
             /\ \A r \in Rule : \A t \in AboutToAdd(r)' : met[t] \subseteq met'[t]
  <2>1. PICK i \in Incident : Meet(u, i, AboutToAdd(tick[u].rule))
    BY <1>7 DEF CreateForRule
  <2>2. raced \subseteq raced' /\ \A q \in Run : q # u => met[q] \subseteq met'[q]
    BY <2>1, MeetIs DEF Run
  <2>3. tick'[u] = Idle
    BY <1>7 DEF CreateForRule, TypeOK
  <2>4. \A f \in Fingerprint : \A e \in Adding(f)' : e \in Run /\ e # u
    BY IncidentsAssumption DEF Adding, Run
  <2>5. \A r \in Rule : \A t \in AboutToAdd(r)' : t \in Run /\ t # u
    BY <2>3 DEF AboutToAdd, Checked, Idle, Run
  <2> QED
    BY <2>2, <2>4, <2>5
<1>8. \/ UNCHANGED <<met, raced>>
      \/ \E d \in Delivery : DeliveryFails(d) \/ LinkAlert(d)
      \/ \E t \in Tick : LeaveRule(t) \/ CreateForRule(t)
      \/ \E D \in SUBSET Delivery, T \in SUBSET Tick : Crash(D, T)
  BY DEF vars, Next, Webhook, Firing, Mitigate, Deliver, CreateForAlert, CloseAlerts, CheckRule,
     CreateByHand, Suppress, Patch, AutoResolveStale, CooldownPasses, DayPasses, history
<1> QED
  BY <1>1, <1>2, <1>3, <1>4, <1>5, <1>6, <1>7, <1>8

\* Nothing was open when a delivery looked, and each incident opened since is met
\* by those that looked before.
LEMMA AlertsMetStep == FiringInv /\ AlertsMet /\ [Next]_vars => AlertsMet'
<1> SUFFICES ASSUME FiringInv, AlertsMet, [Next]_vars, NEW f \in Fingerprint
             PROVE  /\ \A d \in Adding(f)' : OpenFor(f)' \subseteq met'[d]
                    /\ \A i, j \in OpenFor(f)' : i = j \/ {i, j} \in raced'
  BY DEF AlertsMet
<1> USE DEF FiringInv
<1>0. TypeOK'
  BY TypeOKStep
<1>1. raced \subseteq raced' /\ \A d \in Adding(f)' : met[d] \subseteq met'[d]
  BY HistoryGrows
<1>2. CASE UNCHANGED vars
  <2>1. OpenFor(f)' = OpenFor(f) /\ Adding(f)' = Adding(f)
    BY <1>2 DEF vars, OpenFor, Adding, Linked, ActiveRow
  <2> QED
    BY <1>1, <2>1 DEF AlertsMet
\* It looked and found none.
<1>3. ASSUME NEW p \in Delivery, Firing(p, f)
      PROVE  OpenFor(f)' = {}
  BY <1>3 DEF Firing, HasOpenIncident, OpenFor, Linked, ActiveRow
<1>4. ASSUME NEW p \in Delivery, LinkAlert(p), \A q \in Delivery : ~ Firing(q, f), Next
      PROVE  /\ \A d \in Adding(f)' : OpenFor(f)' \subseteq met'[d]
             /\ \A i, j \in OpenFor(f)' : i = j \/ {i, j} \in raced'
  <2> DEFINE k == delivery[p].incident
             g == delivery[p].fingerprint
  <2>1. k \in Incident /\ g \in Fingerprint
    BY <1>4, DeliveryForms DEF LinkAlert
  <2>2. /\ alert'[k].fingerprint = g /\ \A i \in Incident \ {k} : alert'[i] = alert[i]
        /\ incident' = incident /\ reopened' = reopened
    BY <1>4, <2>1 DEF LinkAlert, TypeOK
  <2>3. Adding(f)' \subseteq Adding(f)
    BY <1>4, AddingShrinks
  <2>4. CASE g = f
    <3>1. p \in Adding(f) /\ p \in Run
      BY <1>4, <2>4 DEF Adding, LinkAlert, Run
    <3>2. delivery'[p] = Idle
      BY <1>4 DEF LinkAlert, TypeOK
    <3>3. p \notin Adding(f)'
      BY <3>2 DEF Adding, Idle
    <3>4. OpenFor(f)' \subseteq OpenFor(f) \cup {k}
      BY <2>1, <2>2 DEF OpenFor, Linked, ActiveRow
    <3>5. Meet(p, k, Adding(f))
      BY <1>4, <2>4 DEF LinkAlert
    <3>6. /\ \A j \in met[p] : {k, j} \in raced'
          /\ \A q \in Run \cap Adding(f) : q # p => k \in met'[q]
      BY <3>1, <3>5, MeetIs
    <3>7. ASSUME NEW d \in Adding(f)' PROVE OpenFor(f)' \subseteq met'[d]
      <4>1. d \in Adding(f) /\ d \in Run /\ d # p
        BY <2>3, <3>3 DEF Adding, Run
      <4>2. OpenFor(f) \subseteq met'[d]
        BY <1>1, <4>1 DEF AlertsMet
      <4> QED
        BY <3>4, <3>6, <4>1, <4>2
    <3>8. ASSUME NEW i \in OpenFor(f)', NEW j \in OpenFor(f)' PROVE i = j \/ {i, j} \in raced'
      <4>1. OpenFor(f) \subseteq met[p]
        BY <3>1 DEF AlertsMet
      <4>2. CASE i \in OpenFor(f) /\ j \in OpenFor(f)
        BY <1>1, <4>2 DEF AlertsMet
      <4>3. CASE i = k /\ j \in OpenFor(f)
        BY <3>6, <4>1, <4>3
      <4>4. CASE i \in OpenFor(f) /\ j = k
        <5>1. {i, j} = {k, i}
          BY <4>4
        <5> QED
          BY <3>6, <4>1, <4>4, <5>1
      <4> QED
        BY <3>4, <4>2, <4>3, <4>4
    <3> QED
      BY <3>7, <3>8
  <2>5. CASE g # f
    <3>1. OpenFor(f)' \subseteq OpenFor(f)
      BY <2>1, <2>2, <2>5 DEF OpenFor, Linked, ActiveRow
    <3> QED
      BY <1>1, <2>3, <3>1 DEF AlertsMet
  <2> QED
    BY <2>4, <2>5
<1>5. ASSUME \A p \in Delivery : ~ LinkAlert(p), \A p \in Delivery : ~ Firing(p, f), Next
      PROVE  /\ \A d \in Adding(f)' : OpenFor(f)' \subseteq met'[d]
             /\ \A i, j \in OpenFor(f)' : i = j \/ {i, j} \in raced'
  <2>1. OpenFor(f)' \subseteq OpenFor(f) /\ Adding(f)' \subseteq Adding(f)
    BY <1>0, <1>5, OpenForShrinks, AddingShrinks
  <2> QED
    BY <1>1, <2>1 DEF AlertsMet
<1> QED
  BY <1>2, <1>3, <1>4, <1>5

\* A title, and how long ago it was given, survive every statement on the row.
Aging(i) ==
  Exists(i)' /\ incident'[i].title \in Rule /\ incident'[i].fresh =>
    Exists(i) /\ incident[i].title = incident'[i].title /\ incident[i].fresh

LEMMA RowAges ==
  ASSUME TypeOK, NEW i \in Incident, incident[i] \in IncidentRow,
         \/ \E s \in Status : incident'[i] = [incident[i] EXCEPT !.status = s]
         \/ incident'[i] = [incident[i] EXCEPT !.status = "mitigated", !.mitigated_at = "recent"]
         \/ incident'[i] = [incident[i] EXCEPT !.fresh = FALSE]
         \/ incident'[i] = [incident[i] EXCEPT !.mitigated_at = "old"]
  PROVE  Aging(i)
<1>1. Exists(i)
  BY ExistsByStatus
<1>2. incident'[i].title = incident[i].title /\ (incident'[i].fresh => incident[i].fresh)
  BY DEF IncidentRow
<1> QED
  BY <1>1, <1>2 DEF Aging

LEMMA StepAges ==
  ASSUME TypeOK, [Next]_vars, \A p \in Tick : ~ CreateForRule(p), NEW i \in Incident
  PROVE  Aging(i)
<1>1. CASE incident'[i] = incident[i]
  BY <1>1 DEF Aging, Exists
<1>2. ASSUME NEW k \in Incident, Insert(k, "other") PROVE Aging(i)
  <2>1. /\ incident'[k].title = "other"
        /\ \A j \in Incident \ {k} : incident'[j] = incident[j]
    BY <1>2, InsertType
  <2> QED
    BY <1>1, <2>1, IncidentsAssumption DEF Aging
<1>3. ASSUME NEW p \in Delivery, NEW f \in Fingerprint, Mitigate(p, f) PROVE Aging(i)
  <2>1. CASE Linked(i, f) /\ Mitigable(i)
    <3>1. incident[i] \in IncidentRow
      BY <2>1, ExistsByStatus DEF Mitigable, ActiveRow, Active, Status
    <3>2. incident'[i] = [incident[i] EXCEPT !.status = "mitigated", !.mitigated_at = "recent"]
      BY <1>3, <2>1, Zenon DEF Mitigate
    <3> QED
      BY <3>1, <3>2, RowAges
  <2>2. CASE ~ (Linked(i, f) /\ Mitigable(i))
    BY <1>1, <1>3, <2>2, Zenon DEF Mitigate
  <2> QED
    BY <2>1, <2>2
<1>4. CASE AutoResolveStale
  <2>1. CASE Stale(i)
    <3>1. incident[i] \in IncidentRow
      BY <2>1, ExistsByStatus DEF Stale, Status
    <3>2. incident'[i] = [incident[i] EXCEPT !.status = "resolved"]
      BY <1>4, <2>1, Zenon DEF AutoResolveStale
    <3> QED
      BY <3>1, <3>2, RowAges DEF Status
  <2>2. CASE ~ Stale(i)
    BY <1>1, <1>4, <2>2, Zenon DEF AutoResolveStale
  <2> QED
    BY <2>1, <2>2
<1>5. ASSUME NEW k \in Incident, NEW s \in Status, Patch(k, s) PROVE Aging(i)
  <2>1. incident[k] \in IncidentRow
    BY <1>5, ExistsByStatus DEF Patch
  <2>2. incident' = [incident EXCEPT ![k] = [incident[k] EXCEPT !.status = s]]
    BY <1>5 DEF Patch
  <2>3. CASE i = k
    <3>1. incident'[i] = [incident[i] EXCEPT !.status = s]
      BY <2>2, <2>3 DEF TypeOK
    <3> QED
      BY <2>1, <2>3, <3>1, RowAges
  <2>4. CASE i # k
    BY <1>1, <2>2, <2>4 DEF TypeOK
  <2> QED
    BY <2>3, <2>4
<1>6. ASSUME NEW k \in Incident, CooldownPasses(k) \/ DayPasses(k) PROVE Aging(i)
  <2>1. incident[k] \in IncidentRow
    BY <1>6, ExistsByStatus DEF CooldownPasses, DayPasses
  <2>2. \/ incident' = [incident EXCEPT ![k] = [incident[k] EXCEPT !.fresh = FALSE]]
        \/ incident' = [incident EXCEPT ![k] = [incident[k] EXCEPT !.mitigated_at = "old"]]
    BY <1>6 DEF CooldownPasses, DayPasses
  <2>3. CASE i = k
    <3>1. CASE incident' = [incident EXCEPT ![k] = [incident[k] EXCEPT !.fresh = FALSE]]
      <4>1. incident'[i] = [incident[i] EXCEPT !.fresh = FALSE]
        BY <2>3, <3>1 DEF TypeOK
      <4> QED
        BY <2>1, <2>3, <4>1, RowAges
    <3>2. CASE incident' = [incident EXCEPT ![k] = [incident[k] EXCEPT !.mitigated_at = "old"]]
      <4>1. incident'[i] = [incident[i] EXCEPT !.mitigated_at = "old"]
        BY <2>3, <3>2 DEF TypeOK
      <4> QED
        BY <2>1, <2>3, <4>1, RowAges
    <3> QED
      BY <2>2, <3>1, <3>2
  <2>4. CASE i # k
    BY <1>1, <2>2, <2>4 DEF TypeOK
  <2> QED
    BY <2>3, <2>4
<1>7. \/ incident' = incident
      \/ \E k \in Incident : Insert(k, "other")
      \/ \E p \in Delivery, f \in Fingerprint : Mitigate(p, f)
      \/ AutoResolveStale
      \/ \E k \in Incident, s \in Status : Patch(k, s)
      \/ \E k \in Incident : CooldownPasses(k) \/ DayPasses(k)
  BY DEF vars, Next, Webhook, Firing, Deliver, CreateForAlert, LinkAlert, CloseAlerts, DeliveryFails,
     CheckRule, LeaveRule, Crash, CreateByHand, Suppress, history
<1> QED
  BY <1>1, <1>2, <1>3, <1>4, <1>5, <1>6, <1>7

\* Ticks that move without having found the rule out of cooldown.
LEMMA AboutToAddShrinks ==
  ASSUME TypeOK, [Next]_vars, NEW r \in Rule, \A p \in Tick : ~ CheckRule(p, r)
  PROVE  AboutToAdd(r)' \subseteq AboutToAdd(r)
<1> SUFFICES ASSUME NEW q \in Tick, tick'[q] = Checked(r) PROVE tick[q] = Checked(r)
  BY DEF AboutToAdd
<1>1. ASSUME NEW p \in Tick, NEW r2 \in Rule, CheckRule(p, r2) PROVE tick'[q] = tick[q]
  <2>1. r2 # r /\ tick' = [tick EXCEPT ![p] = Checked(r2)]
    BY <1>1 DEF CheckRule
  <2>2. Checked(r2) # Checked(r)
    BY <2>1 DEF Checked
  <2> QED
    BY <2>1, <2>2 DEF TypeOK
<1>2. ASSUME NEW p \in Tick, CreateForRule(p) \/ LeaveRule(p)
      PROVE  tick'[q] = tick[q]
  <2>1. tick' = [tick EXCEPT ![p] = Idle] /\ Idle # Checked(r)
    BY <1>2 DEF CreateForRule, LeaveRule, Idle, Checked
  <2> QED
    BY <2>1 DEF TypeOK
<1>3. ASSUME NEW E, NEW T, Crash(E, T) PROVE tick'[q] = tick[q]
  <2>1. tick'[q] = IF q \in T THEN Idle ELSE tick[q]
    BY <1>3 DEF Crash
  <2>2. Idle # Checked(r)
    BY DEF Idle, Checked
  <2> QED
    BY <2>1, <2>2
<1>4. \/ tick' = tick
      \/ \E p \in Tick, r2 \in Rule : CheckRule(p, r2)
      \/ \E p \in Tick : CreateForRule(p) \/ LeaveRule(p)
      \/ \E E \in SUBSET Delivery, T \in SUBSET Tick : Crash(E, T)
  BY DEF vars, Next, Webhook, Firing, Mitigate, Deliver, CreateForAlert, LinkAlert, CloseAlerts,
     DeliveryFails, CreateByHand, Suppress, Patch, AutoResolveStale, CooldownPasses, DayPasses, history
<1> QED
  BY <1>1, <1>2, <1>3, <1>4

\* The same of a rule and its ticks.
LEMMA RulesMetStep == TypeOK /\ RulesMet /\ [Next]_vars => RulesMet'
<1> SUFFICES ASSUME TypeOK, RulesMet, [Next]_vars, NEW r \in Rule
             PROVE  /\ \A t \in AboutToAdd(r)' : FreshFor(r)' \subseteq met'[t]
                    /\ \A i, j \in FreshFor(r)' : i = j \/ {i, j} \in raced'
  BY DEF RulesMet
<1>1. raced \subseteq raced' /\ \A t \in AboutToAdd(r)' : met[t] \subseteq met'[t]
  BY HistoryGrows
<1>2. ASSUME NEW p \in Tick, CheckRule(p, r) PROVE FreshFor(r)' = {}
  BY <1>2 DEF CheckRule, InCooldown, FreshFor, Exists
<1>3. ASSUME NEW p \in Tick, CreateForRule(p), \A q \in Tick : ~ CheckRule(q, r)
      PROVE  /\ \A t \in AboutToAdd(r)' : FreshFor(r)' \subseteq met'[t]
             /\ \A i, j \in FreshFor(r)' : i = j \/ {i, j} \in raced'
  <2>1. tick[p].rule \in Rule /\ tick[p] = Checked(tick[p].rule)
    BY <1>3, TickForms DEF CreateForRule
  <2>2. PICK k \in Incident :
          Insert(k, tick[p].rule) /\ Meet(p, k, AboutToAdd(tick[p].rule))
    BY <1>3 DEF CreateForRule
  <2>3. /\ incident'[k].title = tick[p].rule
        /\ \A j \in Incident \ {k} : incident'[j] = incident[j]
    BY <2>1, <2>2, InsertType
  <2>4. AboutToAdd(r)' \subseteq AboutToAdd(r)
    BY <1>3, AboutToAddShrinks
  <2>5. CASE tick[p].rule = r
    <3>1. p \in AboutToAdd(r) /\ p \in Run
      BY <2>1, <2>5 DEF AboutToAdd, Run
    <3>2. tick'[p] = Idle
      BY <1>3 DEF CreateForRule, TypeOK
    <3>3. p \notin AboutToAdd(r)'
      BY <3>2 DEF AboutToAdd, Idle, Checked
    <3>4. FreshFor(r)' \subseteq FreshFor(r) \cup {k}
      BY <2>3 DEF FreshFor, Exists
    <3>5. /\ \A j \in met[p] : {k, j} \in raced'
          /\ \A q \in Run \cap AboutToAdd(r) : q # p => k \in met'[q]
      BY <2>2, <2>5, <3>1, MeetIs
    <3>6. ASSUME NEW t \in AboutToAdd(r)' PROVE FreshFor(r)' \subseteq met'[t]
      <4>1. t \in AboutToAdd(r) /\ t \in Run /\ t # p
        BY <2>4, <3>3 DEF AboutToAdd, Run
      <4>2. FreshFor(r) \subseteq met'[t]
        BY <1>1, <4>1 DEF RulesMet
      <4> QED
        BY <3>4, <3>5, <4>1, <4>2
    <3>7. ASSUME NEW i \in FreshFor(r)', NEW j \in FreshFor(r)' PROVE i = j \/ {i, j} \in raced'
      <4>1. FreshFor(r) \subseteq met[p]
        BY <3>1 DEF RulesMet
      <4>2. CASE i \in FreshFor(r) /\ j \in FreshFor(r)
        BY <1>1, <4>2 DEF RulesMet
      <4>3. CASE i = k /\ j \in FreshFor(r)
        BY <3>5, <4>1, <4>3
      <4>4. CASE i \in FreshFor(r) /\ j = k
        <5>1. {i, j} = {k, i}
          BY <4>4
        <5> QED
          BY <3>5, <4>1, <4>4, <5>1
      <4> QED
        BY <3>4, <4>2, <4>3, <4>4
    <3> QED
      BY <3>6, <3>7
  <2>6. CASE tick[p].rule # r
    <3>1. FreshFor(r)' \subseteq FreshFor(r)
      BY <2>3, <2>6 DEF FreshFor, Exists
    <3> QED
      BY <1>1, <2>4, <3>1 DEF RulesMet
  <2> QED
    BY <2>5, <2>6
<1>4. ASSUME \A q \in Tick : ~ CheckRule(q, r), \A q \in Tick : ~ CreateForRule(q)
      PROVE  /\ \A t \in AboutToAdd(r)' : FreshFor(r)' \subseteq met'[t]
             /\ \A i, j \in FreshFor(r)' : i = j \/ {i, j} \in raced'
  <2>1. FreshFor(r)' \subseteq FreshFor(r)
    BY <1>4, StepAges DEF FreshFor, Aging
  <2>2. AboutToAdd(r)' \subseteq AboutToAdd(r)
    BY <1>4, AboutToAddShrinks
  <2> QED
    BY <1>1, <2>1, <2>2 DEF RulesMet
<1> QED
  BY <1>2, <1>3, <1>4

\* For any number of deliveries and ticks under way at once, in however many
\* processes: two incidents of one alert, or of one rule in its cooldown, come from
\* runs that overlapped.  (findExistingOpenIncident, isInCooldown)
THEOREM DuplicatesAreAlwaysRaces == Spec => []DuplicatesAreRaces
<1>1. Init => AlertsMet /\ RulesMet
  <2> SUFFICES ASSUME Init PROVE AlertsMet /\ RulesMet
    OBVIOUS
  <2>1. \A f \in Fingerprint : OpenFor(f) = {}
    BY DEF Init, OpenFor, Linked, NoAlert
  <2>2. \A r \in Rule : FreshFor(r) = {}
    BY DEF Init, FreshFor, Exists
  <2> QED
    BY <2>1, <2>2 DEF AlertsMet, RulesMet
<1>2. FiringInv /\ AlertsMet /\ RulesMet => DuplicatesAreRaces
  BY DEF FiringInv, AlertsMet, RulesMet, DuplicatesAreRaces
<1>3. FiringInv /\ AlertsMet /\ RulesMet /\ [Next]_vars => FiringInv' /\ AlertsMet' /\ RulesMet'
  BY FiringInvStep, AlertsMetStep, RulesMetStep DEF FiringInv
<1> QED
  BY <1>1, <1>2, <1>3, FiringInvInit, PTL DEF Spec

-----------------------------------------------------------------------------
(* The remediation record: what TLC checked first *)

Recommendation == [words : SUBSET Types, tier : Tiers]
Switches == [enabled : BOOLEAN, tiers : SUBSET Tiers, allowed : [Tiers -> SUBSET Types]]
LogEntry == [of : Recs, status : RecStatus] \cup [of : Note, status : {"note"}]
Log == Seq(LogEntry)
Resting == {Nobody, Gone}

RecordShapes ==
  /\ action_log \in Log /\ logged \in Log
  /\ diagnosis \in Seq(Recommendation)
  /\ conversation \in Seq(Ask) /\ talked \in Seq(Ask)
  /\ policy \in Switches /\ chosen \in Switches /\ inForce \in Switches
  /\ tab \in [Tab -> Switches]
  /\ cast \in Casts
  /\ clobbered \subseteq {"action_log", "conversation", "settings"}
  /\ ran \in [Recs -> Nat] /\ auto \subseteq Recs /\ misled \subseteq Click

\* Where the job is; a press under way holds the position of an entry that was
\* pending in the copy it holds.
JobStages ==
  {Gone, [at |-> "diagnosing"], [at |-> "loading"]}
    \cup [at : {"reading"}, rec : Recs, policy : Switches, status : RecStatus]
    \cup [at : {"writing"}, rec : Recs, policy : Switches, status : RecStatus, copy : Log]

Executing(c) == click[c].at = "executing"
Pressed(c) == click[c].copy[click[c].index]

NotesTyped == note \in [Note -> Resting \cup [at : {"writing"}, copy : Log]]
PressesTyped ==
  /\ click \in [Click -> Resting \cup [at : {"executing"}, index : Nat, copy : Log]]
  /\ \A c \in Click :
       Executing(c) => click[c].index \in DOMAIN click[c].copy /\ Pressed(c).status = "pending"
QuestionsTyped ==
  ask \in [Ask -> Resting \cup [at : {"streaming"}, from : {"page", "slack"}, copy : Seq(Ask),
                                hears : BOOLEAN]
                  \cup [at : {"done"}, shown : {"empty", "error", "nothing", "answer"},
                        heard : BOOLEAN]]
RecordStages == job \in JobStages /\ NotesTyped /\ PressesTyped /\ QuestionsTyped

\* The job takes the recommendations in order, runs those of tier 1 and leaves the
\* others pending, and takes none whose action the policy it loaded does not allow:
\* the settings in force, or the defaults when those could not be read.
Loaded(p) == p = inForce \/ (broken /\ p = DefaultPolicy)
Admitted(n) ==
  \/ Unattended(inForce, diagnosis[n])
  \/ broken /\ Unattended(DefaultPolicy, diagnosis[n])
Automatic(n) == diagnosis[n].tier = 1
Working == job.at \in {"reading", "writing"}
Ahead(n) ==
  \/ job.at \in {"diagnosing", "loading"}
  \/ Working /\ n > job.rec
  \/ Working /\ n = job.rec /\ job.status \in {"running", "pending"}

JobInOrder ==
  /\ job.at = "diagnosing" => diagnosis = <<>>
  /\ Working =>
       /\ Loaded(job.policy) /\ job.policy.enabled
       /\ Automatic(job.rec) => Admitted(job.rec)
       /\ (job.status = "pending") <=> ~ Automatic(job.rec)
       /\ job.status \in {"success", "failed"} => job.rec \in auto
  /\ \A n \in auto : Automatic(n) /\ Admitted(n) /\ ~ Ahead(n)

\* As long as no stale copy was written over the log, it holds what was logged, at
\* most one entry for a recommendation to approve and none for one not reached yet;
\* buttons and presses point at the entries they were made for.
Unclobbered == "action_log" \notin clobbered
EntryOf(k, n) ==
  k \in DOMAIN action_log /\ action_log[k].of = n /\ action_log[k].status \in RecStatus

NothingAhead == \A n \in Recs : Ahead(n) => \A k \in Nat : ~ EntryOf(k, n)
OneEntryEach ==
  \A n \in Recs : ~ Automatic(n) => \A k, l \in Nat : EntryOf(k, n) /\ EntryOf(l, n) => k = l
PendingToApprove ==
  \A k \in DOMAIN action_log : action_log[k].status = "pending" => ~ Automatic(action_log[k].of)
ButtonsHold ==
  \A card \in cards : \A b \in card : b.index \in DOMAIN action_log /\ action_log[b.index].of = b.of
PressesHold == \A c \in Click : Executing(c) => EntryOf(click[c].index, Pressed(c).of)

LogKept ==
  /\ action_log = logged /\ misled = {}
  /\ NothingAhead /\ OneEntryEach /\ PendingToApprove /\ ButtonsHold /\ PressesHold
LogInOrder == Unclobbered => LogKept

\* If besides no statement failed, an entry is left pending after an execution only
\* while a press of it is under way, and after two only while two are; once it is
\* answered a second execution is one still under way.
PressOf(c, n) == c \in Click /\ Executing(c) /\ Pressed(c).of = n

RunsNoted(k, n) ==
  /\ EntryOf(k, n)
  /\ action_log[k].status = "pending" => \E c \in Click : PressOf(c, n)
  /\ ran[n] > 1 => \E c \in Click :
       /\ PressOf(c, n)
       /\ action_log[k].status = "pending" => \E d \in Click \ {c} : PressOf(d, n)

RunsOf(n) ==
  /\ Ahead(n) => ran[n] = 0
  /\ Automatic(n) => ran[n] = IF n \in auto THEN 1 ELSE 0
  /\ ~ Automatic(n) => ran[n] = 0 \/ \E k \in Nat : RunsNoted(k, n)
RunsInOrder == Unclobbered /\ ~ broken => \A n \in Recs : RunsOf(n)

\* The other two columns.
ColumnsInOrder ==
  /\ "conversation" \notin clobbered => conversation = talked
  /\ "settings" \notin clobbered => policy = chosen
  /\ \A n \in DOMAIN talked :
       ask[talked[n]].at = "done" /\ (ask[talked[n]].heard => ask[talked[n]].shown = "answer")

RecordInv ==
  RecordShapes /\ RecordStages /\ JobInOrder /\ LogInOrder /\ RunsInOrder /\ ColumnsInOrder

-----------------------------------------------------------------------------
(* Lemmas *)

LEMMA LeastNatural ==
  ASSUME NEW T \in SUBSET Nat, T # {}
  PROVE  \E m \in T : \A l \in T : m <= l
<1> DEFINE R == OpToRel(<, Nat)
<1>1. IsWellFoundedOn(R, Nat)
  BY NatLessThanWellFounded
<1> HIDE DEF R
<1>2. PICK m \in T : \A l \in T : ~ (<<l, m>> \in R)
  BY <1>1, WFMin
<1>3. ASSUME NEW l \in T PROVE m <= l
  <2>1. ~ (<<l, m>> \in R)
    BY <1>2
  <2>2. ~ (l < m)
    BY <2>1 DEF R, OpToRel
  <2> QED BY <2>2
<1> QED BY <1>3

\* What the model answers, or stands in for its answer, is a list of recommendations.
LEMMA DiagnosesAreLists == \A d \in analyzeIncident : d \in Seq(Recommendation)
<1>1. Fallback \in Seq(Recommendation)
  BY DEF Fallback, Recommendation, Tiers
<1>2. \A raw : parseDiagnosis(raw) \subseteq Diagnoses \cup {Fallback}
  BY DEF parseDiagnosis
<1>3. Diagnoses \subseteq Seq(Recommendation)
  BY RecordAssumption DEF Recommendation
<1> QED BY <1>1, <1>2, <1>3 DEF analyzeIncident

\* The job's next recommendation is a later one that the policy allows.
LEMMA OnwardsIs ==
  ASSUME diagnosis \in Seq(Recommendation), NEW p, NEW n \in Nat
  PROVE  \/ Onwards(p, n) = Gone
         \/ \E m \in Recs :
              /\ m > n /\ Allowed(p, diagnosis[m])
              /\ Onwards(p, n) = [at |-> "reading", rec |-> m, policy |-> p,
                                  status |-> IF Automatic(m) THEN "running" ELSE "pending"]
<1> DEFINE next == {m \in DOMAIN diagnosis : m > n /\ Allowed(p, diagnosis[m])}
<1>1. CASE next = {}
  BY <1>1 DEF Onwards
<1>2. CASE next # {}
  <2>1. next \in SUBSET Nat
    OBVIOUS
  <2>2. \E m \in next : \A l \in next : m <= l
    BY <1>2, <2>1, LeastNatural
  <2> DEFINE m == CHOOSE m \in next : \A l \in next : m <= l
  <2>3. m \in next
    BY <2>2
  <2>4. Onwards(p, n) = [at |-> "reading", rec |-> m, policy |-> p,
                         status |-> IF diagnosis[m].tier = 1 THEN "running" ELSE "pending"]
    BY <1>2 DEF Onwards
  <2> HIDE DEF m
  <2> QED BY <2>3, <2>4 DEF Recs, Automatic
<1> QED BY <1>1, <1>2

LEMMA RecordHelpers ==
  /\ DefaultPolicy \in Switches
  /\ \A p \in Switches, s \in {0} \cup Tiers : Flip(p, s) \in Switches
  /\ \A type : Outcomes(type) \subseteq {"success", "failed"}
  /\ \A w \in Note : NoteEntry(w) \in LogEntry
  /\ \A n \in Recs, s \in RecStatus : Entry(n, s) \in LogEntry
<1>1. DefaultPolicy \in Switches
  <2>1. DefaultLists \in [Tiers -> SUBSET Types]
    BY DEF DefaultLists, Tiers, Types
  <2> QED BY <2>1 DEF DefaultPolicy, Switches
<1>2. ASSUME NEW p \in Switches, NEW s \in {0} \cup Tiers PROVE Flip(p, s) \in Switches
  <2>1. CASE s = 0
    BY <2>1 DEF Flip, Switches
  <2>2. CASE s \in Tiers
    BY <2>2 DEF Flip, Switches, Tiers
  <2> QED BY <2>1, <2>2
<1>3. \A type : Outcomes(type) \subseteq {"success", "failed"}
  BY DEF Outcomes
<1>4. \A w \in Note : NoteEntry(w) \in LogEntry
  BY DEF NoteEntry, LogEntry
<1>5. \A n \in Recs, s \in RecStatus : Entry(n, s) \in LogEntry
  BY DEF Entry, LogEntry
<1> QED BY <1>1, <1>2, <1>3, <1>4, <1>5

\* What the job holds, from its label.
LEMMA JobHolds ==
  ASSUME RecordShapes, RecordStages
  PROVE  /\ Working => /\ job.rec \in Recs /\ job.policy \in Switches /\ job.status \in RecStatus
                       /\ job.rec \in Nat
         /\ job.at = "writing" => job.copy \in Log
<1>1. Recs \subseteq Nat
  BY DEF RecordShapes, Recs
<1>2. Working => \/ job \in [at : {"reading"}, rec : Recs, policy : Switches, status : RecStatus]
                 \/ job \in [at : {"writing"}, rec : Recs, policy : Switches, status : RecStatus,
                            copy : Log]
  BY DEF RecordStages, JobStages, Working, Gone
<1>3. Working => /\ job.rec \in Recs /\ job.policy \in Switches /\ job.status \in RecStatus
  BY <1>2
<1>4. job.at = "writing" => job.copy \in Log
  BY <1>2 DEF Working
<1> QED BY <1>1, <1>3, <1>4

\* What an entry is, from its status.
LEMMA EntryIs ==
  ASSUME NEW e \in LogEntry
  PROVE  /\ e.status \in RecStatus => e \in [of : Recs, status : RecStatus]
         /\ e.status \notin RecStatus => e \in [of : Note, status : {"note"}]
  BY DEF LogEntry, RecStatus

\* A log written back with an entry's new status.
LEMMA LogAnswered ==
  ASSUME NEW old \in Log, NEW n \in DOMAIN old, old[n].status = "pending",
         NEW s \in {"success", "failed"}
  PROVE  /\ [old EXCEPT ![n].status = s] \in Log
         /\ DOMAIN [old EXCEPT ![n].status = s] = DOMAIN old
         /\ old[n].of \in Recs
<1>1. old[n] \in [of : Recs, status : RecStatus]
  BY EntryIs DEF Log, RecStatus
<1>2. [old[n] EXCEPT !.status = s] \in LogEntry
  BY <1>1 DEF LogEntry, RecStatus
<1>3. [old EXCEPT ![n].status = s] = [old EXCEPT ![n] = [old[n] EXCEPT !.status = s]]
  OBVIOUS
<1> QED BY <1>1, <1>2, <1>3 DEF Log

\* While nothing is diagnosed no press is under way and the log holds notes only.
LEMMA NothingToApprove ==
  ASSUME RecordShapes, RecordStages, Recs = {}
  PROVE  /\ \A c \in Click : ~ Executing(c)
         /\ \A k \in DOMAIN action_log : action_log[k].status \notin RecStatus
         /\ auto = {}
<1>1. \A e \in LogEntry : e.status \notin RecStatus
  BY DEF LogEntry, RecStatus
<1>2. ASSUME NEW c \in Click, Executing(c) PROVE FALSE
  <2>1. click[c].copy \in Log
    BY <1>2 DEF RecordStages, PressesTyped, Executing, Resting, Nobody, Gone
  <2>2. Pressed(c) \in LogEntry /\ Pressed(c).status = "pending"
    BY <1>2, <2>1 DEF RecordStages, PressesTyped, Pressed, Log
  <2> QED BY <1>1, <2>2 DEF RecStatus
<1> QED BY <1>1, <1>2 DEF RecordShapes, Log

\* The job after an entry.
LEMMA ContinueIs ==
  ASSUME RecordShapes, RecordStages, Working, Continue
  PROVE  /\ \/ job' = Gone
            \/ job' \in [at : {"reading"}, rec : Recs, policy : Switches, status : RecStatus]
         /\ ran' \in [Recs -> Nat] /\ auto' \subseteq Recs
<1>1. /\ job.rec \in Recs /\ job.policy \in Switches /\ job.status \in RecStatus /\ job.rec \in Nat
  BY JobHolds
<1>2. CASE job.status = "running"
  <2>1. PICK s \in Outcomes(TypeOf(diagnosis[job.rec])) :
          job' = [at |-> "reading", rec |-> job.rec, policy |-> job.policy, status |-> s]
    BY <1>2 DEF Continue, AfterExecutor
  <2>2. s \in RecStatus
    BY <2>1, RecordHelpers DEF RecStatus
  <2>3. ran' \in [Recs -> Nat] /\ auto' \subseteq Recs
    BY <1>1, <1>2 DEF Continue, RecordShapes
  <2> QED BY <1>1, <2>1, <2>2, <2>3
<1>3. CASE job.status # "running"
  <2>1. job' = Onwards(job.policy, job.rec) /\ UNCHANGED <<ran, auto>>
    BY <1>3 DEF Continue
  <2>2. diagnosis \in Seq(Recommendation)
    BY DEF RecordShapes
  <2>3. \/ job' = Gone
        \/ job' \in [at : {"reading"}, rec : Recs, policy : Switches, status : RecStatus]
    BY <1>1, <2>1, <2>2, OnwardsIs DEF RecStatus
  <2> QED BY <2>1, <2>3 DEF RecordShapes
<1> QED BY <1>2, <1>3

-----------------------------------------------------------------------------
(* Types *)

LEMMA RecordTypesInit == RecordInit => RecordShapes /\ RecordStages
<1> SUFFICES ASSUME RecordInit PROVE RecordShapes /\ RecordStages
  OBVIOUS
<1>1. Recs = {} /\ <<>> \in [Recs -> Nat]
  BY DEF RecordInit, Recs
<1>2. RecordShapes
  BY <1>1, RecordHelpers DEF RecordInit, RecordShapes, Log
<1>3. RecordStages
  BY DEF RecordInit, RecordStages, JobStages, NotesTyped, PressesTyped, QuestionsTyped, Resting,
     Executing, Nobody, Gone
<1> QED BY <1>2, <1>3

\* A diagnosis makes the types larger.
LEMMA TypesGrow ==
  ASSUME Recs \subseteq Recs'
  PROVE  LogEntry \subseteq LogEntry' /\ Log \subseteq Log'
<1>1. LogEntry \subseteq LogEntry'
  BY DEF LogEntry
<1>2. Log \subseteq Log'
  BY <1>1 DEF Log
<1> QED BY <1>1, <1>2

LEMMA ListOfLength ==
  ASSUME NEW S, NEW n \in Nat, NEW f \in [1 .. n -> S]
  PROVE  f \in Seq(S)
  BY SeqDef

\* What presses, notes and questions hold while they are under way.
LEMMA PressHolds ==
  ASSUME RecordStages, NEW c \in Click, Executing(c)
  PROVE  /\ click[c].copy \in Log /\ click[c].index \in DOMAIN click[c].copy
         /\ Pressed(c).status = "pending"
<1>1. click[c].copy \in Log
  BY DEF RecordStages, PressesTyped, Executing, Resting, Nobody, Gone
<1> QED BY <1>1 DEF RecordStages, PressesTyped

LEMMA NoteHolds ==
  ASSUME RecordStages, NEW w \in Note, note[w].at = "writing"
  PROVE  note[w].copy \in Log
  BY DEF RecordStages, NotesTyped, Resting, Nobody, Gone

LEMMA AskHolds ==
  ASSUME RecordStages, NEW q \in Ask, ask[q].at = "streaming"
  PROVE  /\ ask[q].copy \in Seq(Ask) /\ ask[q].from \in {"page", "slack"}
         /\ ask[q].hears \in BOOLEAN
  BY DEF RecordStages, QuestionsTyped, Resting, Nobody, Gone

LEMMA RecordShapesNext ==
  ASSUME RecordShapes, RecordStages, JobInOrder, RecordNext
  PROVE  RecordShapes'
<1> USE DEF RecordShapes
<1>h. /\ DefaultPolicy \in Switches
      /\ \A p \in Switches, s \in {0} \cup Tiers : Flip(p, s) \in Switches
      /\ \A w \in Note : NoteEntry(w) \in LogEntry
      /\ \A n \in Recs, s \in RecStatus : Entry(n, s) \in LogEntry
  BY RecordHelpers
<1>u. UNCHANGED diagnosis => Recs' = Recs /\ LogEntry' = LogEntry /\ Log' = Log
  BY DEF Recs, LogEntry, Log
<1>o. \A current, copy : \A field \in {"action_log", "conversation", "settings"} :
         WriteOver(field, current, copy) =>
           clobbered' \subseteq {"action_log", "conversation", "settings"}
  BY DEF WriteOver
<1>1. CASE Diagnose
  <2>1. CASE diagnosis' \in analyzeIncident /\ ran' = [n \in DOMAIN diagnosis' |-> 0]
    <3>1. Recs = {}
      BY <1>1 DEF Diagnose, JobInOrder, Recs
    <3>2. Recs \subseteq Recs' /\ diagnosis' \in Seq(Recommendation)
      BY <2>1, <3>1, DiagnosesAreLists
    <3>3. Log \subseteq Log'
      BY <3>2, TypesGrow
    <3>4. ran' \in [Recs' -> Nat]
      BY <2>1 DEF Recs
    <3> QED BY <1>1, <3>2, <3>3, <3>4 DEF Diagnose, column, talk, settings
  <2>2. CASE UNCHANGED <<diagnosis, ran>>
    BY <1>1, <2>2, <1>u DEF Diagnose, column, talk, settings
  <2> QED BY <1>1, <2>1, <2>2 DEF Diagnose
<1>2. CASE LoadPolicy
  BY <1>2, <1>u DEF LoadPolicy, column, runs, talk, settings
<1>3. CASE ReadLog
  BY <1>3, <1>u DEF ReadLog, column, runs, talk, settings
<1>4. CASE WriteLog
  <2>1. ran' \in [Recs -> Nat] /\ auto' \subseteq Recs
    BY <1>4, ContinueIs DEF WriteLog, Working
  <2>2. Entry(job.rec, job.status) \in LogEntry /\ job.copy \in Log
    BY <1>4, <1>h, JobHolds DEF WriteLog, Working
  <2>3. action_log' \in Log /\ logged' \in Log
    BY <1>4, <2>2 DEF WriteLog, Extended, Log
  <2>4. clobbered' \subseteq {"action_log", "conversation", "settings"}
    BY <1>4, <1>o DEF WriteLog
  <2> QED BY <1>4, <1>u, <2>1, <2>3, <2>4 DEF WriteLog, talk, settings
<1>5. CASE LogFails
  <2>1. ran' \in [Recs -> Nat] /\ auto' \subseteq Recs
    BY <1>5, ContinueIs DEF LogFails, Working
  <2> QED BY <1>5, <1>u, <2>1 DEF LogFails, column, talk, settings
<1>6. CASE ShowCard
  BY <1>6, <1>u DEF ShowCard, column, runs, talk, settings
<1>7. ASSUME NEW card, Dismiss(card) PROVE RecordShapes'
  BY <1>7, <1>u DEF Dismiss, column, runs, talk, settings
<1>8. ASSUME NEW card \in cards, NEW b \in card, NEW c \in Click, Press(c, b) PROVE RecordShapes'
  <2>1. CASE Approvable(action_log, b.index)
    <3>1. action_log[b.index] \in LogEntry /\ action_log[b.index].status = "pending"
      BY <2>1 DEF Approvable, Log
    <3>2. action_log[b.index].of \in Recs
      BY <3>1 DEF LogEntry
    <3>3. /\ ran' = [ran EXCEPT ![action_log[b.index].of] = @ + 1]
          /\ misled' \in {misled, misled \cup {c}}
      BY <1>8, <2>1 DEF Press
    <3>4. ran' \in [Recs -> Nat] /\ misled' \subseteq Click
      BY <3>2, <3>3
    <3> QED BY <1>8, <1>u, <3>4 DEF Press, column, talk, settings
  <2>2. CASE ~ Approvable(action_log, b.index)
    BY <1>8, <2>2, <1>u DEF Press, column, talk, settings
  <2> QED BY <2>1, <2>2
<1>9. ASSUME NEW c \in Click, Approved(c) PROVE RecordShapes'
  <2> DEFINE n == click[c].index
             old == click[c].copy
  <2>1. old \in Log /\ n \in DOMAIN old /\ old[n].status = "pending"
    BY <1>9, PressHolds DEF Approved, Executing, Pressed
  <2>2. PICK s \in Outcomes(TypeOf(diagnosis[old[n].of])) :
          /\ action_log' = [old EXCEPT ![n].status = s]
          /\ logged' = [m \in DOMAIN logged |->
               IF logged[m] = old[n] THEN [logged[m] EXCEPT !.status = s] ELSE logged[m]]
          /\ WriteOver("action_log", action_log, old)
    BY <1>9 DEF Approved
  <2>3. s \in {"success", "failed"}
    BY <2>2, RecordHelpers
  <2> HIDE DEF n, old
  <2>4. action_log' \in Log
    BY <2>1, <2>2, <2>3, LogAnswered
  <2>5. old[n] \in [of : Recs, status : RecStatus]
    BY <2>1, EntryIs DEF Log, RecStatus
  <2>6. [old[n] EXCEPT !.status = s] \in LogEntry
    BY <2>3, <2>5 DEF LogEntry, RecStatus
  <2>7. ASSUME NEW m \in DOMAIN logged PROVE logged'[m] \in LogEntry
    <3>1. logged'[m] = IF logged[m] = old[n] THEN [logged[m] EXCEPT !.status = s] ELSE logged[m]
      BY <2>2
    <3>2. logged[m] \in LogEntry
      BY DEF Log
    <3>3. CASE logged[m] = old[n]
      BY <2>6, <3>1, <3>3
    <3>4. CASE logged[m] # old[n]
      BY <3>1, <3>2, <3>4
    <3> QED BY <3>3, <3>4
  <2>8. logged' \in Log
    <3>1. Len(logged) \in Nat /\ DOMAIN logged = 1 .. Len(logged)
      BY DEF Log
    <3>2. DOMAIN logged' = 1 .. Len(logged) /\ logged' = [m \in 1 .. Len(logged) |-> logged'[m]]
      BY <2>2, <3>1
    <3>3. logged' \in [1 .. Len(logged) -> LogEntry]
      BY <2>7, <3>1, <3>2
    <3> QED BY <3>1, <3>3, ListOfLength DEF Log
  <2>9. clobbered' \subseteq {"action_log", "conversation", "settings"}
    BY <2>2, <1>o
  <2> QED BY <1>9, <1>u, <2>4, <2>8, <2>9 DEF Approved, runs, talk, settings
<1>10. ASSUME NEW c \in Click, ApproveFails(c) PROVE RecordShapes'
  BY <1>10, <1>u DEF ApproveFails, column, runs, talk, settings
<1>11. ASSUME NEW w \in Note, ReadForNote(w) PROVE RecordShapes'
  BY <1>11, <1>u DEF ReadForNote, column, runs, talk, settings
<1>12. ASSUME NEW w \in Note, WriteNote(w) PROVE RecordShapes'
  <2>1. note[w].copy \in Log /\ NoteEntry(w) \in LogEntry
    BY <1>12, <1>h, NoteHolds DEF WriteNote
  <2>2. action_log' \in Log /\ logged' \in Log
    BY <1>12, <2>1 DEF WriteNote, Extended, Log
  <2>3. clobbered' \subseteq {"action_log", "conversation", "settings"}
    BY <1>12, <1>o DEF WriteNote
  <2> QED BY <1>12, <1>u, <2>2, <2>3 DEF WriteNote, runs, talk, settings
<1>13. ASSUME NEW q \in Ask, AskModel(q) \/ LosesAsker(q) \/ Unanswered(q) PROVE RecordShapes'
  BY <1>13, <1>u DEF AskModel, LosesAsker, Unanswered, record, column, runs, settings
<1>14. ASSUME NEW q \in Ask, Answered(q) PROVE RecordShapes'
  <2>1. ask[q].copy \in Seq(Ask)
    BY <1>14, AskHolds DEF Answered
  <2>2. Append(ask[q].copy, q) \in Seq(Ask) /\ Append(talked, q) \in Seq(Ask)
    BY <2>1
  <2>3. conversation' \in Seq(Ask) /\ talked' \in Seq(Ask)
    BY <1>14, <2>2 DEF Answered, Extended
  <2>4. clobbered' \subseteq {"action_log", "conversation", "settings"}
    BY <1>14, <1>o DEF Answered
  <2> QED BY <1>14, <1>u, <2>3, <2>4 DEF Answered, record, column, runs, settings
<1>15. ASSUME NEW t \in Tab, Refetch(t) PROVE RecordShapes'
  BY <1>15, <1>u DEF Refetch, record, column, runs, talk
<1>p. ASSUME NEW t \in Tab, NEW p \in Switches, NEW q \in Switches, Store(t, p, q)
      PROVE  RecordShapes'
  <2>1. tab' \in [Tab -> Switches]
    BY <1>p DEF Store
  <2>2. clobbered' \subseteq {"action_log", "conversation", "settings"}
    BY <1>p, <1>o DEF Store
  <2> QED BY <1>p, <1>u, <2>1, <2>2 DEF Store, record, column, runs, talk
<1>16. ASSUME NEW t \in Tab, NEW s \in {0} \cup Tiers, Toggle(t, s) PROVE RecordShapes'
  <2>1. Flip(tab[t], s) \in Switches /\ Flip(chosen, s) \in Switches
    BY <1>h
  <2> QED BY <1>p, <1>16, <2>1 DEF Toggle
<1>18. ASSUME NEW t \in Tab, NEW l \in Lists, Relist(t, l) PROVE RecordShapes'
  <2>1. l \in [Tiers -> SUBSET Types]
    BY RecordAssumption
  <2>2. [tab[t] EXCEPT !.allowed = l] \in Switches /\ [chosen EXCEPT !.allowed = l] \in Switches
    BY <2>1 DEF Switches
  <2> QED BY <1>p, <1>18, <2>2 DEF Relist
<1>17. CASE Restart
  BY <1>17, <1>u DEF Restart, column, runs, settings
<1> QED
  BY <1>1, <1>2, <1>3, <1>4, <1>5, <1>6, <1>7, <1>8, <1>9, <1>10, <1>11, <1>12, <1>13, <1>14,
     <1>15, <1>16, <1>17, <1>18 DEF RecordNext, JobStep, Interactive

LEMMA JobTypedNext ==
  ASSUME RecordShapes, RecordStages, JobInOrder, RecordNext
  PROVE  job' \in JobStages'
<1> DEFINE Reading == [at : {"reading"}, rec : Recs, policy : Switches, status : RecStatus]
<1>1. CASE Diagnose
  BY <1>1 DEF Diagnose, JobStages
<1>2. CASE LoadPolicy
  <2>1. PICK p \in {policy, DefaultPolicy} : job' = IF p.enabled THEN Onwards(p, 0) ELSE Gone
    BY <1>2 DEF LoadPolicy
  <2>2. p \in Switches /\ diagnosis \in Seq(Recommendation)
    BY <2>1, RecordHelpers DEF RecordShapes
  <2>3. job' = Gone \/ job' \in Reading
    BY <2>1, <2>2, OnwardsIs DEF RecStatus
  <2>4. Recs' = Recs
    BY <1>2 DEF LoadPolicy, Recs
  <2> QED BY <2>3, <2>4 DEF JobStages
<1>3. CASE ReadLog
  <2>1. /\ job.rec \in Recs /\ job.policy \in Switches /\ job.status \in RecStatus
        /\ action_log \in Log
    BY <1>3, JobHolds DEF ReadLog, Working, RecordShapes
  <2>2. Recs' = Recs /\ Log' = Log
    BY <1>3 DEF ReadLog, Recs, Log, LogEntry
  <2>3. job' \in [at : {"writing"}, rec : Recs, policy : Switches, status : RecStatus, copy : Log]
    BY <1>3, <2>1 DEF ReadLog
  <2> QED BY <2>2, <2>3 DEF JobStages
<1>4. CASE WriteLog \/ LogFails
  <2>1. Working /\ Continue /\ Recs' = Recs
    BY <1>4 DEF WriteLog, LogFails, Working, Recs
  <2> QED BY <2>1, ContinueIs DEF JobStages
<1>5. CASE Restart
  BY <1>5 DEF Restart, JobStages
<1>6. CASE UNCHANGED <<job, diagnosis>>
  <2>1. JobStages' = JobStages
    BY <1>6 DEF JobStages, Recs, Log, LogEntry
  <2> QED BY <1>6, <2>1 DEF RecordStages
<1> QED
  BY <1>1, <1>2, <1>3, <1>4, <1>5, <1>6 DEF RecordNext, JobStep, ShowCard, Interactive, Dismiss,
     Press, Approved, ApproveFails, ReadForNote, WriteNote, AskModel, LosesAsker, Answered, Unanswered,
     Refetch, Toggle, Relist, Store, record

\* A log read is a log for good, a diagnosis included.
LEMMA LogsLast ==
  ASSUME RecordShapes, JobInOrder, RecordNext
  PROVE  Log \subseteq Log'
<1>1. CASE Diagnose
  <2>1. CASE UNCHANGED diagnosis
    BY <2>1 DEF Log, LogEntry, Recs
  <2>2. CASE Recs = {}
    BY <2>2, TypesGrow
  <2> QED BY <1>1, <2>1, <2>2 DEF Diagnose, JobInOrder, Recs
<1>2. CASE UNCHANGED diagnosis
  BY <1>2 DEF Log, LogEntry, Recs
<1> QED
  BY <1>1, <1>2 DEF RecordNext, JobStep, LoadPolicy, ReadLog, WriteLog, LogFails, ShowCard,
     Interactive, Dismiss, Press, Approved, ApproveFails, ReadForNote, WriteNote, AskModel,
     LosesAsker, Answered, Unanswered, Refetch, Toggle, Relist, Store, Restart, record

LEMMA NotesTypedNext ==
  ASSUME RecordShapes, RecordStages, JobInOrder, RecordNext
  PROVE  NotesTyped'
<1>1. Log \subseteq Log' /\ action_log \in Log
  BY LogsLast DEF RecordShapes
<1>2. CASE UNCHANGED note
  BY <1>1, <1>2 DEF RecordStages, NotesTyped
<1>3. ASSUME NEW w \in Note, ReadForNote(w) PROVE NotesTyped'
  BY <1>1, <1>3 DEF ReadForNote, RecordStages, NotesTyped
<1>4. ASSUME NEW w \in Note, WriteNote(w) PROVE NotesTyped'
  BY <1>1, <1>4 DEF WriteNote, RecordStages, NotesTyped, Resting
<1>5. CASE Restart
  <2>1. note' = [w \in Note |-> IF note[w].at \in {"idle", "done"} THEN note[w] ELSE Gone]
    BY <1>5 DEF Restart, Halt, RecordStages, NotesTyped
  <2> QED BY <1>1, <2>1 DEF RecordStages, NotesTyped, Resting
<1> QED
  BY <1>2, <1>3, <1>4, <1>5 DEF RecordNext, JobStep, Diagnose, LoadPolicy, ReadLog, WriteLog,
     LogFails, ShowCard, Interactive, Dismiss, Press, Approved, ApproveFails,
      AskModel, LosesAsker, Answered,
     Unanswered, Refetch, Toggle, Relist, Store, record

LEMMA PressesTypedNext ==
  ASSUME RecordShapes, RecordStages, JobInOrder, RecordNext
  PROVE  PressesTyped'
<1>1. Log \subseteq Log' /\ action_log \in Log
  BY LogsLast DEF RecordShapes
<1>2. CASE UNCHANGED click
  BY <1>1, <1>2 DEF RecordStages, PressesTyped, Executing, Pressed
<1>3. ASSUME NEW card, NEW b \in card, NEW c \in Click, Press(c, b) PROVE PressesTyped'
  <2>1. CASE Approvable(action_log, b.index)
    <3>1. b.index \in DOMAIN action_log /\ action_log[b.index].status = "pending" /\ b.index \in Nat
      BY <1>1, <2>1 DEF Approvable, Log
    <3>2. click' = [click EXCEPT ![c] =
                     [at |-> "executing", index |-> b.index, copy |-> action_log]]
      BY <1>3, <2>1 DEF Press
    <3>3. click' \in [Click -> Resting \cup [at : {"executing"}, index : Nat, copy : Log']]
      BY <1>1, <3>1, <3>2 DEF RecordStages, PressesTyped
    <3>4. ASSUME NEW d \in Click, Executing(d)'
          PROVE  (click[d].index \in DOMAIN click[d].copy /\ Pressed(d).status = "pending")'
      BY <3>1, <3>2, <3>4 DEF RecordStages, PressesTyped, Executing, Pressed
    <3> QED BY <3>3, <3>4 DEF PressesTyped
  <2>2. CASE click' = [click EXCEPT ![c] = Gone]
    BY <1>1, <2>2 DEF RecordStages, PressesTyped, Executing, Pressed, Resting, Gone
  <2> QED BY <1>3, <2>1, <2>2 DEF Press
<1>4. ASSUME NEW c \in Click, Approved(c) \/ ApproveFails(c) PROVE PressesTyped'
  <2>1. click' = [click EXCEPT ![c] = Gone]
    BY <1>4 DEF Approved, ApproveFails
  <2> QED BY <1>1, <2>1 DEF RecordStages, PressesTyped, Executing, Pressed, Resting, Gone
<1>5. CASE Restart
  <2>1. click' = [c \in Click |-> IF click[c].at \in {"idle", "done"} THEN click[c] ELSE Gone]
    BY <1>5 DEF Restart, Halt, RecordStages, PressesTyped
  <2>2. \A c \in Click : ~ Executing(c)'
    BY <2>1 DEF Executing, Gone
  <2> QED BY <1>1, <2>1, <2>2 DEF RecordStages, PressesTyped, Resting
<1> QED
  BY <1>2, <1>3, <1>4, <1>5 DEF RecordNext, JobStep, Diagnose, LoadPolicy, ReadLog, WriteLog,
     LogFails, ShowCard, Interactive, Dismiss, ReadForNote, WriteNote, AskModel, LosesAsker, Answered,
     Unanswered, Refetch, Toggle, Relist, Store, record

LEMMA QuestionsTypedNext ==
  ASSUME RecordShapes, RecordStages, RecordNext
  PROVE  QuestionsTyped'
<1>1. conversation \in Seq(Ask)
  BY DEF RecordShapes
<1>2. CASE UNCHANGED ask
  BY <1>2 DEF RecordStages, QuestionsTyped
<1>3. ASSUME NEW q \in Ask, NEW end, ask[q].at = "streaming"
      PROVE  Finished(q, end) \in [at : {"done"}, shown : {"empty", "error", "nothing", "answer"},
                                   heard : BOOLEAN]
  <2>1. Shown(q, end) \in {"empty", "error", "nothing", "answer"}
    BY DEF Shown, handleAsk, handleAskCommand
  <2>2. ask[q].hears \in BOOLEAN
    BY <1>3, AskHolds
  <2> QED BY <2>1, <2>2 DEF Finished
<1>4. ASSUME NEW q \in Ask, AskModel(q) PROVE QuestionsTyped'
  BY <1>1, <1>4 DEF AskModel, RecordStages, QuestionsTyped
<1>5. ASSUME NEW q \in Ask, Answered(q) \/ Unanswered(q) PROVE QuestionsTyped'
  <2>1. PICK end : ask' = [ask EXCEPT ![q] = Finished(q, end)] /\ ask[q].at = "streaming"
    BY <1>5 DEF Answered, Unanswered, Over
  <2>2. Finished(q, end) \in [at : {"done"}, shown : {"empty", "error", "nothing", "answer"},
                              heard : BOOLEAN]
    BY <1>3, <2>1
  <2> QED BY <2>1, <2>2 DEF RecordStages, QuestionsTyped
<1>7. ASSUME NEW q \in Ask, LosesAsker(q) PROVE QuestionsTyped'
  <2>1. ask[q] \in [at : {"streaming"}, from : {"page", "slack"}, copy : Seq(Ask), hears : BOOLEAN]
    BY <1>7 DEF LosesAsker, RecordStages, QuestionsTyped, Resting, Nobody, Gone
  <2>2. [ask[q] EXCEPT !.hears = FALSE]
          \in [at : {"streaming"}, from : {"page", "slack"}, copy : Seq(Ask), hears : BOOLEAN]
    BY <2>1
  <2>3. ask' = [ask EXCEPT ![q] = [ask[q] EXCEPT !.hears = FALSE]]
    BY <1>7 DEF LosesAsker
  <2> QED BY <2>2, <2>3 DEF RecordStages, QuestionsTyped
<1>6. CASE Restart
  <2>1. ask' = [q \in Ask |-> IF ask[q].at # "streaming" THEN ask[q]
                              ELSE Finished(q, "lost")]
    BY <1>6 DEF Restart
  <2> QED BY <1>3, <2>1 DEF RecordStages, QuestionsTyped
<1> QED
  BY <1>2, <1>4, <1>5, <1>6, <1>7 DEF RecordNext, JobStep, Diagnose, LoadPolicy, ReadLog, WriteLog,
     LogFails, ShowCard, Interactive, Dismiss, Press, Approved, ApproveFails, ReadForNote, WriteNote,
     Refetch, Toggle, Relist, Store, record, talk

-----------------------------------------------------------------------------
(* The job *)

LEMMA JobInOrderInit == RecordInit => JobInOrder
  BY DEF RecordInit, JobInOrder, Working

\* What is ahead after an entry was ahead of it.
LEMMA AheadAfterEntry ==
  ASSUME RecordShapes, RecordStages, Working, Continue, UNCHANGED diagnosis, NEW n \in Recs, Ahead(n)'
  PROVE  Ahead(n) /\ n # job.rec
<1>1. job.rec \in Nat /\ n \in Nat
  BY JobHolds DEF RecordShapes, Recs
<1>2. CASE job.status = "running"
  <2>1. PICK s \in Outcomes(TypeOf(diagnosis[job.rec])) :
          job' = [at |-> "reading", rec |-> job.rec, policy |-> job.policy, status |-> s]
    BY <1>2 DEF Continue, AfterExecutor
  <2>2. s \in {"success", "failed"}
    BY <2>1, RecordHelpers
  <2>3. n > job.rec
    BY <2>1, <2>2 DEF Ahead, Working
  <2> QED BY <1>1, <2>3 DEF Ahead
<1>3. CASE job.status # "running"
  <2>1. job' = Onwards(job.policy, job.rec)
    BY <1>3 DEF Continue
  <2>2. job' # Gone
    BY DEF Ahead, Working, Gone
  <2>3. PICK m \in Recs : m > job.rec /\ job'.at = "reading" /\ job'.rec = m
    <3>1. diagnosis \in Seq(Recommendation)
      BY DEF RecordShapes
    <3>2. PICK m \in Recs :
            /\ m > job.rec
            /\ Onwards(job.policy, job.rec) =
                 [at |-> "reading", rec |-> m, policy |-> job.policy,
                  status |-> IF Automatic(m) THEN "running" ELSE "pending"]
      BY <1>1, <2>1, <2>2, <3>1, OnwardsIs
    <3> QED
      BY <2>1, <3>2
  <2>4. n >= m /\ m \in Nat
    BY <1>1, <2>3 DEF Ahead, Working, RecordShapes, Recs
  <2> QED BY <1>1, <2>3, <2>4 DEF Ahead
<1> QED BY <1>2, <1>3

LEMMA JobInOrderNext ==
  ASSUME RecordShapes, RecordStages, JobInOrder, RecordNext
  PROVE  JobInOrder'
<1> DEFINE Taken(j) == /\ (j.status = "pending") <=> ~ Automatic(j.rec)
                       /\ j.status \in {"success", "failed"} => j.rec \in auto
<1>o. ASSUME NEW p, NEW n \in Nat, NEW j, j = Onwards(p, n), j # Gone
      PROVE  /\ j.policy = p /\ Allowed(p, diagnosis[j.rec]) /\ Taken(j)
             /\ j.at = "reading" /\ j.status \notin {"success", "failed"}
             /\ j.rec \in Recs /\ j.rec > n
  <2>1. PICK m \in Recs :
              /\ m > n /\ Allowed(p, diagnosis[m])
              /\ j = [at |-> "reading", rec |-> m, policy |-> p,
                      status |-> IF Automatic(m) THEN "running" ELSE "pending"]
    BY <1>o, OnwardsIs DEF RecordShapes
  <2>2. j.rec = m /\ j.policy = p /\ j.at = "reading" /\ j.status = IF Automatic(m) THEN "running" ELSE "pending"
    BY <2>1
  <2> QED BY <2>1, <2>2
\* What a loaded policy allows in tier 1 is admitted.
<1>a. ASSUME NEW p, Loaded(p), p.enabled, NEW n, Automatic(n), Allowed(p, diagnosis[n])
      PROVE  Admitted(n)
  BY <1>a DEF Loaded, Admitted, Unattended, Allowed, Automatic
\* Nothing admitted is turned down later.
<1>k. ASSUME UNCHANGED <<diagnosis, inForce>>, broken => broken'
      PROVE  /\ \A p : Loaded(p) => Loaded(p)'
             /\ \A n : Admitted(n) => Admitted(n)'
  BY <1>k DEF Loaded, Admitted, Unattended
<1>g. Gone.at = "done"
  BY DEF Gone
<1>n. Recs \subseteq Nat
  BY DEF RecordShapes, Recs
<1>1. CASE Diagnose
  <2>1. Recs = {} /\ auto' = {}
    BY <1>1 DEF Diagnose, JobInOrder, Recs, RecordShapes
  <2> QED BY <1>1, <1>g, <2>1 DEF Diagnose, JobInOrder, Working
<1>2. CASE LoadPolicy
  <2>1. PICK p \in {policy, DefaultPolicy} :
          job' = (IF p.enabled THEN Onwards(p, 0) ELSE Gone) /\ broken' = (broken \/ p # policy)
    BY <1>2 DEF LoadPolicy
  <2>2. diagnosis' = diagnosis /\ auto' = auto /\ auto = {}
    BY <1>2 DEF LoadPolicy, runs, JobInOrder, Ahead
  <2>3. CASE job' = Gone
    BY <1>g, <2>2, <2>3 DEF JobInOrder, Working
  <2>4. CASE job' # Gone
    <3>1. /\ job'.policy = p /\ p.enabled /\ Allowed(p, diagnosis[job'.rec]) /\ Taken(job')
          /\ job'.at = "reading" /\ job'.status \notin {"success", "failed"}
      BY <1>o, <2>1, <2>4
    <3>2. inForce' = policy
      BY <1>2 DEF LoadPolicy
    <3>3. Loaded(p)'
      BY <2>1, <3>2 DEF Loaded
    <3>4. Automatic(job'.rec) => Admitted(job.rec)'
      BY <2>1, <2>2, <3>1, <3>2 DEF Admitted, Unattended, Allowed, Automatic
    <3> QED BY <2>2, <3>1, <3>3, <3>4 DEF JobInOrder, Working, Automatic, Loaded
  <2> QED BY <2>3, <2>4
<1>3. CASE ReadLog
  <2>1. diagnosis' = diagnosis /\ auto' = auto
    BY <1>3 DEF ReadLog, runs
  <2>2. job.at = "reading" /\ job'.at = "writing" /\ job'.rec = job.rec /\ job'.status = job.status
    BY <1>3 DEF ReadLog
  <2>3. job'.policy = job.policy /\ UNCHANGED <<inForce, broken>>
    BY <1>3 DEF ReadLog, settings, mishaps
  <2> QED BY <2>1, <2>2, <2>3 DEF JobInOrder, Working, Automatic, Ahead, Loaded, Admitted, Unattended
<1>4. CASE WriteLog \/ LogFails
  <2>1. Working /\ Continue /\ UNCHANGED diagnosis
    BY <1>4 DEF WriteLog, LogFails, Working
  <2>2. job.rec \in Recs /\ Recs' = Recs /\ job.rec \in Nat
    BY <2>1, JobHolds DEF Recs
  <2>3. job'.at \notin {"diagnosing", "loading"}
    BY <1>g, <2>1, ContinueIs
  <2>6. UNCHANGED inForce /\ (broken => broken')
    BY <1>4 DEF WriteLog, LogFails, settings, mishaps
  <2>7. /\ job.policy.enabled
        /\ job.policy = inForce' \/ (broken' /\ job.policy = DefaultPolicy)
    BY <2>1, <2>6 DEF JobInOrder, Loaded
  <2>4. CASE job.status = "running"
    <3>1. PICK s \in Outcomes(TypeOf(diagnosis[job.rec])) :
            job' = [at |-> "reading", rec |-> job.rec, policy |-> job.policy, status |-> s]
      BY <2>1, <2>4 DEF Continue, AfterExecutor
    <3>2. s \in {"success", "failed"}
      BY <3>1, RecordHelpers
    <3>3. Automatic(job.rec) /\ Admitted(job.rec)
      BY <2>1, <2>4 DEF JobInOrder
    <3>4. auto' = auto \cup {job.rec}
      BY <2>1, <2>4 DEF Continue
    <3>5. \A n \in Recs : n = job.rec => ~ Ahead(n)'
      BY <2>1, AheadAfterEntry
    <3>6. \A n \in auto : ~ Ahead(n)'
      BY <2>1, AheadAfterEntry DEF JobInOrder, RecordShapes
    <3>7. job'.rec = job.rec /\ job'.policy = job.policy /\ job'.status \in {"success", "failed"}
      BY <3>1, <3>2
    <3>8. \A n : Automatic(n)' = Automatic(n)
      BY <2>1 DEF Automatic
    <3>9. \A n : Admitted(n) => Admitted(n)'
      BY <2>1, <2>6, <1>k
    <3>10. \A n \in auto' : Automatic(n)' /\ Admitted(n)' /\ ~ Ahead(n)'
      BY <2>2, <3>3, <3>4, <3>5, <3>6, <3>8, <3>9 DEF JobInOrder
    <3>11. (Loaded(job.policy) /\ job.policy.enabled)'
      BY <2>7, <3>7 DEF Loaded
    <3>12. (Automatic(job.rec) /\ Admitted(job.rec))'
      BY <3>4, <3>7, <3>10 DEF Automatic, Admitted
    <3>13. job'.rec \in auto' /\ job'.status # "pending"
      BY <3>4, <3>7
    <3> QED BY <2>3, <3>10, <3>11, <3>12, <3>13 DEF JobInOrder
  <2>5. CASE job.status # "running"
    <3>1. job' = Onwards(job.policy, job.rec) /\ auto' = auto
      BY <2>1, <2>5 DEF Continue
    <3>2. \A n \in auto : ~ Ahead(n)'
      BY <2>1, AheadAfterEntry DEF JobInOrder, RecordShapes
    <3>5. \A n : Automatic(n)' = Automatic(n)
      BY <2>1 DEF Automatic
    <3>6. \A n : Admitted(n) => Admitted(n)'
      BY <2>1, <2>6, <1>k
    <3>7. \A n \in auto' : Automatic(n)' /\ Admitted(n)' /\ ~ Ahead(n)'
      BY <3>1, <3>2, <3>5, <3>6 DEF JobInOrder
    <3>3. CASE job' = Gone
      BY <1>g, <3>3, <3>7 DEF JobInOrder, Working
    <3>4. CASE job' # Gone
      <4>1. /\ job'.policy = job.policy /\ Allowed(job.policy, diagnosis[job'.rec]) /\ Taken(job')
            /\ job'.at = "reading" /\ job'.status \notin {"success", "failed"}
        BY <1>o, <2>2, <3>1, <3>4
      <4> DEFINE n == job'.rec
      <4>2. Loaded(job.policy) /\ job.policy.enabled
        BY <2>1 DEF JobInOrder
      <4>3. Automatic(n) => Admitted(n)
        BY <1>a, <4>1, <4>2
      <4>7. UNCHANGED <<diagnosis, inForce>> /\ (broken => broken')
        BY <2>1, <2>6
      <4>4. (Automatic(job.rec) => Admitted(job.rec))'
        BY <4>3, <4>7 DEF Automatic, Admitted, Unattended
      <4>5. (Loaded(job.policy) /\ job.policy.enabled)'
        BY <2>7, <4>1 DEF Loaded
      <4>6. ((job.status = "pending") <=> ~ Automatic(job.rec))'
        BY <2>1, <4>1 DEF Automatic
      <4> QED BY <2>3, <3>7, <4>1, <4>4, <4>5, <4>6 DEF JobInOrder
    <3> QED BY <3>3, <3>4
  <2> QED BY <2>4, <2>5
<1>5. CASE Restart
  <2>1. \A n : Admitted(n) => Admitted(n)'
    BY <1>5, <1>k DEF Restart, settings
  <2> QED BY <1>5, <1>g, <2>1 DEF Restart, runs, JobInOrder, Working, Automatic, Ahead
<1>6. CASE UNCHANGED <<job, diagnosis, auto, inForce>> /\ (broken => broken')
  <2>1. \A n : Admitted(n) => Admitted(n)'
    BY <1>6, <1>k
  <2>2. Loaded(job.policy) => Loaded(job.policy)'
    BY <1>6 DEF Loaded
  <2> QED BY <1>6, <2>1, <2>2 DEF JobInOrder, Working, Automatic, Ahead
<1>7. ASSUME ShowCard \/ Interactive \/ \E c \in Click : Approved(c) \/ ApproveFails(c)
      PROVE  UNCHANGED <<job, diagnosis, auto, inForce>> /\ (broken => broken')
  <2>1. CASE ShowCard
    BY <2>1 DEF ShowCard, runs, settings, mishaps
  <2>2. ASSUME NEW c, NEW b, Press(c, b)
        PROVE  UNCHANGED <<job, diagnosis, auto, inForce, broken>>
    BY <2>2 DEF Press, settings, mishaps
  <2>3. CASE Interactive
    BY <2>2, <2>3 DEF Interactive, Dismiss, runs, settings, mishaps
  <2>4. ASSUME NEW c \in Click, Approved(c) PROVE UNCHANGED <<job, diagnosis, auto, inForce, broken>>
    BY <2>4 DEF Approved, runs, settings, mishaps
  <2>5. ASSUME NEW c \in Click, ApproveFails(c)
        PROVE  UNCHANGED <<job, diagnosis, auto, inForce>> /\ (broken => broken')
    BY <2>5 DEF ApproveFails, runs, settings
  <2> QED
    BY <1>7, <2>1, <2>3, <2>4, <2>5
<1>8. ASSUME \/ \E w \in Note : ReadForNote(w) \/ WriteNote(w)
             \/ \E q \in Ask : AskModel(q) \/ LosesAsker(q) \/ Answered(q) \/ Unanswered(q)
      PROVE  UNCHANGED <<job, diagnosis, auto, inForce>> /\ (broken => broken')
  BY <1>8 DEF ReadForNote, WriteNote, AskModel, LosesAsker, Answered, Unanswered,
     record, runs, settings, mishaps
<1>9. ASSUME NEW t \in Tab,
             Refetch(t) \/ (\E s \in {0} \cup Tiers : Toggle(t, s)) \/ \E l \in Lists : Relist(t, l)
      PROVE  UNCHANGED <<job, diagnosis, auto, inForce>> /\ (broken => broken')
  BY <1>9 DEF Refetch, Toggle, Relist, Store, record, runs, mishaps
<1> QED
  BY <1>1, <1>2, <1>3, <1>4, <1>5, <1>6, <1>7, <1>8, <1>9 DEF RecordNext, JobStep

-----------------------------------------------------------------------------
(* The conversation and the settings *)

LEMMA ColumnsInOrderInit == RecordInit => ColumnsInOrder
  BY DEF RecordInit, ColumnsInOrder

LEMMA ColumnsInOrderNext ==
  ASSUME RecordShapes, RecordStages, ColumnsInOrder, RecordNext
  PROVE  ColumnsInOrder'
<1>o. /\ \A current, copy :
           WriteOver("conversation", current, copy) /\ "conversation" \notin clobbered' =>
             copy = current /\ clobbered' = clobbered
      /\ \A current, copy :
           WriteOver("settings", current, copy) /\ "settings" \notin clobbered' =>
             copy = current /\ clobbered' = clobbered
      /\ \A field, current, copy : WriteOver(field, current, copy) => clobbered \subseteq clobbered'
  BY DEF WriteOver
<1>t. \A n \in DOMAIN talked : talked[n] \in Ask
  BY DEF RecordShapes
<1>1. CASE UNCHANGED <<conversation, talked, ask, policy, chosen>> /\ clobbered \subseteq clobbered'
  BY <1>1 DEF ColumnsInOrder
<1>2. ASSUME NEW q \in Ask, AskModel(q) PROVE ColumnsInOrder'
  BY <1>2, <1>t DEF AskModel, settings, ColumnsInOrder, RecordStages, QuestionsTyped, Nobody
<1>3. ASSUME NEW q \in Ask, Unanswered(q) \/ LosesAsker(q) PROVE ColumnsInOrder'
  <2>1. ask[q].at = "streaming" /\ \A r \in Ask \ {q} : ask'[r] = ask[r]
    BY <1>3 DEF Unanswered, LosesAsker, Over, RecordStages, QuestionsTyped
  <2>2. \A n \in DOMAIN talked : talked[n] # q
    BY <2>1 DEF ColumnsInOrder
  <2> QED BY <1>3, <1>t, <2>1, <2>2 DEF Unanswered, LosesAsker, settings, ColumnsInOrder
<1>4. ASSUME NEW q \in Ask, Answered(q) PROVE ColumnsInOrder'
  <2>1. /\ ask[q].at = "streaming" /\ \A r \in Ask \ {q} : ask'[r] = ask[r]
        /\ ask'[q].at = "done" /\ (ask'[q].heard => ask'[q].shown = "answer")
    <3>1. ask[q].at = "streaming" /\ ask' = [ask EXCEPT ![q] = Finished(q, "done")]
      BY <1>4 DEF Answered, Over
    <3>2. ask'[q] = Finished(q, "done") /\ \A r \in Ask \ {q} : ask'[r] = ask[r]
      BY <3>1 DEF RecordStages, QuestionsTyped
    <3>3. ask[q].hears => Shown(q, "done") = "answer"
      BY DEF Shown, handleAsk, handleAskCommand
    <3> QED BY <3>1, <3>2, <3>3 DEF Finished
  <2>2. UNCHANGED <<policy, chosen>>
    BY <1>4 DEF Answered, settings
  <2>3. CASE UNCHANGED <<conversation, talked, clobbered>>
    BY <1>t, <2>1, <2>2, <2>3 DEF ColumnsInOrder
  <2>4. CASE /\ conversation' = Extended(ask[q].copy, q) /\ talked' = Append(talked, q)
             /\ WriteOver("conversation", conversation, ask[q].copy)
    <3>1. "conversation" \notin clobbered' => conversation' = talked'
      BY <1>o, <2>4 DEF Extended, ColumnsInOrder
    <3>2. "settings" \notin clobbered' => policy' = chosen'
      BY <1>o, <2>2, <2>4 DEF ColumnsInOrder
    <3>3. \A n \in DOMAIN talked' :
            talked'[n] = q \/ (n \in DOMAIN talked /\ talked'[n] = talked[n])
      <4>1. talked \in Seq(Ask) /\ talked' = Append(talked, q)
        BY <2>4 DEF RecordShapes
      <4> QED BY <4>1
    <3>4. ASSUME NEW n \in DOMAIN talked'
          PROVE  /\ ask'[talked'[n]].at = "done"
                 /\ ask'[talked'[n]].heard => ask'[talked'[n]].shown = "answer"
      BY <1>t, <2>1, <3>3 DEF ColumnsInOrder
    <3> QED BY <3>1, <3>2, <3>4 DEF ColumnsInOrder
  <2> QED BY <1>4, <2>3, <2>4 DEF Answered
<1>p. ASSUME NEW t \in Tab, NEW p, NEW q, Store(t, p, q), tab[t] = policy /\ policy = chosen => p = q
      PROVE  ColumnsInOrder'
  <2>1. "settings" \notin clobbered' => policy' = chosen'
    BY <1>p, <1>o DEF Store, ColumnsInOrder
  <2> QED BY <1>p, <1>o, <2>1 DEF Store, talk, ColumnsInOrder
<1>5. ASSUME NEW t \in Tab,
             (\E s \in {0} \cup Tiers : Toggle(t, s)) \/ \E l \in Lists : Relist(t, l)
      PROVE  ColumnsInOrder'
  BY <1>5, <1>p DEF Toggle, Relist
<1>6. CASE Restart
  <2>1. \A q \in Ask : ask[q].at # "streaming" => ask'[q] = ask[q]
    BY <1>6 DEF Restart
  <2>2. \A n \in DOMAIN talked : ask'[talked[n]] = ask[talked[n]]
    BY <1>t, <2>1 DEF ColumnsInOrder
  <2> QED BY <1>6, <2>2 DEF Restart, settings, ColumnsInOrder
<1> QED
  BY <1>1, <1>2, <1>3, <1>4, <1>5, <1>6, <1>o DEF RecordNext, JobStep, Diagnose, LoadPolicy, ReadLog,
     WriteLog, LogFails, ShowCard, Interactive, Dismiss, Press, Approved, ApproveFails, ReadForNote,
     WriteNote, Refetch, talk, settings

-----------------------------------------------------------------------------
(* The log *)

LEMMA LogInOrderInit == RecordInit => LogInOrder
<1> SUFFICES ASSUME RecordInit PROVE LogKept
  BY DEF LogInOrder
<1>1. action_log = <<>> /\ logged = <<>> /\ misled = {} /\ cards = {}
  BY DEF RecordInit
<1>2. \A c \in Click : ~ Executing(c)
  BY DEF RecordInit, Executing, Nobody
<1>3. \A k, n : ~ EntryOf(k, n)
  BY <1>1 DEF EntryOf
<1> QED
  BY <1>1, <1>2, <1>3 DEF LogKept, NothingAhead, OneEntryEach, PendingToApprove, ButtonsHold, PressesHold

LEMMA ClobberedStays ==
  ASSUME RecordNext
  PROVE  clobbered \subseteq clobbered'
<1>1. \A field, current, copy : WriteOver(field, current, copy) => clobbered \subseteq clobbered'
  BY DEF WriteOver
<1>2. CASE UNCHANGED clobbered
  BY <1>2
<1> QED
  BY <1>1, <1>2 DEF RecordNext, JobStep, Diagnose, LoadPolicy, ReadLog, WriteLog, LogFails, ShowCard,
     Interactive, Dismiss, Press, Approved, ApproveFails, ReadForNote,
      WriteNote, AskModel, LosesAsker, Answered,
     Unanswered, Refetch, Toggle, Relist, Store, Restart

\* Nothing gets ahead again.
LEMMA AheadBefore ==
  ASSUME RecordShapes, RecordStages, RecordNext, UNCHANGED diagnosis, NEW n \in Recs, Ahead(n)'
  PROVE  Ahead(n)
<1>1. CASE WriteLog \/ LogFails
  BY <1>1, AheadAfterEntry DEF WriteLog, LogFails, Working
<1>2. CASE Diagnose \/ LoadPolicy
  BY <1>2 DEF Diagnose, LoadPolicy, Ahead
<1>3. CASE ReadLog
  BY <1>3 DEF ReadLog, Ahead, Working
<1>4. CASE Restart
  BY <1>4 DEF Restart, Ahead, Working, Gone
<1>5. CASE UNCHANGED job
  BY <1>5 DEF Ahead, Working
<1> QED
  BY <1>1, <1>2, <1>3, <1>4, <1>5 DEF RecordNext, JobStep, ShowCard, Interactive, Dismiss, Press,
     Approved, ApproveFails, ReadForNote, WriteNote, AskModel,
      LosesAsker, Answered, Unanswered, Refetch, Toggle, Relist, Store,
     record

\* The entries of a log one entry longer.
LEMMA EntriesAppended ==
  ASSUME action_log \in Log, NEW e, action_log' = Append(action_log, e)
  PROVE  /\ DOMAIN action_log' = DOMAIN action_log \cup {Len(action_log) + 1}
         /\ Len(action_log) + 1 \notin DOMAIN action_log /\ Len(action_log) + 1 \in Nat
         /\ \A k \in DOMAIN action_log : action_log'[k] = action_log[k]
         /\ action_log'[Len(action_log) + 1] = e
         /\ \A k, n : EntryOf(k, n)' <=>
              \/ EntryOf(k, n)
              \/ k = Len(action_log) + 1 /\ e.of = n /\ e.status \in RecStatus
<1>1. /\ Len(action_log) \in Nat /\ DOMAIN action_log = 1 .. Len(action_log)
  BY DEF Log
<1>2. /\ DOMAIN action_log' = DOMAIN action_log \cup {Len(action_log) + 1}
      /\ \A k \in DOMAIN action_log : action_log'[k] = action_log[k]
      /\ action_log'[Len(action_log) + 1] = e
  BY <1>1 DEF Log
<1> QED BY <1>1, <1>2 DEF EntryOf

\* An entry that is logged in its turn leaves the log in order.
LEMMA LogKeptAppended ==
  ASSUME RecordShapes, LogKept, NEW e \in LogEntry,
         action_log' = Append(action_log, e), logged' = Append(logged, e),
         UNCHANGED <<diagnosis, cards, click, misled>>,
         e.status \in RecStatus => Ahead(e.of) \/ Automatic(e.of),
         e.status = "pending" => ~ Automatic(e.of),
         \A n \in Recs : Ahead(n)' => Ahead(n) /\ ~ (e.status \in RecStatus /\ n = e.of)
  PROVE  LogKept'
<1> DEFINE new == Len(action_log) + 1
<1>1. /\ DOMAIN action_log' = DOMAIN action_log \cup {new} /\ new \notin DOMAIN action_log
      /\ \A k \in DOMAIN action_log : action_log'[k] = action_log[k]
      /\ action_log'[new] = e
      /\ \A k, n : EntryOf(k, n)' <=>
           \/ EntryOf(k, n)
           \/ k = new /\ e.of = n /\ e.status \in RecStatus
  BY EntriesAppended DEF RecordShapes
<1> HIDE DEF new
<1>2. Recs' = Recs /\ \A n : Automatic(n)' = Automatic(n)
  BY DEF Recs, Automatic
<1>3. NothingAhead'
  BY <1>1, <1>2 DEF LogKept, NothingAhead
<1>4. OneEntryEach'
  <2>1. ASSUME NEW n \in Recs, ~ Automatic(n), e.of = n, e.status \in RecStatus, NEW k \in Nat
        PROVE  ~ EntryOf(k, n)
    BY <2>1 DEF LogKept, NothingAhead
  <2> QED BY <1>1, <1>2, <2>1 DEF LogKept, OneEntryEach
<1>5. PendingToApprove'
  BY <1>1, <1>2 DEF LogKept, PendingToApprove
<1>6. ButtonsHold'
  BY <1>1 DEF LogKept, ButtonsHold
<1>7. PressesHold'
  BY <1>1 DEF LogKept, PressesHold, Executing, Pressed
<1> QED BY <1>3, <1>4, <1>5, <1>6, <1>7 DEF LogKept

\* An approval whose copy is still the log changes one status in it.
LEMMA ApprovalIs ==
  ASSUME RecordShapes, RecordStages, LogInOrder, NEW c \in Click, Approved(c), Unclobbered'
  PROVE  /\ Unclobbered /\ action_log' = logged' /\ DOMAIN action_log' = DOMAIN action_log
         /\ click[c].index \in DOMAIN action_log
         /\ Pressed(c) = action_log[click[c].index] /\ Pressed(c).status = "pending"
         /\ \A k \in DOMAIN action_log :
              /\ action_log'[k].of = action_log[k].of
              /\ k # click[c].index => action_log'[k] = action_log[k]
         /\ action_log'[click[c].index].status \in {"success", "failed"}
<1> DEFINE n == click[c].index
           old == click[c].copy
<1>1. old \in Log /\ n \in DOMAIN old /\ old[n].status = "pending" /\ Pressed(c) = old[n]
  BY PressHolds DEF Approved, Executing, Pressed
<1>2. PICK s \in Outcomes(TypeOf(diagnosis[old[n].of])) :
        /\ action_log' = [old EXCEPT ![n].status = s]
        /\ logged' = [m \in DOMAIN logged |->
             IF logged[m] = old[n] THEN [logged[m] EXCEPT !.status = s] ELSE logged[m]]
        /\ WriteOver("action_log", action_log, old)
  BY DEF Approved
<1>3. s \in {"success", "failed"}
  BY <1>2, RecordHelpers
<1>4. Unclobbered /\ old = action_log
  BY <1>2 DEF WriteOver, Unclobbered
<1>5. LogKept /\ logged = action_log
  BY <1>4 DEF LogInOrder, LogKept
<1> HIDE DEF n, old
<1>6. old[n] \in [of : Recs, status : RecStatus]
  BY <1>1, EntryIs DEF Log, RecStatus
<1>7. ASSUME NEW m \in DOMAIN old, old[m] = old[n] PROVE m = n
  <2>1. ~ Automatic(old[n].of) /\ old[n].of \in Recs
    BY <1>1, <1>4, <1>5, <1>6 DEF LogKept, PendingToApprove
  <2>2. m \in Nat /\ n \in Nat
    BY <1>1 DEF Log
  <2> QED BY <1>1, <1>4, <1>5, <1>6, <1>7, <2>1, <2>2 DEF LogKept, OneEntryEach, EntryOf
<1>8. ASSUME NEW k \in DOMAIN old
      PROVE  action_log'[k] = IF k = n THEN [old[k] EXCEPT !.status = s] ELSE old[k]
  BY <1>2
<1>9. DOMAIN action_log' = DOMAIN old /\ DOMAIN logged' = DOMAIN old
  BY <1>2, <1>4, <1>5
<1>10. ASSUME NEW k \in DOMAIN old PROVE logged'[k] = action_log'[k]
  BY <1>2, <1>4, <1>5, <1>7, <1>8
<1>11. action_log' = logged'
  <2>1. action_log' = [k \in DOMAIN old |-> action_log'[k]]
    BY <1>2, <1>9
  <2>2. logged' = [k \in DOMAIN old |-> logged'[k]]
    BY <1>2, <1>4, <1>5
  <2> QED BY <1>10, <2>1, <2>2
<1>12. ASSUME NEW k \in DOMAIN old
       PROVE  /\ action_log'[k].of = old[k].of
              /\ k # n => action_log'[k] = old[k]
              /\ k = n => action_log'[k].status = s
  <2>1. CASE k = n
    BY <1>6, <1>8, <2>1
  <2>2. CASE k # n
    BY <1>8, <2>2
  <2> QED BY <2>1, <2>2
<1> QED BY <1>1, <1>3, <1>4, <1>9, <1>11, <1>12 DEF n, old

\* The log is left alone: what may change are the job, cards and presses.
LEMMA LogKeptAlone ==
  ASSUME RecordShapes, LogKept, UNCHANGED <<action_log, logged, diagnosis>>,
         misled' = {}, \A n \in Recs : Ahead(n)' => Ahead(n), ButtonsHold', PressesHold'
  PROVE  LogKept'
<1>1. Recs' = Recs /\ \A n : Automatic(n)' = Automatic(n)
  BY DEF Recs, Automatic
<1>2. \A k, n : EntryOf(k, n)' = EntryOf(k, n)
  BY DEF EntryOf
<1>3. NothingAhead'
  BY <1>1, <1>2 DEF LogKept, NothingAhead
<1>4. OneEntryEach'
  BY <1>1, <1>2 DEF LogKept, OneEntryEach
<1>5. PendingToApprove'
  BY <1>1 DEF LogKept, PendingToApprove
<1> QED BY <1>3, <1>4, <1>5 DEF LogKept

LEMMA LogInOrderNext ==
  ASSUME RecordShapes, RecordStages, JobInOrder, LogInOrder, RecordNext
  PROVE  LogInOrder'
<1> SUFFICES ASSUME Unclobbered' PROVE LogKept'
  BY DEF LogInOrder
<1>1. LogKept
  BY ClobberedStays DEF Unclobbered, LogInOrder
<1>a. UNCHANGED diagnosis => \A n \in Recs : Ahead(n)' => Ahead(n)
  BY AheadBefore
<1>l. action_log \in Log
  BY DEF RecordShapes
<1>e. UNCHANGED action_log => \A k, n : EntryOf(k, n)' = EntryOf(k, n)
  BY DEF EntryOf
<1>2. CASE Diagnose
  <2>1. UNCHANGED <<action_log, logged, cards, click, misled>>
    BY <1>2 DEF Diagnose, column
  <2>2. CASE UNCHANGED diagnosis
    <3>1. ButtonsHold' /\ PressesHold' /\ misled' = {}
      BY <1>1, <1>e, <2>1 DEF LogKept, ButtonsHold, PressesHold, Executing, Pressed
    <3> QED BY <1>1, <1>a, <2>1, <2>2, <3>1, LogKeptAlone
  <2>3. CASE Recs = {}
    <3>1. /\ \A c \in Click : ~ Executing(c)
          /\ \A k \in DOMAIN action_log : action_log[k].status \notin RecStatus
      BY <2>3, NothingToApprove
    <3>2. \A k, n : ~ EntryOf(k, n)'
      BY <2>1, <3>1 DEF EntryOf
    <3>3. \A c \in Click : ~ Executing(c)'
      BY <2>1, <3>1 DEF Executing
    <3>4. NothingAhead' /\ OneEntryEach' /\ PendingToApprove' /\ PressesHold'
      BY <2>1, <3>1, <3>2, <3>3 DEF NothingAhead, OneEntryEach, PendingToApprove, PressesHold, RecStatus
    <3>5. ButtonsHold' /\ action_log' = logged' /\ misled' = {}
      BY <1>1, <2>1 DEF LogKept, ButtonsHold
    <3> QED BY <3>4, <3>5 DEF LogKept
  <2> QED BY <1>2, <2>2, <2>3 DEF Diagnose, JobInOrder, Recs
<1>3. CASE WriteLog
  <2> DEFINE e == Entry(job.rec, job.status)
  <2>1. /\ action_log' = Append(action_log, e) /\ logged' = Append(logged, e)
        /\ UNCHANGED <<diagnosis, cards, click, misled>> /\ Working /\ Continue
    BY <1>3 DEF WriteLog, Extended, WriteOver, Unclobbered, Working
  <2>2. job.rec \in Recs /\ job.status \in RecStatus
    BY <2>1, JobHolds
  <2>3. e \in LogEntry /\ e.of = job.rec /\ e.status = job.status
    BY <2>2, RecordHelpers DEF Entry
  <2>4. e.status \in RecStatus => Ahead(e.of) \/ Automatic(e.of)
    BY <2>1, <2>2, <2>3 DEF JobInOrder, Ahead, RecStatus
  <2>5. e.status = "pending" => ~ Automatic(e.of)
    BY <2>1, <2>3 DEF JobInOrder
  <2>6. \A n \in Recs : Ahead(n)' => Ahead(n) /\ ~ (e.status \in RecStatus /\ n = e.of)
    BY <2>1, <2>3, AheadAfterEntry
  <2> HIDE DEF e
  <2> QED BY <1>1, <2>1, <2>3, <2>4, <2>5, <2>6, LogKeptAppended
<1>4. ASSUME NEW w \in Note, WriteNote(w) PROVE LogKept'
  <2> DEFINE e == NoteEntry(w)
  <2>1. /\ action_log' = Append(action_log, e) /\ logged' = Append(logged, e)
        /\ UNCHANGED <<diagnosis, cards, click, misled>>
    BY <1>4 DEF WriteNote, Extended, WriteOver, Unclobbered, runs
  <2>2. e \in LogEntry /\ e.status = "note"
    BY RecordHelpers DEF NoteEntry
  <2>3. "note" \notin RecStatus /\ "pending" # "note"
    BY DEF RecStatus
  <2> HIDE DEF e
  <2> QED BY <1>1, <1>a, <2>1, <2>2, <2>3, LogKeptAppended
<1>5. ASSUME NEW c \in Click, Approved(c) PROVE LogKept'
  <2> DEFINE n == click[c].index
  <2>1. /\ action_log' = logged' /\ DOMAIN action_log' = DOMAIN action_log /\ n \in DOMAIN action_log
        /\ Pressed(c) = action_log[n] /\ action_log[n].status = "pending"
        /\ \A k \in DOMAIN action_log :
             /\ action_log'[k].of = action_log[k].of
             /\ k # n => action_log'[k] = action_log[k]
        /\ action_log'[n].status \in {"success", "failed"}
    BY <1>5, ApprovalIs
  <2>2. UNCHANGED <<diagnosis, job, cards, misled>> /\ click' = [click EXCEPT ![c] = Gone]
    BY <1>5 DEF Approved, runs
  <2> HIDE DEF n
  <2>3. \A k, m : EntryOf(k, m)' <=> EntryOf(k, m)
    BY <2>1 DEF EntryOf, RecStatus
  <2>4. Recs' = Recs /\ \A m : Automatic(m)' = Automatic(m) /\ Ahead(m)' = Ahead(m)
    BY <2>2 DEF Recs, Automatic, Ahead, Working
  <2>5. NothingAhead' /\ OneEntryEach'
    BY <1>1, <2>3, <2>4 DEF LogKept, NothingAhead, OneEntryEach
  <2>6. PendingToApprove'
    BY <1>1, <2>1, <2>4 DEF LogKept, PendingToApprove
  <2>7. ButtonsHold'
    BY <1>1, <2>1, <2>2 DEF LogKept, ButtonsHold
  <2>8. ASSUME NEW d \in Click, Executing(d)'
        PROVE  Executing(d) /\ click'[d] = click[d]
    BY <2>2, <2>8 DEF Executing, Gone, RecordStages, PressesTyped
  <2>9. PressesHold'
    BY <1>1, <2>3, <2>8 DEF LogKept, PressesHold, Pressed
  <2> QED BY <1>1, <2>1, <2>2, <2>5, <2>6, <2>7, <2>9 DEF LogKept
<1>6. ASSUME NEW card \in cards, NEW b \in card, NEW c \in Click, Press(c, b) PROVE LogKept'
  <2>1. UNCHANGED <<action_log, logged, diagnosis, cards>>
    BY <1>6 DEF Press, column
  <2>2. ButtonsHold'
    BY <1>1, <2>1 DEF LogKept, ButtonsHold
  <2>3. CASE Approvable(action_log, b.index)
    <3>1. misled' = {}
      BY <1>1, <1>6, <2>3 DEF Press, LogKept, ButtonsHold
    <3>2. click' = [click EXCEPT ![c] =
                     [at |-> "executing", index |-> b.index, copy |-> action_log]]
      BY <1>6, <2>3 DEF Press
    <3>3. EntryOf(b.index, action_log[b.index].of)
      BY <2>3 DEF Approvable, EntryOf, RecStatus
    <3>4. ASSUME NEW d \in Click, Executing(d)' PROVE EntryOf(click[d].index, Pressed(d).of)'
      <4>1. CASE d = c
        <5>1. click'[d] = [at |-> "executing", index |-> b.index, copy |-> action_log]
          BY <3>2, <4>1 DEF RecordStages, PressesTyped
        <5>2. click'[d].index = b.index /\ Pressed(d)' = action_log[b.index]
          BY <5>1 DEF Pressed
        <5> QED BY <1>e, <2>1, <3>3, <5>2
      <4>2. CASE d # c
        <5>1. click'[d] = click[d]
          BY <3>2, <4>2 DEF RecordStages, PressesTyped
        <5>2. Executing(d) /\ Pressed(d)' = Pressed(d)
          BY <3>4, <5>1 DEF Executing, Pressed
        <5> QED BY <1>1, <1>e, <2>1, <5>1, <5>2 DEF LogKept, PressesHold
      <4> QED BY <4>1, <4>2
    <3>5. PressesHold'
      BY <3>4 DEF PressesHold
    <3> QED BY <1>1, <1>a, <2>1, <2>2, <3>1, <3>5, LogKeptAlone
  <2>4. CASE ~ Approvable(action_log, b.index)
    <3>1. misled' = {} /\ click' = [click EXCEPT ![c] = Gone]
      BY <1>1, <1>6, <2>4 DEF Press, LogKept
    <3>2. PressesHold'
      BY <1>1, <1>e, <2>1, <3>1 DEF LogKept, PressesHold, Executing, Pressed, Gone,
         RecordStages, PressesTyped
    <3> QED BY <1>1, <1>a, <2>1, <2>2, <3>1, <3>2, LogKeptAlone
  <2> QED BY <2>3, <2>4
<1>7. CASE ShowCard
  <2>1. UNCHANGED <<action_log, logged, diagnosis, click, misled>>
    BY <1>7 DEF ShowCard, column, runs
  <2>2. \A b \in buildIncidentCard : b.index \in DOMAIN action_log /\ action_log[b.index].of = b.of
    <3>1. ASSUME NEW b \in buildIncidentCard
          PROVE  b.index \in DOMAIN action_log /\ action_log[b.index].of = b.of
      <4>1. PICK n \in Pending : b = [index |-> n, of |-> action_log[n].of]
        BY DEF buildIncidentCard, Position
      <4> QED BY <4>1 DEF Pending
    <3> QED BY <3>1
  <2>3. ButtonsHold'
    BY <1>1, <1>7, <2>1, <2>2 DEF LogKept, ButtonsHold, ShowCard
  <2>4. PressesHold' /\ misled' = {}
    BY <1>1, <1>e, <2>1 DEF LogKept, PressesHold, Executing, Pressed
  <2> QED BY <1>1, <1>a, <2>1, <2>3, <2>4, LogKeptAlone
<1>8. CASE /\ UNCHANGED <<action_log, logged, diagnosis, misled>>
           /\ cards' \subseteq cards
           /\ \A d \in Click : Executing(d)' => Executing(d) /\ click'[d] = click[d]
  <2>1. ButtonsHold' /\ PressesHold' /\ misled' = {}
    BY <1>1, <1>e, <1>8 DEF LogKept, ButtonsHold, PressesHold, Pressed
  <2> QED BY <1>1, <1>a, <1>8, <2>1, LogKeptAlone
<1>9. UNCHANGED click => \A d \in Click : Executing(d)' => Executing(d) /\ click'[d] = click[d]
  BY DEF Executing
<1>10. CASE LoadPolicy \/ ReadLog \/ LogFails
  BY <1>8, <1>9, <1>10 DEF LoadPolicy, ReadLog, LogFails, column, runs
<1>11. ASSUME NEW card, Dismiss(card) PROVE LogKept'
  BY <1>8, <1>9, <1>11 DEF Dismiss, column, runs
<1>12. ASSUME NEW c \in Click, ApproveFails(c) PROVE LogKept'
  <2>1. \A d \in Click : Executing(d)' => Executing(d) /\ click'[d] = click[d]
    BY <1>12 DEF ApproveFails, Executing, Gone, RecordStages, PressesTyped
  <2> QED BY <1>8, <1>12, <2>1 DEF ApproveFails, column, runs
<1>13. ASSUME NEW w \in Note, ReadForNote(w) PROVE LogKept'
  BY <1>8, <1>9, <1>13 DEF ReadForNote, column, runs
<1>14. CASE UNCHANGED record
  BY <1>8, <1>9, <1>14 DEF record, column, runs
<1>15. CASE Restart
  <2>1. click' = [c \in Click |-> IF click[c].at \in {"idle", "done"} THEN click[c] ELSE Gone]
    BY <1>15 DEF Restart, Halt, RecordStages, PressesTyped
  <2>2. \A c \in Click : ~ Executing(c)'
    BY <2>1 DEF Executing, Gone
  <2> QED BY <1>8, <1>15, <2>2 DEF Restart, column, runs
<1> QED
  BY <1>2, <1>3, <1>4, <1>5, <1>6, <1>7, <1>10, <1>11, <1>12, <1>13, <1>14, <1>15
  DEF RecordNext, JobStep, Interactive, AskModel, LosesAsker, Answered, Unanswered,
      Refetch, Toggle, Relist, Store

-----------------------------------------------------------------------------
(* Executions *)

LEMMA RunsInOrderInit == RecordInit => RunsInOrder
  BY DEF RecordInit, RunsInOrder, Recs

\* What has happened to a recommendation stays so when its entries, its presses and
\* its executions do.
LEMMA RunsOfKept ==
  ASSUME NEW n \in Recs, RunsOf(n), UNCHANGED diagnosis, Ahead(n)' => Ahead(n),
         ran'[n] = ran[n], n \in auto' <=> n \in auto,
         \A k \in Nat : EntryOf(k, n) => EntryOf(k, n)' /\ action_log'[k].status = action_log[k].status,
         \A c \in Click : PressOf(c, n) => PressOf(c, n)'
  PROVE  RunsOf(n)'
<1>1. Automatic(n)' = Automatic(n)
  BY DEF Automatic
<1>2. \A k \in Nat : RunsNoted(k, n) => RunsNoted(k, n)'
  BY DEF RunsNoted
<1> QED BY <1>1, <1>2 DEF RunsOf

LEMMA RunsInOrderNext ==
  ASSUME RecordShapes, RecordStages, JobInOrder, LogInOrder, RunsInOrder, RecordNext
  PROVE  RunsInOrder'
<1> SUFFICES ASSUME Unclobbered', ~ broken', NEW n \in Recs' PROVE RunsOf(n)'
  BY DEF RunsInOrder
<1>1. Unclobbered /\ LogKept
  BY ClobberedStays DEF Unclobbered, LogInOrder
<1>a. UNCHANGED diagnosis => Recs' = Recs /\ \A m \in Recs : Ahead(m)' => Ahead(m)
  BY AheadBefore DEF Recs
<1>r. ~ broken => \A m \in Recs : RunsOf(m)
  BY <1>1 DEF RunsInOrder
<1>e. UNCHANGED action_log =>
        \A k, m : EntryOf(k, m) => EntryOf(k, m)' /\ action_log'[k].status = action_log[k].status
  BY DEF EntryOf
<1>p. \A c \in Click : \A m : PressOf(c, m) /\ click'[c] = click[c] => PressOf(c, m)'
  BY DEF PressOf, Executing, Pressed
<1>2. CASE Diagnose
  <2>1. Recs = {} /\ ran' = [m \in DOMAIN diagnosis' |-> 0] /\ auto' = auto
    BY <1>2 DEF Diagnose, JobInOrder, Recs
  <2>2. auto' = {} /\ ran'[n] = 0
    BY <2>1 DEF RecordShapes, Recs
  <2> QED BY <2>2 DEF RunsOf
<1>3. CASE WriteLog
  <2> DEFINE e == Entry(job.rec, job.status)
  <2>1. /\ action_log' = Append(action_log, e) /\ UNCHANGED <<diagnosis, click, broken>>
        /\ Working /\ Continue
    BY <1>3 DEF WriteLog, Extended, WriteOver, Unclobbered, Working, mishaps
  <2>2. n \in Recs /\ RunsOf(n)
    BY <1>a, <1>r, <2>1
  <2>3. \A k \in Nat : EntryOf(k, n) => EntryOf(k, n)' /\ action_log'[k].status = action_log[k].status
    BY <2>1, EntriesAppended DEF RecordShapes, EntryOf
  <2>4. \A c \in Click : PressOf(c, n) => PressOf(c, n)'
    BY <1>p, <2>1
  <2>5. CASE job.status = "running" /\ n = job.rec
    <3>1. Automatic(n) /\ Ahead(n)
      BY <2>1, <2>5 DEF JobInOrder, Ahead
    <3>2. ran'[n] = 1 /\ n \in auto'
      <4>1. ran' = [ran EXCEPT ![n] = @ + 1] /\ auto' = auto \cup {n}
        BY <2>1, <2>5 DEF Continue
      <4>2. ran[n] = 0
        BY <2>2, <3>1 DEF RunsOf
      <4> QED BY <2>2, <4>1, <4>2 DEF RecordShapes
    <3>3. ~ Ahead(n)'
      BY <2>1, <2>2, <2>5, AheadAfterEntry
    <3>4. Automatic(n)'
      BY <2>1, <3>1 DEF Automatic
    <3> QED BY <3>2, <3>3, <3>4 DEF RunsOf
  <2>6. CASE ~ (job.status = "running" /\ n = job.rec)
    <3>1. ran'[n] = ran[n] /\ (n \in auto' <=> n \in auto)
      BY <2>1, <2>2, <2>6 DEF Continue, RecordShapes
    <3> QED BY <1>a, <2>1, <2>2, <2>3, <2>4, <3>1, RunsOfKept
  <2> QED BY <2>5, <2>6
<1>4. ASSUME NEW w \in Note, WriteNote(w) PROVE RunsOf(n)'
  <2> DEFINE e == NoteEntry(w)
  <2>1. /\ action_log' = Append(action_log, e)
        /\ UNCHANGED <<diagnosis, click, broken, ran, auto>>
    BY <1>4 DEF WriteNote, Extended, WriteOver, Unclobbered, runs, mishaps
  <2>2. n \in Recs /\ RunsOf(n)
    BY <1>a, <1>r, <2>1
  <2>3. \A k \in Nat : EntryOf(k, n) => EntryOf(k, n)' /\ action_log'[k].status = action_log[k].status
    BY <2>1, EntriesAppended DEF RecordShapes, EntryOf
  <2>4. \A c \in Click : PressOf(c, n) => PressOf(c, n)'
    BY <1>p, <2>1
  <2> QED BY <1>a, <2>1, <2>2, <2>3, <2>4, RunsOfKept
<1>5. ASSUME NEW c \in Click, Approved(c) PROVE RunsOf(n)'
  <2> DEFINE i == click[c].index
             target == Pressed(c).of
  <2>1. /\ DOMAIN action_log' = DOMAIN action_log /\ i \in DOMAIN action_log
        /\ Pressed(c) = action_log[i] /\ action_log[i].status = "pending"
        /\ \A k \in DOMAIN action_log :
             /\ action_log'[k].of = action_log[k].of
             /\ k # i => action_log'[k] = action_log[k]
        /\ action_log'[i].status \in {"success", "failed"}
    BY <1>5, ApprovalIs
  <2>2. /\ UNCHANGED <<diagnosis, job, ran, auto, broken>> /\ click' = [click EXCEPT ![c] = Gone]
    BY <1>5 DEF Approved, runs, mishaps
  <2>3. n \in Recs /\ RunsOf(n)
    BY <1>a, <1>r, <2>2
  <2>4. EntryOf(i, target)
    BY <2>1 DEF EntryOf, RecStatus
  <2>5. \A d \in Click : \A m : PressOf(d, m) /\ d # c => PressOf(d, m)'
    BY <1>p, <2>2 DEF RecordStages, PressesTyped
  <2>6. \A k, m : EntryOf(k, m) => EntryOf(k, m)'
    BY <2>1 DEF EntryOf, RecStatus
  <2>7. i \in Nat
    BY <2>1 DEF RecordShapes, Log
  <2>8. CASE n # target
    <3>1. \A k \in Nat : EntryOf(k, n) => action_log'[k].status = action_log[k].status
      BY <2>1, <2>4, <2>8 DEF EntryOf
    <3>2. \A d \in Click : PressOf(d, n) => PressOf(d, n)'
      BY <2>5, <2>8 DEF PressOf
    <3> QED BY <1>a, <2>2, <2>3, <2>6, <3>1, <3>2, RunsOfKept
  <2>9. CASE n = target
    <3>1. ~ Automatic(n)
      BY <1>1, <2>1, <2>9 DEF LogKept, PendingToApprove
    <3>2. \A k \in Nat : EntryOf(k, n) => k = i
      BY <1>1, <2>3, <2>4, <2>7, <2>9, <3>1 DEF LogKept, OneEntryEach
    <3>3. ASSUME NEW k \in Nat, RunsNoted(k, n) PROVE RunsNoted(k, n)'
      <4>1. k = i /\ EntryOf(k, n)' /\ action_log'[k].status # "pending"
        BY <2>1, <2>6, <3>2, <3>3 DEF RunsNoted
      <4>2. ASSUME ran[n] > 1 PROVE \E d \in Click : PressOf(d, n)'
        <5>1. PICK d \in Click :
                PressOf(d, n) /\ \E f \in Click \ {d} : PressOf(f, n)
          BY <2>1, <3>3, <4>1, <4>2 DEF RunsNoted
        <5> QED BY <2>5, <5>1
      <4> QED BY <2>2, <4>1, <4>2 DEF RunsNoted
    <3>4. Automatic(n)' = Automatic(n) /\ Ahead(n)' = Ahead(n)
      BY <2>2 DEF Automatic, Ahead, Working
    <3> QED BY <2>2, <2>3, <3>1, <3>3, <3>4 DEF RunsOf
  <2> QED BY <2>8, <2>9
<1>6. ASSUME NEW card \in cards, NEW b \in card, NEW c \in Click, Press(c, b) PROVE RunsOf(n)'
  <2> DEFINE i == b.index
             target == action_log[i].of
  <2>1. /\ UNCHANGED <<action_log, diagnosis, job, auto, broken>> /\ click[c] = Nobody
    BY <1>6 DEF Press, column, mishaps
  <2>2. n \in Recs /\ RunsOf(n)
    BY <1>a, <1>r, <2>1
  <2>3. \E x : click' = [click EXCEPT ![c] = x]
    BY <1>6 DEF Press
  <2>4. \A d \in Click : \A m : PressOf(d, m) => d # c /\ PressOf(d, m)'
    BY <1>p, <2>1, <2>3 DEF RecordStages, PressesTyped, PressOf, Executing, Nobody
  <2>5. CASE ~ (Approvable(action_log, i) /\ n = target)
    <3>1. ran'[n] = ran[n]
      BY <1>6, <2>2, <2>5 DEF Press, RecordShapes
    <3> QED BY <1>a, <1>e, <2>1, <2>2, <2>4, <3>1, RunsOfKept
  <2>6. CASE Approvable(action_log, i) /\ n = target
    <3>1. /\ EntryOf(i, n) /\ action_log[i].status = "pending" /\ i \in Nat
      BY <2>6 DEF Approvable, EntryOf, RecStatus, RecordShapes, Log
    <3>2. ~ Automatic(n) /\ ~ Ahead(n)
      BY <1>1, <2>2, <2>6, <3>1 DEF LogKept, PendingToApprove, NothingAhead, EntryOf
    <3>3. \A k \in Nat : EntryOf(k, n) => k = i
      BY <1>1, <2>2, <3>1, <3>2 DEF LogKept, OneEntryEach
    <3>4. ran' = [ran EXCEPT ![n] = @ + 1]
      BY <1>6, <2>6 DEF Press
    <3>5. ran'[n] = ran[n] + 1 /\ ran[n] \in Nat
      BY <2>2, <3>4 DEF RecordShapes
    <3>6. click'[c] = [at |-> "executing", index |-> i, copy |-> action_log]
      BY <1>6, <2>6 DEF Press, RecordStages, PressesTyped
    <3>7. PressOf(c, n)'
      <4>1. click'[c].at = "executing" /\ click'[c].index = i /\ click'[c].copy = action_log
        BY <3>6
      <4> QED BY <2>6, <4>1 DEF PressOf, Executing, Pressed
    <3>8. ASSUME ran'[n] > 1 PROVE \E d \in Click \ {c} : PressOf(d, n)'
      <4>1. PICK k \in Nat : RunsNoted(k, n)
        BY <2>2, <3>2, <3>5, <3>8 DEF RunsOf
      <4>2. \E d \in Click : PressOf(d, n)
        BY <3>1, <3>3, <4>1 DEF RunsNoted
      <4> QED BY <2>4, <4>2
    <3>9. RunsNoted(i, n)'
      BY <1>e, <2>1, <3>1, <3>7, <3>8 DEF RunsNoted
    <3>10. ~ Automatic(n)' /\ ~ Ahead(n)'
      BY <2>1, <3>2 DEF Automatic, Ahead, Working
    <3> QED BY <3>1, <3>9, <3>10 DEF RunsOf
  <2> QED BY <2>5, <2>6
<1>7. CASE UNCHANGED <<action_log, diagnosis, click, ran, auto>> /\ ~ broken
  BY <1>7, <1>a, <1>e, <1>p, <1>r, RunsOfKept
<1>8. CASE LoadPolicy \/ ReadLog \/ ShowCard
  BY <1>7, <1>8 DEF LoadPolicy, ReadLog, ShowCard, column, runs, mishaps
<1>9. ASSUME NEW card, Dismiss(card) PROVE RunsOf(n)'
  BY <1>7, <1>9 DEF Dismiss, column, runs, mishaps
<1>10. ASSUME NEW w \in Note, ReadForNote(w) PROVE RunsOf(n)'
  BY <1>7, <1>10 DEF ReadForNote, column, runs, mishaps
<1>11. CASE UNCHANGED record /\ UNCHANGED mishaps
  BY <1>7, <1>11 DEF record, column, runs, mishaps
<1>12. ~ LogFails /\ ~ Restart /\ \A c \in Click : ~ ApproveFails(c)
  BY DEF LogFails, Restart, ApproveFails
<1> QED
  BY <1>2, <1>3, <1>4, <1>5, <1>6, <1>8, <1>9, <1>10, <1>11, <1>12
  DEF RecordNext, JobStep, Interactive, AskModel, LosesAsker, Answered, Unanswered,
      Refetch, Toggle, Relist, Store

-----------------------------------------------------------------------------
(* Theorems of the remediation record *)

LEMMA RecordInvHolds == RecordSpec => []RecordInv
<1>1. RecordInit => RecordInv
  BY RecordTypesInit, JobInOrderInit, LogInOrderInit, RunsInOrderInit, ColumnsInOrderInit DEF RecordInv
<1>2. RecordInv /\ [RecordNext]_recordVars => RecordInv'
  <2> SUFFICES ASSUME RecordInv, [RecordNext]_recordVars PROVE RecordInv'
    OBVIOUS
  <2>1. CASE RecordNext
    BY <2>1, RecordShapesNext, JobTypedNext, NotesTypedNext, PressesTypedNext, QuestionsTypedNext,
       JobInOrderNext, LogInOrderNext, RunsInOrderNext, ColumnsInOrderNext
    DEF RecordInv, RecordStages
  <2>2. CASE UNCHANGED recordVars
    <3>1. UNCHANGED <<cast, policy, inForce, tab, diagnosis, job, action_log, note, click, cards, conversation,
                      ask, logged, talked, chosen, clobbered, ran, auto, misled, broken>>
      BY <2>2 DEF recordVars, record, column, runs, talk, settings, mishaps
    <3>2. Recs' = Recs
      BY <3>1 DEF Recs
    <3>3. Log' = Log
      BY <3>2 DEF Log, LogEntry
    <3>4. RecordShapes'
      BY <3>1, <3>2, <3>3 DEF RecordInv, RecordShapes
    <3>5. JobStages' = JobStages
      BY <3>2, <3>3 DEF JobStages
    <3>6. RecordStages'
      BY <3>1, <3>3, <3>5 DEF RecordInv, RecordStages, NotesTyped, PressesTyped, QuestionsTyped,
         Executing, Pressed
    <3>7. /\ \A n : Automatic(n)' = Automatic(n) /\ Ahead(n)' = Ahead(n)
          /\ \A k, n : EntryOf(k, n)' = EntryOf(k, n)
          /\ Working' = Working /\ Unclobbered' = Unclobbered
      BY <3>1 DEF Automatic, Ahead, EntryOf, Working, Unclobbered
    <3>8. JobInOrder'
      BY <3>1, <3>7 DEF RecordInv, JobInOrder, Loaded, Admitted
    <3>9. LogInOrder'
      BY <3>1, <3>2, <3>7 DEF RecordInv, LogInOrder, LogKept, NothingAhead, OneEntryEach,
         PendingToApprove, ButtonsHold, PressesHold, Executing, Pressed
    <3>10. RunsInOrder'
      BY <3>1, <3>2, <3>7 DEF RecordInv, RunsInOrder, RunsOf, RunsNoted, PressOf, Executing, Pressed
    <3>11. ColumnsInOrder'
      BY <3>1 DEF RecordInv, ColumnsInOrder
    <3> QED BY <3>4, <3>6, <3>8, <3>9, <3>10, <3>11 DEF RecordInv
  <2> QED BY <2>1, <2>2
<1> QED BY <1>1, <1>2, PTL DEF RecordSpec

\* What appendToActionLog, approveAction, POST actions and ask, and PATCH settings
\* write is lost only by a copy that was stale.
THEOREM OverlapsLoseOnly == RecordSpec => []OnlyOverlapsLose
<1>1. RecordInv => OnlyOverlapsLose
  <2> SUFFICES ASSUME RecordInv PROVE OnlyOverlapsLose
    OBVIOUS
  <2>1. RecordTypeOK
    <3>1. \A w : NoteEntry(w) = [of |-> w, status |-> "note"]
      BY DEF NoteEntry
    <3>2. \A n \in DOMAIN action_log :
            action_log[n] \in [of : Recs, status : RecStatus] \cup {NoteEntry(w) : w \in Note}
      <4>1. \A e \in [of : Note, status : {"note"}] : e \in {NoteEntry(w) : w \in Note}
        BY <3>1
      <4> QED BY <4>1 DEF RecordInv, RecordShapes, Log, LogEntry
    <3>3. {policy, chosen, inForce} \cup {tab[t] : t \in Tab}
            \subseteq [enabled : BOOLEAN, tiers : SUBSET Tiers, allowed : [Tiers -> SUBSET Types]]
      BY DEF RecordInv, RecordShapes, Switches
    <3> QED BY <3>2, <3>3 DEF RecordInv, RecordShapes, RecordTypeOK
  <2> QED
    BY <2>1 DEF RecordInv, LogInOrder, LogKept, Unclobbered, ColumnsInOrder, OnlyOverlapsLose
<1> QED BY <1>1, RecordInvHolds, PTL

\* A press runs what its button says, unless an overlap lost an entry
\* (buildIncidentCard, approveAction).
THEOREM PressesRunWhatTheyShow == RecordSpec => []ApprovesWhatWasShown
<1>1. RecordInv => ApprovesWhatWasShown
  BY DEF RecordInv, LogInOrder, LogKept, Unclobbered, ApprovesWhatWasShown
<1> QED BY <1>1, RecordInvHolds, PTL

\* Whatever lists the settings hold, the pipeline runs by itself only what they allow
\* in tier 1 (or the defaults, where they could not be read), and nothing runs twice
\* but for presses under way, overlaps and runs that could not be noted (loadPolicy,
\* executeRemediation, approveAction).
THEOREM RunsOnceAlways == RecordSpec => []RunsOnceAndWithApproval
<1>1. RecordInv => RunsOnceAndWithApproval
  <2> SUFFICES ASSUME RecordInv, NEW n \in Recs
               PROVE  /\ n \in auto =>
                           \/ Unattended(inForce, diagnosis[n])
                           \/ broken /\ Unattended(DefaultPolicy, diagnosis[n])
                      /\ ran[n] > 1 =>
                           \/ broken \/ "action_log" \in clobbered
                           \/ \E c \in Click : click[c].at = "executing"
    BY DEF RunsOnceAndWithApproval
  <2>1. n \in auto => \/ Unattended(inForce, diagnosis[n])
                      \/ broken /\ Unattended(DefaultPolicy, diagnosis[n])
    BY DEF RecordInv, JobInOrder, Admitted
  <2>2. ASSUME ran[n] > 1, ~ broken, Unclobbered PROVE \E c \in Click : Executing(c)
    <3>1. RunsOf(n)
      BY <2>2 DEF RecordInv, RunsInOrder
    <3>2. ~ Automatic(n) /\ ran[n] # 0
      BY <2>2, <3>1 DEF RunsOf
    <3> QED BY <2>2, <3>1, <3>2 DEF RunsOf, RunsNoted, PressOf
  <2> QED BY <2>1, <2>2 DEF Unclobbered, Executing
<1> QED BY <1>1, RecordInvHolds, PTL
=============================================================================

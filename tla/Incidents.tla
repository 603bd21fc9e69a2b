------------------------------ MODULE Incidents ------------------------------
(***************************************************************************)
(* console-api/services/incidentEngine.ts and the routes that write the    *)
(* same rows: how alerts of Alertmanager and thresholds on the GPU metrics *)
(* become incidents, how incidents are analysed, mitigated and resolved,   *)
(* and what an operator does to them in the console.  Any number of        *)
(* deliveries and ticks are under way at once, in one API process or in    *)
(* several: nothing waits for an earlier one, and the database is all they *)
(* share.  Every action is one SQL statement (an await ends it) and the    *)
(* code up to the next.                                                    *)
(***************************************************************************)
EXTENDS Naturals, FiniteSets

CONSTANTS Delivery,     \* bound: handler runs under way at once, in whichever process
          Tick,         \* bound: runs of checkThresholds under way at once
          Incident,     \* bound: ids the database hands out
          Fingerprint,  \* alerts of Prometheus
          Rule,         \* DEFAULT_THRESHOLD_RULES, by name
          MaxOps        \* bound: what operators do in the console

ASSUME IncidentsAssumption ==
  /\ MaxOps \in Nat /\ "other" \notin Rule
  /\ Delivery \cap Tick = {}

VARIABLES incident,     \* the incidents table
          alert,        \* the alerts table; a row belongs to the incident it was made for
          delivery,     \* where each delivery is in handleAlertWebhook
          tick,         \* where each tick is in checkThresholds
          reopened,     \* history: incidents an operator made active again
          crossed,      \* history: linked while a resolution was between its statements
          met,          \* history: made for the same alert or rule since a run looked
          raced,        \* history: pairs, one made between the look-up and the row of the other
          ops           \* history: times an operator acted

vars == <<incident, alert, delivery, tick, reopened, crossed, met, raced, ops>>
history == <<reopened, crossed, met, raced, ops>>

Run == Delivery \cup Tick

-----------------------------------------------------------------------------
(* Rows and positions *)

Status == {"open", "investigating", "mitigated", "resolved", "suppressed"}
Active == {"open", "investigating"}

IncidentRow ==
  [status : Status, mitigated_at : {"null", "recent", "old"},
   title : Rule \cup {"other"},             \* a rule's name only if the rule made it
   fresh : BOOLEAN]                        \* its rule is in cooldown
NoIncident == [status |-> "none"]

AlertRow == [fingerprint : Fingerprint, status : {"firing", "resolved", "suppressed"}]
NoAlert == [status |-> "none"]

Idle == [at |-> "idle"]
Finding(f) == [at |-> "finding", fingerprint |-> f]            \* found no open incident
Linking(f, i) == [at |-> "linking", fingerprint |-> f, incident |-> i]
Closing(f) == [at |-> "closing", fingerprint |-> f]            \* incidents mitigated, alerts not yet
Checked(r) == [at |-> "checked", rule |-> r]                   \* not in cooldown

Exists(i) == incident[i] # NoIncident
Linked(i, f) == alert[i] # NoAlert /\ alert[i].fingerprint = f
ActiveRow(i) == incident[i].status \in Active

Init ==
  /\ incident = [i \in Incident |-> NoIncident]
  /\ alert = [i \in Incident |-> NoAlert]
  /\ delivery = [d \in Delivery |-> Idle] /\ tick = [t \in Tick |-> Idle]
  /\ reopened = {} /\ crossed = {} /\ ops = 0
  /\ met = [r \in Run |-> {}] /\ raced = {}

\* INSERT INTO incidents: status and mitigated_at get their defaults.
Insert(i, title) ==
  /\ ~ Exists(i)
  /\ i = CHOOSE j \in Incident : ~ Exists(j)
  /\ incident' = [incident EXCEPT ![i] =
       [status |-> "open", mitigated_at |-> "null", title |-> title,
        fresh |-> title \in Rule]]

Operate == ops < MaxOps /\ ops' = ops + 1

\* The runs X are over; they met what they met.
Forget(X) ==
  met' = [r \in Run |-> IF r \in X THEN {} ELSE met[r]]

\* The run r made the incident i; the runs X looked before that.
Meet(r, i, X) ==
  /\ raced' = raced \cup {{i, j} : j \in met[r]}
  /\ met' = [q \in Run |-> IF q = r THEN {} ELSE IF q \in X THEN met[q] \cup {i} ELSE met[q]]

-----------------------------------------------------------------------------
(* handleAlertWebhook, one alert of the payload at a time *)

\* findExistingOpenIncident.
\* (mutant: it is not called)
HasOpenIncident_Never(f) == FALSE
HasOpenIncident(f) == \E i \in Incident : Linked(i, f) /\ ActiveRow(i)

Firing(d, f) ==
  /\ delivery[d] = Idle /\ ~ HasOpenIncident(f)
  /\ delivery' = [delivery EXCEPT ![d] = Finding(f)]
  /\ UNCHANGED <<incident, alert, tick, history>>

CreateForAlert(d) ==
  /\ delivery[d].at = "finding"
  /\ \E i \in Incident :
       /\ Insert(i, "other")
       /\ delivery' = [delivery EXCEPT ![d] = Linking(delivery[d].fingerprint, i)]
  /\ UNCHANGED <<alert, tick, history>>

\* Deliveries about to add an incident for the alert.
Adding(f) == {d \in Delivery : delivery[d].at \in {"finding", "linking"}
                               /\ delivery[d].fingerprint = f}

\* The alert's row; runIncidentPipeline starts, and nobody waits for it.
LinkAlert(d) ==
  /\ delivery[d].at = "linking"
  /\ LET i == delivery[d].incident
         f == delivery[d].fingerprint
     IN  /\ alert' = [alert EXCEPT ![i] = [fingerprint |-> f, status |-> "firing"]]
         /\ crossed' = IF \E e \in Delivery : delivery[e] = Closing(f)
                         THEN crossed \cup {i} ELSE crossed
         /\ Meet(d, i, Adding(f))
  /\ delivery' = [delivery EXCEPT ![d] = Idle]
  /\ UNCHANGED <<incident, tick, reopened, ops>>

\* (mutant: whatever its status)
Mitigable_Any(i) == Exists(i)
Mitigable(i) == ActiveRow(i)

Mitigate(d, f) ==
  /\ delivery[d] = Idle
  /\ incident' = [i \in Incident |->
       IF Linked(i, f) /\ Mitigable(i)
         THEN [incident[i] EXCEPT !.status = "mitigated", !.mitigated_at = "recent"]
         ELSE incident[i]]
  /\ delivery' = [delivery EXCEPT ![d] = Closing(f)]
  /\ UNCHANGED <<alert, tick, history>>

CloseAlerts(d) ==
  /\ delivery[d].at = "closing"
  /\ alert' = [i \in Incident |->
       IF Linked(i, delivery[d].fingerprint) /\ alert[i].status = "firing"
         THEN [alert[i] EXCEPT !.status = "resolved"] ELSE alert[i]]
  /\ delivery' = [delivery EXCEPT ![d] = Idle]
  /\ UNCHANGED <<incident, tick, history>>

\* The catch around each alert: a failed statement ends it there, leaving an
\* incident without an alert, or alerts that stay firing.
\* (mutant: an error of the first UPDATE is passed over)
AfterFault_Continue(d) ==
  IF delivery[d] = Idle THEN {Idle} \cup {Closing(f) : f \in Fingerprint} ELSE {Idle}
AfterFault(d) == {Idle}

DeliveryFails(d) ==
  /\ \E stage \in AfterFault(d) : delivery' = [delivery EXCEPT ![d] = stage]
  /\ Forget({d})
  /\ UNCHANGED <<incident, alert, tick, reopened, crossed, raced, ops>>

-----------------------------------------------------------------------------
(* checkThresholds *)

\* isInCooldown: any incident with the rule's name as its title, whatever its
\* status and origin.
InCooldown(r) ==
  \E i \in Incident : Exists(i) /\ incident[i].title = r /\ incident[i].fresh

\* The metrics are over the threshold or not: the rule may trigger at any time.
\* The timer does not wait for the tick before.
CheckRule(t, r) ==
  /\ tick[t] = Idle /\ ~ InCooldown(r)
  /\ tick' = [tick EXCEPT ![t] = Checked(r)]
  /\ UNCHANGED <<incident, alert, delivery, history>>

\* Ticks about to add an incident for the rule.
AboutToAdd(r) == {t \in Tick : tick[t] = Checked(r)}

CreateForRule(t) ==
  /\ tick[t].at = "checked"
  /\ \E i \in Incident :
       Insert(i, tick[t].rule) /\ Meet(t, i, AboutToAdd(tick[t].rule))
  /\ tick' = [tick EXCEPT ![t] = Idle]
  /\ UNCHANGED <<alert, delivery, reopened, crossed, ops>>

\* Not triggered after all, or a statement failed.
LeaveRule(t) ==
  /\ tick[t].at = "checked"
  /\ tick' = [tick EXCEPT ![t] = Idle]
  /\ Forget({t})
  /\ UNCHANGED <<incident, alert, delivery, reopened, crossed, raced, ops>>

-----------------------------------------------------------------------------
(* The console: incidents and alerts pages *)

\* POST /incidents
CreateByHand ==
  /\ Operate
  /\ \E i \in Incident : Insert(i, "other")
  /\ UNCHANGED <<alert, delivery, tick, reopened, crossed, met, raced>>

\* The page has a button for every status but "open" and the one it shows.
StatusActions(i) == Status \ {"open", incident[i].status}

\* PATCH /incidents/:id.  The page sends the status alone: mitigated_at stays what
\* it was.
Patch(i, s) ==
  /\ Operate
  /\ Exists(i) /\ s \in StatusActions(i)
  /\ incident' = [incident EXCEPT ![i].status = s]
  /\ reopened' = IF s \in Active /\ ~ ActiveRow(i) THEN reopened \cup {i} ELSE reopened
  /\ UNCHANGED <<alert, delivery, tick, crossed, met, raced>>

\* AlertsPage shows the button with an alert that was firing when it was fetched.
Suppressible(i) == alert[i] # NoAlert

Suppress(i) ==
  /\ Operate /\ Suppressible(i)
  /\ alert' = [alert EXCEPT ![i].status = "suppressed"]
  /\ UNCHANGED <<incident, delivery, tick, reopened, crossed, met, raced>>

-----------------------------------------------------------------------------
(* Time and crashes *)

Stale(i) == incident[i].status = "mitigated" /\ incident[i].mitigated_at = "old"

AutoResolveStale ==
  /\ \E i \in Incident : Stale(i)
  /\ incident' = [i \in Incident |->
       IF Stale(i) THEN [incident[i] EXCEPT !.status = "resolved"] ELSE incident[i]]
  /\ UNCHANGED <<alert, delivery, tick, history>>

CooldownPasses(i) ==
  /\ Exists(i) /\ incident[i].fresh
  /\ incident' = [incident EXCEPT ![i].fresh = FALSE]
  /\ UNCHANGED <<alert, delivery, tick, history>>

\* 24 hours since the incident was mitigated.
DayPasses(i) ==
  /\ Exists(i) /\ incident[i].mitigated_at = "recent"
  /\ incident' = [incident EXCEPT ![i].mitigated_at = "old"]
  /\ UNCHANGED <<alert, delivery, tick, history>>

\* A process dies with the deliveries D and the ticks T it had in hand, and nobody
\* takes them up.
Crash(D, T) ==
  /\ delivery' = [d \in Delivery |-> IF d \in D THEN Idle ELSE delivery[d]]
  /\ tick' = [t \in Tick |-> IF t \in T THEN Idle ELSE tick[t]]
  /\ Forget(D \cup T)
  /\ UNCHANGED <<incident, alert, reopened, crossed, raced, ops>>

-----------------------------------------------------------------------------
\* POST /webhooks/prometheus/alert: a payload's alerts, one after the other.
Webhook(d) == \E f \in Fingerprint : Firing(d, f) \/ Mitigate(d, f)

Deliver(d) == CreateForAlert(d) \/ LinkAlert(d) \/ CloseAlerts(d)

Next ==
  \/ \E d \in Delivery : Webhook(d) \/ Deliver(d) \/ DeliveryFails(d)
  \/ \E t \in Tick :
       CreateForRule(t) \/ LeaveRule(t) \/ \E r \in Rule : CheckRule(t, r)
  \/ \E D \in SUBSET Delivery, T \in SUBSET Tick : Crash(D, T)
  \/ CreateByHand
  \/ \E i \in Incident : Suppress(i) \/ \E s \in Status : Patch(i, s)
  \/ AutoResolveStale
  \/ \E i \in Incident : CooldownPasses(i) \/ DayPasses(i)

Spec == Init /\ [][Next]_vars

-----------------------------------------------------------------------------
(* Properties *)

TypeOK ==
  /\ incident \in [Incident -> IncidentRow \cup {NoIncident}]
  /\ alert \in [Incident -> AlertRow \cup {NoAlert}]
  /\ delivery \in [Delivery -> {Idle} \cup {Finding(f) : f \in Fingerprint}
                               \cup {Linking(f, i) : f \in Fingerprint, i \in Incident}
                               \cup {Closing(f) : f \in Fingerprint}]
  /\ tick \in [Tick -> {Idle} \cup {Checked(r) : r \in Rule}]
  /\ reopened \subseteq Incident /\ crossed \subseteq Incident /\ ops \in Nat
  /\ met \in [Run -> SUBSET Incident] /\ raced \subseteq SUBSET Incident

\* Incidents open for an alert, or in cooldown for a rule.
OpenFor(f) == {i \in Incident : Linked(i, f) /\ ActiveRow(i) /\ i \notin reopened}
FreshFor(r) == {i \in Incident : Exists(i) /\ incident[i].title = r /\ incident[i].fresh}

\* Duplicates: the look-up and the insertions are separate statements and nothing
\* in the database rules a second row out.  But two incidents are open for one
\* alert, or in cooldown for one rule, only if the runs that made them overlapped:
\* one row appeared between the look-up and the row of the other.  An alert that
\* repeats, a retried delivery, a fault or a crash makes none; what an operator
\* reopened is not counted, and an incident that a fault left without an alert is
\* open for none.  (findExistingOpenIncident, isInCooldown)
DuplicatesAreRaces ==
  /\ TypeOK
  /\ \A f \in Fingerprint : \A i, j \in OpenFor(f) : i = j \/ {i, j} \in raced
  /\ \A r \in Rule : \A i, j \in FreshFor(r) : i = j \/ {i, j} \in raced

\* An incident stays active after its alert was resolved only if the alert was
\* recorded while the resolution was between its two statements, or an operator
\* reopened it: incidents are mitigated first, alerts closed after.
\* (handleAlertWebhook, "resolved")
ActiveMeansFiring ==
  \A i \in Incident :
    alert[i].status = "resolved" /\ ActiveRow(i) => i \in crossed \cup reopened

\* Incidents go forward: only an operator takes one back to an earlier status, or
\* out of "suppressed", although the alert's older incidents stay linked to it and
\* every later resolution of the alert goes through them again.
\* (handleAlertWebhook, autoResolveStale)
Rank(s) == CASE s = "none" -> 0 [] s \in Active -> 1 [] s = "mitigated" -> 2
             [] s = "resolved" -> 3 [] s = "suppressed" -> 4
OnlyOperatorsReopen ==
  [][ops' = ops =>
       \A i \in Incident : Rank(incident[i].status) <= Rank(incident'[i].status)]_vars
=============================================================================

---------------------------- MODULE IncidentRecord ----------------------------
(***************************************************************************)
(* One row of console-api's incidents table and the settings row beside    *)
(* it.  The diagnosis (aiDiagnosisService.ts) makes recommendations, which *)
(* autoRemediationService.ts runs or leaves for approval, logging to the   *)
(* row's action_log; slackBotService.ts shows them as buttons whose values *)
(* are positions in that log; the console appends notes and keeps a        *)
(* conversation.  Each of these reads a whole JSON column, awaits, and     *)
(* writes it back; every action ends at an await.                          *)
(***************************************************************************)
EXTENDS Naturals, Sequences, FiniteSets

CONSTANTS Diagnoses,    \* sequences of recommendations the model may make
          Click,        \* presses of a button in Slack
          Note,         \* POST /incidents/:id/actions
          Ask,          \* POST /incidents/:id/ask
          Tab,          \* browsers on the operations settings page, and other clients of its route
          Lists,        \* what such a client may store as the tiers' allowed actions
          Casts,        \* who takes part in a behaviour: sets of the four above
          MaxToggles,   \* bound: changes of those settings
          MaxCrashes    \* bound: restarts of the API process

VARIABLES cast,         \* those of Click, Note, Ask and Tab that take part
          policy,       \* auto_remediation_settings
          tab,          \* what each browser was shown of it
          diagnosis,
          job,          \* runIncidentPipeline, or triggerAnalysis
          action_log, note, click,
          cards,        \* messages in Slack: each a set of buttons
          conversation, ask,
          logged, talked, chosen,  \* history: what the columns would be if nothing got lost
          clobbered,    \* history: columns a stale copy was written over
          ran,          \* history: executor calls for each recommendation
          auto,         \* history: recommendations the pipeline itself ran
          inForce,      \* history: the settings when the pipeline came to remediate
          misled,       \* history: presses that ran something not on their button
          broken,       \* history: a statement failed, or a restart
          toggles, crashes

column == <<action_log, logged>>
runs == <<ran, auto, misled>>
record == <<diagnosis, job, column, note, click, cards, runs>>
talk == <<conversation, ask, talked>>
settings == <<policy, tab, chosen, inForce, toggles>>
mishaps == <<broken, crashes>>
recordVars == <<cast, record, talk, settings, clobbered, mishaps>>

-----------------------------------------------------------------------------
(* recommendationToAction: words of a recommendation, and its tier *)

Tiers == 1 .. 3
Types == {"restart_worker", "scale_up", "switch_model", "rollback_model",
          "reboot_node", "notify_support"}

\* parseDiagnosis makes sure of the tier.
ASSUME RecordAssumption ==
  /\ MaxToggles \in Nat /\ MaxCrashes \in Nat
  /\ \A d \in Diagnoses : d \in Seq([words : SUBSET Types, tier : Tiers])
  /\ Lists \subseteq [Tiers -> SUBSET Types]

\* The first of these whose words the text contains; words of several may occur
\* ("restart node" has those of the first and of the fifth).
Precedence == <<"restart_worker", "scale_up", "switch_model", "rollback_model",
                "reboot_node", "notify_support">>

TypeOf(rec) ==
  LET found == {n \in DOMAIN Precedence : Precedence[n] \in rec.words}
  IN  IF found = {} THEN "notify_support"
      ELSE Precedence[CHOOSE n \in found : \A m \in found : n <= m]

\* The page has no field for the lists (it stores "operations", which nothing reads),
\* but sends back those it was shown; where the row has none the defaults hold.
DefaultLists == [t \in Tiers |->
  CASE t = 1 -> {"restart_worker", "notify_support"}
    [] t = 2 -> {"scale_up", "switch_model", "notify_support"}
    [] t = 3 -> {"rollback_model", "reboot_node", "notify_support"}]

\* (mutant: the lists are not read from the row)
Allowed_ByDefault(p, rec) == rec.tier \in p.tiers /\ TypeOf(rec) \in DefaultLists[rec.tier]
Allowed(p, rec) == rec.tier \in p.tiers /\ TypeOf(rec) \in p.allowed[rec.tier]

DefaultPolicy == [enabled |-> TRUE, tiers |-> Tiers, allowed |-> DefaultLists]

\* What the executors can come back with.  Switching the model and rebooting the
\* node are not implemented; the others but notify_support make a call.  Those to
\* the console's own routes carry no token: they fail unless something in front of
\* CONSOLE_URL adds one.
Outcomes(type) ==
  CASE type \in {"switch_model", "reboot_node"} -> {"failed"}
    [] type = "notify_support" -> {"success"}
    [] OTHER -> {"success", "failed"}

-----------------------------------------------------------------------------
(* aiDiagnosisService *)

\* An answer, one that is no JSON, or an error: a status, nothing, or 30 seconds.
callDiagnosisLLM == {"json", "garbled", "error"}

\* What is recommended when there is no diagnosis: to look at it by hand.
Fallback == <<[words |-> {}, tier |-> 3]>>

parseDiagnosis(raw) == IF raw = "json" THEN Diagnoses ELSE {Fallback}

analyzeIncident ==
  UNION {IF raw = "error" THEN {Fallback} ELSE parseDiagnosis(raw) : raw \in callDiagnosisLLM}

-----------------------------------------------------------------------------
Nobody == [at |-> "idle"]
Gone == [at |-> "done"]
Entry(n, status) == [of |-> n, status |-> status]
NoteEntry(w) == [of |-> w, status |-> "note"]

RecordInit ==
  /\ cast \in Casts
  /\ policy = DefaultPolicy /\ chosen = DefaultPolicy /\ inForce = DefaultPolicy
  /\ tab = [t \in Tab |-> DefaultPolicy] /\ toggles = 0
  /\ diagnosis = <<>>
  /\ job = [at |-> "diagnosing"]
  /\ action_log = <<>> /\ logged = <<>>
  /\ note = [w \in Note |-> Nobody] /\ click = [c \in Click |-> Nobody]
  /\ cards = {}
  /\ conversation = <<>> /\ talked = <<>>
  /\ ask = [q \in Ask |-> Nobody]
  /\ clobbered = {} /\ ran = <<>> /\ auto = {} /\ misled = {}
  /\ broken = FALSE /\ crashes = 0

\* A column is written back from a copy read earlier.
\* (mutant: new entries go first)
Extended_First(s, e) == <<e>> \o s
Extended(s, e) == Append(s, e)
WriteOver(field, current, copy) ==
  clobbered' = IF copy = current THEN clobbered ELSE clobbered \cup {field}

-----------------------------------------------------------------------------
(* The pipeline: diagnose, store, remediate *)

\* Storing the diagnosis in ai_analysis may fail, and ends the job.
Diagnose ==
  /\ job.at = "diagnosing"
  /\ \/ /\ diagnosis' \in analyzeIncident
        /\ ran' = [n \in DOMAIN diagnosis' |-> 0]
        /\ job' = [at |-> "loading"]
        /\ UNCHANGED broken
     \/ job' = Gone /\ broken' = TRUE /\ UNCHANGED <<diagnosis, ran>>
  /\ UNCHANGED <<cast, column, note, click, cards, auto, misled, talk, settings,
                 clobbered, crashes>>

\* The next recommendation the policy allows; the others are skipped unlogged.
\* Tier 1 is announced as running, the rest as pending.
Onwards(p, n) ==
  LET next == {m \in DOMAIN diagnosis : m > n /\ Allowed(p, diagnosis[m])}
  IN  IF next = {} THEN Gone
      ELSE LET m == CHOOSE m \in next : \A l \in next : m <= l
           IN  [at |-> "reading", rec |-> m, policy |-> p,
                status |-> IF diagnosis[m].tier = 1 THEN "running" ELSE "pending"]

\* An error loads the default, whatever the row says.
LoadPolicy ==
  /\ job.at = "loading"
  /\ inForce' = policy
  /\ \E p \in {policy, DefaultPolicy} :
       /\ broken' = (broken \/ p # policy)
       /\ job' = IF p.enabled THEN Onwards(p, 0) ELSE Gone
  /\ UNCHANGED <<cast, diagnosis, column, note, click, cards, runs,
                 talk, policy, tab, chosen, toggles, clobbered, crashes>>

\* Once the executor has answered, or thrown, the job logs what came of it.
\* (mutant: an error ends the job)
AfterExecutor_Throws(s) ==
  IF s = "failed" THEN Gone
  ELSE [at |-> "reading", rec |-> job.rec, policy |-> job.policy, status |-> s]
AfterExecutor(s) ==
  [at |-> "reading", rec |-> job.rec, policy |-> job.policy, status |-> s]

\* After an entry, logged or not: the executor of an announced action is called.
Continue ==
  IF job.status = "running"
    THEN /\ ran' = [ran EXCEPT ![job.rec] = @ + 1] /\ auto' = auto \cup {job.rec}
         /\ \E s \in Outcomes(TypeOf(diagnosis[job.rec])) : job' = AfterExecutor(s)
    ELSE job' = Onwards(job.policy, job.rec) /\ UNCHANGED <<ran, auto>>

\* appendToActionLog: read, ...
ReadLog ==
  /\ job.at = "reading"
  /\ job' = [at |-> "writing", rec |-> job.rec, policy |-> job.policy, status |-> job.status,
             copy |-> action_log]
  /\ UNCHANGED <<cast, diagnosis, column, note, click, cards, runs,
                 talk, settings, clobbered, mishaps>>

\* ... write.  An error is only reported, and the job goes on.
WriteLog ==
  /\ job.at = "writing"
  /\ LET e == Entry(job.rec, job.status)
     IN  /\ action_log' = Extended(job.copy, e)
         /\ logged' = Append(logged, e)
  /\ WriteOver("action_log", action_log, job.copy)
  /\ Continue
  /\ UNCHANGED <<cast, diagnosis, note, click, cards, misled, talk,
                 settings, mishaps>>

LogFails ==
  /\ job.at \in {"reading", "writing"}
  /\ broken' = TRUE
  /\ Continue
  /\ UNCHANGED <<cast, diagnosis, column, note, click, cards, misled,
                 talk, settings, clobbered, crashes>>

-----------------------------------------------------------------------------
(* Slack *)

\* Positions of the pending entries.  (mutant: positions among the pending)
Pending == {n \in DOMAIN action_log : action_log[n].status = "pending"}
Position_AmongPending(n) == Cardinality({m \in Pending : m <= n})
Position(n) == n

\* Buttons for the first two.
buildIncidentCard ==
  {[index |-> Position(n), of |-> action_log[n].of]
     : n \in {n \in Pending : Cardinality({m \in Pending : m < n}) < 2}}

\* /ultralisk incident.  The card pushed with a new incident shows the row as
\* inserted, without buttons.
ShowCard ==
  /\ cast \cap Click # {}
  /\ buildIncidentCard # {} /\ buildIncidentCard \notin cards
  /\ cards' = cards \cup {buildIncidentCard}
  /\ UNCHANGED <<cast, diagnosis, job, column, note, click, runs, talk,
                 settings, clobbered, mishaps>>

Dismiss(card) ==
  /\ card \in cards /\ cards' = cards \ {card}
  /\ UNCHANGED <<cast, diagnosis, job, column, note, click, runs, talk,
                 settings, clobbered, mishaps>>

\* approveAction: the log is read, the executor called.  The button stays after a
\* press.  (mutant: whatever the entry's status)
Approvable_Any(log, n) == n \in DOMAIN log /\ log[n].status \in {"pending", "success", "failed"}
Approvable(log, n) == n \in DOMAIN log /\ log[n].status = "pending"

Press(c, b) ==
  /\ c \in cast /\ click[c] = Nobody
  /\ IF Approvable(action_log, b.index)
       THEN LET n == action_log[b.index].of
            IN  /\ click' = [click EXCEPT ![c] =
                     [at |-> "executing", index |-> b.index, copy |-> action_log]]
                /\ ran' = [ran EXCEPT ![n] = @ + 1]
                /\ misled' = IF n = b.of THEN misled ELSE misled \cup {c}
       ELSE click' = [click EXCEPT ![c] = Gone] /\ UNCHANGED <<ran, misled>>
  /\ UNCHANGED <<cast, diagnosis, job, column, note, cards, auto, talk,
                 settings, clobbered, mishaps>>

\* The two kinds of button on a card.
Interactive ==
  \E card \in cards : Dismiss(card) \/ \E b \in card, c \in Click : Press(c, b)

\* The whole log as read goes back, with the entry's new status.
Approved(c) ==
  /\ click[c].at = "executing"
  /\ LET n == click[c].index
         old == click[c].copy
     IN  \E s \in Outcomes(TypeOf(diagnosis[old[n].of])) :
           /\ action_log' = [old EXCEPT ![n].status = s]
           /\ logged' = [m \in DOMAIN logged |->
                IF logged[m] = old[n] THEN [logged[m] EXCEPT !.status = s] ELSE logged[m]]
           /\ WriteOver("action_log", action_log, old)
  /\ click' = [click EXCEPT ![c] = Gone]
  /\ UNCHANGED <<cast, diagnosis, job, note, cards, runs, talk,
                 settings, mishaps>>

ApproveFails(c) ==
  /\ click[c].at = "executing"
  /\ click' = [click EXCEPT ![c] = Gone] /\ broken' = TRUE
  /\ UNCHANGED <<cast, diagnosis, job, column, note, cards, runs, talk,
                 settings, clobbered, crashes>>

-----------------------------------------------------------------------------
(* The incident page: notes and questions *)

ReadForNote(w) ==
  /\ w \in cast /\ note[w] = Nobody
  /\ note' = [note EXCEPT ![w] = [at |-> "writing", copy |-> action_log]]
  /\ UNCHANGED <<cast, diagnosis, job, column, click, cards, runs, talk,
                 settings, clobbered, mishaps>>

WriteNote(w) ==
  /\ note[w].at = "writing"
  /\ action_log' = Extended(note[w].copy, NoteEntry(w))
  /\ logged' = Append(logged, NoteEntry(w))
  /\ WriteOver("action_log", action_log, note[w].copy)
  /\ note' = [note EXCEPT ![w] = Gone]
  /\ UNCHANGED <<cast, diagnosis, job, click, cards, runs, talk,
                 settings, mishaps>>

\* What the asker is shown, by how the question ended.  An error within the stream
\* is lost between two catches, and shows as an answer without words.
handleAsk(end) ==
  CASE end = "failed" -> "empty" [] end = "lost" -> "error" [] OTHER -> "answer"

handleAskCommand(end) ==
  CASE end = "failed" -> "empty" [] end = "lost" -> "nothing" [] OTHER -> "answer"

Shown(q, end) ==
  LET seen == IF ask[q].hears THEN end ELSE "lost"
  IN  IF ask[q].from = "page" THEN handleAsk(seen) ELSE handleAskCommand(seen)

Finished(q, end) == [at |-> "done", shown |-> Shown(q, end), heard |-> ask[q].hears]
Over(q, end) == ask' = [ask EXCEPT ![q] = Finished(q, end)]

\* The row is read before the model is asked.  A question from Slack carries no
\* token, and gets here only through something that adds one.
AskModel(q) ==
  /\ q \in cast /\ ask[q] = Nobody
  /\ \E from \in {"page", "slack"} :
       ask' = [ask EXCEPT ![q] = [at |-> "streaming", from |-> from, copy |-> conversation,
                            hears |-> TRUE]]
  /\ UNCHANGED <<cast, record, conversation, talked, settings, clobbered, mishaps>>

\* The stream to the asker breaks, the page gives it up, or a message to Slack fails:
\* the route does not notice, and goes on.
LosesAsker(q) ==
  /\ ask[q].at = "streaming" /\ ask[q].hears
  /\ ask' = [ask EXCEPT ![q].hears = FALSE]
  /\ UNCHANGED <<cast, record, conversation, talked, settings, clobbered, mishaps>>

\* [DONE]: an asker still there has the answer; the conversation is stored, even if
\* the asker is not, or that fails.
Answered(q) ==
  /\ ask[q].at = "streaming"
  /\ Over(q, "done")
  /\ \/ /\ conversation' = Extended(ask[q].copy, q) /\ talked' = Append(talked, q)
        /\ WriteOver("conversation", conversation, ask[q].copy)
     \/ UNCHANGED <<conversation, talked, clobbered>>
  /\ UNCHANGED <<cast, record, settings, mishaps>>

\* The model fails, or its stream ends without [DONE]: nothing is stored.
\* (mutant: the question is)
Unanswered_Stores(q) ==
  /\ ask[q].at = "streaming"
  /\ \E end \in {"failed", "cut"} : Over(q, end)
  /\ conversation' = Extended(ask[q].copy, q) /\ talked' = Append(talked, q)
  /\ WriteOver("conversation", conversation, ask[q].copy)
  /\ UNCHANGED <<cast, record, settings, mishaps>>
Unanswered(q) ==
  /\ ask[q].at = "streaming"
  /\ \E end \in {"failed", "cut"} : Over(q, end)
  /\ UNCHANGED <<cast, record, conversation, talked, settings, clobbered, mishaps>>

-----------------------------------------------------------------------------
(* The settings page *)

\* Switch 0 is the policy's own, the others are the tiers'.
Flip(p, switch) ==
  IF switch = 0 THEN [p EXCEPT !.enabled = ~ @]
  ELSE [p EXCEPT !.tiers = (@ \ {switch}) \cup ({switch} \ @)]

Refetch(t) ==
  /\ t \in cast /\ tab[t] # policy
  /\ tab' = [tab EXCEPT ![t] = policy]
  /\ UNCHANGED <<cast, record, talk, policy, chosen, inForce, toggles, clobbered, mishaps>>

\* PATCH /settings/auto-remediation stores what it is sent, and answers with it: all
\* that the client was shown, with one thing changed.
Store(t, row, wanted) ==
  /\ t \in cast /\ toggles < MaxToggles /\ toggles' = toggles + 1
  /\ policy' = row /\ chosen' = wanted
  /\ tab' = [tab EXCEPT ![t] = row]
  /\ WriteOver("settings", policy, tab[t])
  /\ UNCHANGED <<cast, record, talk, inForce, mishaps>>

Toggle(t, switch) == Store(t, Flip(tab[t], switch), Flip(chosen, switch))

\* No page does this; any other client of the route may.
Relist(t, lists) ==
  Store(t, [tab[t] EXCEPT !.allowed = lists], [chosen EXCEPT !.allowed = lists])

-----------------------------------------------------------------------------
Halt(f) == [x \in DOMAIN f |-> IF f[x].at \in {"idle", "done"} THEN f[x] ELSE Gone]

Restart ==
  /\ crashes < MaxCrashes /\ crashes' = crashes + 1 /\ broken' = TRUE
  /\ job' = Gone
  /\ note' = Halt(note) /\ click' = Halt(click)
  /\ ask' = [q \in Ask |-> IF ask[q].at # "streaming" THEN ask[q]
                           ELSE Finished(q, "lost")]
  /\ UNCHANGED <<cast, diagnosis, column, cards, runs,
                 conversation, talked, settings, clobbered>>

JobStep == Diagnose \/ LoadPolicy \/ ReadLog \/ WriteLog \/ LogFails

RecordNext ==
  \/ JobStep
  \/ ShowCard \/ Interactive
  \/ \E c \in Click : Approved(c) \/ ApproveFails(c)
  \/ \E w \in Note : ReadForNote(w) \/ WriteNote(w)
  \/ \E q \in Ask : AskModel(q) \/ LosesAsker(q) \/ Answered(q) \/ Unanswered(q)
  \/ \E t \in Tab :
       Refetch(t) \/ (\E s \in {0} \cup Tiers : Toggle(t, s)) \/ \E l \in Lists : Relist(t, l)
  \/ Restart

RecordSpec == RecordInit /\ [][RecordNext]_recordVars

\* Executors, the model and the database answer or fail in time.
RecordFairness ==
  /\ WF_recordVars(JobStep)
  /\ \A c \in Click : WF_recordVars(Approved(c) \/ ApproveFails(c))

RecordFairSpec == RecordSpec /\ RecordFairness

-----------------------------------------------------------------------------
(* Properties *)

Recs == DOMAIN diagnosis
RecStatus == {"running", "pending", "success", "failed"}

RecordTypeOK ==
  /\ cast \in Casts
  /\ {policy, chosen, inForce} \cup {tab[t] : t \in Tab}
       \subseteq [enabled : BOOLEAN, tiers : SUBSET Tiers, allowed : [Tiers -> SUBSET Types]]
  /\ \A n \in DOMAIN action_log :
       action_log[n] \in [of : Recs, status : RecStatus] \cup {NoteEntry(w) : w \in Note}
  /\ \A n \in DOMAIN conversation : conversation[n] \in Ask
  /\ clobbered \subseteq {"action_log", "conversation", "settings"}
  /\ ran \in [Recs -> Nat] /\ auto \subseteq Recs /\ misled \subseteq Click

\* The columns lose an entry, an approval or a choice only when a copy read before
\* somebody else's write is written back: without such an overlap they hold what
\* was written, in the order it was written.  And what is in the conversation has
\* been answered to its asker, unless the connection to them was lost on the way.
\* (appendToActionLog, approveAction, POST actions and ask, PATCH settings)
OnlyOverlapsLose ==
  /\ RecordTypeOK
  /\ "action_log" \notin clobbered => action_log = logged
  /\ "conversation" \notin clobbered => conversation = talked
  /\ "settings" \notin clobbered => policy = chosen
  /\ \A n \in DOMAIN talked :
       LET q == talked[n] IN ask[q].at = "done" /\ (ask[q].heard => ask[q].shown = "answer")

\* A press in Slack runs the action on its button, however old the card is: the log
\* only grows, so positions keep their meaning unless an overlap lost an entry.
\* (buildIncidentCard, approveAction)
ApprovesWhatWasShown == "action_log" \notin clobbered => misled = {}

\* Whatever tier the model gives it, the pipeline runs by itself only what the
\* settings, when it came to remediate, allowed in tier 1: switched on, and on its
\* list.  But where they could not be read it runs what the defaults allow, even if
\* it was switched off.  And once no press is under way an action has run once,
\* unless the log was written by two at once or the first run could not be noted.
\* (loadPolicy, executeRemediation, approveAction)
Unattended(p, rec) ==
  p.enabled /\ rec.tier = 1 /\ 1 \in p.tiers /\ TypeOf(rec) \in p.allowed[1]

RunsOnceAndWithApproval ==
  \A n \in Recs :
    /\ n \in auto =>
         \/ Unattended(inForce, diagnosis[n])
         \/ broken /\ Unattended(DefaultPolicy, diagnosis[n])
    /\ ran[n] > 1 =>
         \/ broken \/ "action_log" \in clobbered
         \/ \E c \in Click : click[c].at = "executing"

\* An action that was run, by the pipeline or a press, is reported on in the log
\* sooner or later, unless a statement failed or an overlap lost the entry.
\* (executeRemediation, approveAction)
Reported(n) == \E m \in DOMAIN action_log :
                 action_log[m].of = n /\ action_log[m].status \in {"success", "failed"}
RunsAreReported ==
  \A n \in 1 .. 3 :
    (n \in Recs /\ ran[n] > 0) ~>
      Reported(n) \/ broken \/ "action_log" \in clobbered
=============================================================================

----------------------------- MODULE BudgetAlerts -----------------------------
(* The hourly budget check (checkBudgetAlerts in services/usageCron.ts and     *)
(* services/notificationService.ts in src/console/console-api) of one          *)
(* organization.  Every process runs it, under no lock: for each threshold     *)
(* that is exceeded and has no notification within the suppression window, it  *)
(* sends on each channel and logs each in budget_alert_notifications.          *)
EXTENDS ConsoleProcess, Sequences, FiniteSets

CONSTANTS Thresholds,   \* settings.thresholds: a sequence of labels
          GpuLabels,    \* those of type gpu_util
          Channels,     \* settings.channels: a sequence
          MaxChanges    \* bound: changes of the spend, window ends and hourly ticks

VARIABLES exceeded,     \* labels whose threshold the spend or the GPUs exceed now
          enabled,      \* settings.alertsEnabled
          noted,        \* rows of the suppression window: <<label, channel>>
          fired,        \* the check's timer of each process
          check,        \* each process's run of checkAndSendBudgetAlerts
          notices,      \* history: messages sent in this window, for each label and channel
          excused,      \* history: labels checked twice at once, or left half sent
          changes

alerts == <<exceeded, enabled, noted, fired, check, notices, excused, changes>>

Labels == {Thresholds[k] : k \in DOMAIN Thresholds}
Channel == {Channels[k] : k \in DOMAIN Channels}

\* Nobody lists a channel twice.
ASSUME AlertAssumption ==
  /\ Thresholds \in Seq(Labels) /\ Channels \in Seq(Channel) /\ Channels # <<>>
  /\ \A m, n \in DOMAIN Channels : Channels[m] = Channels[n] => m = n
  /\ MaxChanges \in Nat

NoCheck == [pc |-> "idle", over |-> {}, at |-> 1, channel |-> 1]

InitAlerts ==
  /\ exceeded = {} /\ enabled = TRUE /\ noted = {}
  /\ fired = [i \in Instance |-> FALSE] /\ check = [i \in Instance |-> NoCheck]
  /\ notices = [to \in Labels \X Channel |-> 0] /\ excused = {} /\ changes = 0

-----------------------------------------------------------------------------
(* The outside: spend, settings, time *)

Spend(l) ==
  /\ changes < MaxChanges
  /\ exceeded' = IF l \in exceeded THEN exceeded \ {l} ELSE exceeded \cup {l}
  /\ changes' = changes + 1
  /\ UNCHANGED <<enabled, noted, fired, check, notices, excused>>

SwitchOff ==
  /\ enabled /\ changes < MaxChanges
  /\ enabled' = FALSE
  /\ changes' = changes + 1
  /\ UNCHANGED <<exceeded, noted, fired, check, notices, excused>>

TickAlerts(i) ==
  /\ up[i] = "up" /\ changes < MaxChanges
  /\ fired' = [fired EXCEPT ![i] = TRUE]
  /\ changes' = changes + 1
  /\ UNCHANGED <<exceeded, enabled, noted, check, notices, excused>>

\* A check takes seconds and a window minutes: none ends within a check's turn.
Sending(i, l) ==
  check[i].pc \in {"send", "log"} /\ Thresholds[check[i].at] = l

WindowEnds(l) ==
  /\ changes < MaxChanges
  /\ \A i \in Instance : ~Sending(i, l)
  /\ noted' = {row \in noted : row[1] # l}
  /\ notices' = [p \in DOMAIN notices |-> IF p[1] = l THEN 0 ELSE notices[p]]
  /\ excused' = excused \ {l}
  /\ changes' = changes + 1
  /\ UNCHANGED <<exceeded, enabled, fired, check>>

-----------------------------------------------------------------------------
(* checkAndSendBudgetAlerts, an action for each await that matters *)

\* The settings and the spend are read once, before the loop; the GPUs at each turn.
Triggered(i, l) == IF l \in GpuLabels THEN l \in exceeded ELSE l \in check[i].over

Turned(i, pc, at, channel) ==
  [pc |-> pc, over |-> check[i].over, at |-> at, channel |-> channel]

Start(i) ==
  /\ fired[i] /\ up[i] = "up" /\ check[i].pc = "idle"
  /\ fired' = [fired EXCEPT ![i] = FALSE]
  /\ check' = IF enabled
                THEN [check EXCEPT ![i] = [pc |-> "next", over |-> exceeded, at |-> 1, channel |-> 1]]
                ELSE check
  /\ UNCHANGED <<exceeded, enabled, noted, notices, excused, changes>>

\* (mutant: the rows are not asked for)
WasRecentlyNotified_Never(l) == FALSE
WasRecentlyNotified(l) == \E row \in noted : row[1] = l

Turn(i, l) == check[i].pc = "next" /\ check[i].at <= Len(Thresholds) /\ Thresholds[check[i].at] = l

Consider(i) ==
  /\ \E l \in Labels :
       /\ Turn(i, l)
       /\ LET sends == Triggered(i, l) /\ ~WasRecentlyNotified(l) IN
          /\ check' = [check EXCEPT ![i] =
               IF sends THEN Turned(i, "send", check[i].at, 1)
               ELSE Turned(i, "next", check[i].at + 1, 1)]
          /\ excused' = IF sends /\ \E j \in Instance \ {i} : Sending(j, l)
                          THEN excused \cup {l} ELSE excused
  /\ UNCHANGED <<exceeded, enabled, noted, fired, notices, changes>>

Finish(i) ==
  /\ check[i].pc = "next" /\ check[i].at > Len(Thresholds)
  /\ check' = [check EXCEPT ![i] = NoCheck]
  /\ UNCHANGED <<exceeded, enabled, noted, fired, notices, excused, changes>>

\* sendEmail and sendSlack swallow their errors: what was not delivered is
\* logged like the rest.  Here every attempt counts as a notice.
Send(i) ==
  LET c == check[i] IN
  /\ c.pc = "send"
  /\ notices' = [notices EXCEPT ![<<Thresholds[c.at], Channels[c.channel]>>] = @ + 1]
  /\ check' = [check EXCEPT ![i] = Turned(i, "log", c.at, c.channel)]
  /\ UNCHANGED <<exceeded, enabled, noted, fired, excused, changes>>

LogNotification(i) ==
  LET c == check[i] IN
  /\ c.pc = "log"
  /\ noted' = noted \cup {<<Thresholds[c.at], Channels[c.channel]>>}
  /\ check' = [check EXCEPT ![i] =
       IF c.channel < Len(Channels) THEN Turned(i, "send", c.at, c.channel + 1)
       ELSE Turned(i, "next", c.at + 1, 1)]
  /\ UNCHANGED <<exceeded, enabled, fired, notices, excused, changes>>

\* A query fails: checkBudgetAlerts catches it, and the rest of the
\* organization's thresholds and channels wait for the next hour.
HalfSent(i) ==
  {l \in Labels : Sending(i, l) /\ (check[i].pc = "log" \/ check[i].channel > 1)}

QueryFails(i) ==
  /\ check[i].pc # "idle"
  /\ check' = [check EXCEPT ![i] = NoCheck]
  /\ excused' = excused \cup HalfSent(i)
  /\ UNCHANGED <<exceeded, enabled, noted, fired, notices, changes>>

BootAlerts(i) ==
  /\ fired' = [fired EXCEPT ![i] = TRUE]
  /\ UNCHANGED <<exceeded, enabled, noted, check, notices, excused, changes>>

EndAlerts(i) ==
  /\ fired' = [fired EXCEPT ![i] = FALSE]
  /\ check' = [check EXCEPT ![i] = NoCheck]
  /\ excused' = excused \cup HalfSent(i)
  /\ UNCHANGED <<exceeded, enabled, noted, notices, changes>>

StepAlerts ==
  \/ SwitchOff
  \/ \E l \in Labels : Spend(l) \/ WindowEnds(l)
  \/ \E i \in Instance : TickAlerts(i) \/ Start(i) \/ Consider(i) \/ Send(i)
                         \/ LogNotification(i) \/ QueryFails(i) \/ Finish(i)

AlertsTypeOK ==
  /\ exceeded \subseteq Labels /\ enabled \in BOOLEAN /\ noted \subseteq Labels \X Channel
  /\ fired \in [Instance -> BOOLEAN] /\ excused \subseteq Labels /\ changes \in 0 .. MaxChanges
  /\ notices \in [Labels \X Channel -> Nat]
  /\ check \in [Instance -> [pc : {"idle", "next", "send", "log"}, over : SUBSET Labels,
                             at : 1 .. Len(Thresholds) + 1, channel : 1 .. Len(Channels)]]

(* Within a suppression window each channel is told of a threshold at most     *)
(* once, and if any was told then all were once its check is over: unless two  *)
(* processes considered the threshold at once, or a check ended between its    *)
(* first message and its last row (checkAndSendBudgetAlerts).                  *)
AlertedOnce ==
  \A l \in Labels \ excused :
    /\ \A c \in Channel : notices[<<l, c>>] <= 1
    /\ (\A i \in Instance : ~Sending(i, l)) =>
         Cardinality({c \in Channel : notices[<<l, c>>] = 1}) \in {0, Cardinality(Channel)}
=============================================================================

--------------------------- MODULE MCIncidentRecord ---------------------------
(* Diagnoses, casts and lists for IncidentRecord. *)
EXTENDS IncidentRecord

Rec(words, tier) == [words |-> words, tier |-> tier]

\* What the model may recommend: an automatic action with one to approve, two to
\* approve, and risky ones it calls tier 1; "restart node" has two meanings.
MCDiagnoses ==
  {<<Rec({"restart_worker"}, 1), Rec({"scale_up"}, 2)>>,
   <<Rec({"rollback_model"}, 3), Rec({"switch_model"}, 2)>>,
   <<Rec({"restart_worker", "reboot_node"}, 1), Rec({"reboot_node"}, 1), Rec({}, 3)>>}

\* Tier 1 reboots nodes but restarts no workers; tier 3 asks for nothing.
MCLists == {<<{"reboot_node", "notify_support"}, {"scale_up"}, {}>>}

\* Everybody who writes the log; those who ask; those on the settings page.
MCCasts == {Click \cup Note, Ask, Tab}
=============================================================================

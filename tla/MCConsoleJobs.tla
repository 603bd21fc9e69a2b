---------------------------- MODULE MCConsoleJobs ----------------------------
(* Budget settings for ConsoleJobs; processes and requests are interchangeable. *)
EXTENDS ConsoleJobs, TLC

MCThresholds == <<"spend", "gpu">>
MCGpuLabels == {"gpu"}
MCChannels == <<"email", "slack">>

Symmetry == Permutations(Instance) \cup Permutations(Event)
=============================================================================

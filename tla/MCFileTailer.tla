---------------------------- MODULE MCFileTailer ----------------------------
(* One file with each state= and each notify=, and two files that share the  *)
(* pending set and the idle callback where inotify alone starts chains.      *)
EXTENDS FileTailer

Setup(state, notify, names) == [state |-> state, notify |-> notify, names |-> names]

MCSetups ==
    {Setup("save", "false", {1}), Setup("stream", "false", {1}),
     Setup("forget", "false", {1}), Setup("begin", "true", {1}),
     Setup("begin", "only", {1}), Setup("stream", "only", {1, 2})}

\* A watched directory with one file under logrotate.
WatchedSetup == {Setup("begin", "true", {1})}
=============================================================================

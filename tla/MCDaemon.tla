------------------------------ MODULE MCDaemon ------------------------------
(* Small instances of Daemon for TLC. *)
EXTENDS Daemon

File(targets, keep, most) ==
  [targets |-> targets, retention |-> keep, limit |-> most, database |-> "usage", valid |-> TRUE]
Both == File({1, 2}, 0, 1)
One  == File({1}, 0, 1)

\* A target, no targets at all, and a database path that changes.
MCConfigs == {One, File({}, 0, 1), [One EXCEPT !.database = "other"]}

\* For reloads that change what is copied at the start.
CopiedConfigs == {Both, File({1, 2}, 1, 1), File({1, 2}, 0, 2)}
=============================================================================

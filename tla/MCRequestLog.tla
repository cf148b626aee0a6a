---------------------------- MODULE MCRequestLog ----------------------------
(***************************************************************************)
(* Instances of RequestLog for TLC.                                        *)
(***************************************************************************)
EXTENDS RequestLog

\* The same path with three backups and with none, and another path.
MCConfigs == {[path |-> "log", size |-> 1, backups |-> 3],
              [path |-> "log", size |-> 2, backups |-> 0],
              [path |-> "other", size |-> 2, backups |-> 1]}
=============================================================================

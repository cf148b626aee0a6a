--------------------------- MODULE CommitRegister ---------------------------
(***************************************************************************)
(* What a store promises to those who use it while it is changed: a value  *)
(* in memory, and a file it comes back from.  A change is made of the      *)
(* value that is in use, is in the file before anybody sees it, and is     *)
(* seen as a whole or not at all.  After a crash the value is what the     *)
(* file has, after a power failure what was last synced.  A store that     *)
(* syncs shows a change only when it is durable.                           *)
(***************************************************************************)
CONSTANTS
  Values,   \* what can be in use
  Changes,  \* pairs of values: what one change may make of another
  Edits,    \* what somebody else may leave in the file, values or not
  Syncs,    \* TRUE: the file is synced before a change is seen
  Down      \* no value, while the file holds none

VARIABLES
  value,    \* what is in use, or Down
  staged,   \* at most one [value, own]: what is about to be; own: not adopted
  file,     \* what the file holds
  durable   \* what it holds after a power failure

registerVars == <<value, staged, file, durable>>

Init ==
  /\ value \in Values
  /\ staged = {}
  /\ file = value /\ durable = value

\* A change of what is in use is written.  The file may become durable with it, as
\* it was before or not.
Write ==
  /\ staged = {} /\ staged' = {[value |-> file', own |-> TRUE]}
  /\ <<value, file'>> \in Changes
  /\ durable' \in {durable, file, file'}
  /\ UNCHANGED value

Sync ==
  /\ durable' = file
  /\ UNCHANGED <<value, staged, file>>

\* What the file holds is to be used from now on.
Adopt ==
  /\ staged = {} /\ staged' = {[value |-> file, own |-> FALSE]}
  /\ value \in Values /\ file \in Values
  /\ UNCHANGED <<value, file, durable>>

\* A change is refused; the file may hold it all the same.
Refuse ==
  /\ staged' = {}
  /\ UNCHANGED <<value, file, durable>>

Show(s) ==
  /\ s \in staged
  /\ Syncs /\ s.own => durable = file
  /\ value' = s.value
  /\ staged' = {}
  /\ UNCHANGED <<file, durable>>

\* The file is changed by somebody else.
Edit(content) ==
  /\ file' = content /\ durable' = content
  /\ UNCHANGED <<value, staged>>

Restart(content) ==
  /\ file' = content /\ durable' = content
  /\ value' = IF content \in Values THEN content ELSE Down
  /\ staged' = {}

Next ==
  \/ Write \/ Sync \/ Adopt \/ Refuse
  \/ \E s \in staged : Show(s)
  \/ \E content \in {file, durable} : Restart(content)
  \/ \E content \in Edits : Edit(content)

Spec == Init /\ [][Next]_registerVars
=============================================================================

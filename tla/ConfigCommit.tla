---------------------------- MODULE ConfigCommit ----------------------------
(***************************************************************************)
(* Configuration changes: the transactions under reloadMu (Reload,         *)
(* updateConfigAtRevision, commitStateLocked in internal/gateway), the     *)
(* file they are saved to (internal/config Store) and the administrators'  *)
(* sessions that a commit may revoke (adminauth.go).                       *)
(*                                                                         *)
(* A configuration is the set of the optional settings it contains.  Some  *)
(* of them move the authentication boundary (admin token, allowed          *)
(* networks, session lifetime), some configure the request log.  An        *)
(* operator may edit the file at any time, the process may crash and the   *)
(* machine may lose power at any step; administrators keep using the       *)
(* runtime state that was published when their request arrived.            *)
(***************************************************************************)
EXTENDS Integers, FiniteSets

CONSTANTS
  Settings,      \* what configurations differ in
  Boundary,      \* settings that are part of the authentication boundary
  LogSettings,   \* settings of the request log
  Admins,        \* administrators that review and then change
  Visitors,      \* admin requests being authenticated
  MaxEdits,      \* bound of edits by hand
  MaxCommits,    \* bound of transactions begun
  MaxRestarts,   \* bound of restarts
  None           \* nothing

ASSUME ConfigAssumption ==
  /\ Boundary \subseteq Settings
  /\ LogSettings \subseteq Settings
  /\ MaxEdits \in Nat /\ MaxCommits \in Nat /\ MaxRestarts \in Nat
  /\ None \notin Settings /\ None \notin [doc : SUBSET Settings, generation : Nat]

Docs == SUBSET Settings

\* A file that does not parse or validate.
Broken == {None}

BoundaryOf(doc) == doc \cap Boundary

LogOf(doc) == doc \cap LogSettings

VARIABLES
  disk,        \* the configuration file
  synced,      \* the file a power failure falls back to
  runtime,     \* the published state: [doc, generation], or None while down
  generation,  \* the authenticator's generation
  sessions,    \* cookies it accepts: [generation, boundary at login]
  log,         \* configuration of the request-log writer, None when closed
  tx,          \* the transaction holding reloadMu; change is None for a reload
  view,        \* the configuration each administrator reviewed
  visit,       \* the state each visitor was pinned to, or None
  agreed,      \* history: the configuration the acknowledged changes add up to
  drift,       \* history: the file was edited, or saved by a change that failed
  stuck,       \* history: the log could not be moved back after a failed change
  edits, commits, restarts

vars == <<disk, synced, runtime, generation, sessions, log, tx, view, visit, agreed,
          drift, stuck, edits, commits, restarts>>

bounds == <<edits, commits, restarts>>

Free == [stage |-> "free", target |-> {}, change |-> None, log |-> None]

\* The document with setting c added or taken away.
Toggle(doc, c) == IF c \in doc THEN doc \ {c} ELSE doc \cup {c}

-----------------------------------------------------------------------------
Init ==
  /\ disk \in Docs /\ synced = disk
  /\ runtime = [doc |-> disk, generation |-> 1]
  /\ generation = 1
  /\ sessions = {}
  /\ log = LogOf(disk)
  /\ tx = Free
  /\ view = [a \in Admins |-> None]
  /\ visit = [v \in Visitors |-> None]
  /\ agreed = disk /\ drift = FALSE /\ stuck = FALSE
  /\ edits = 0 /\ commits = 0 /\ restarts = 0

-----------------------------------------------------------------------------
(* Around the transactions.                                                *)

\* The operator edits the file by hand.
Edit(file) ==
  /\ edits < MaxEdits
  /\ file # disk
  /\ disk' = file /\ synced' = file
  /\ drift' = TRUE
  /\ edits' = edits + 1
  /\ UNCHANGED <<runtime, generation, sessions, log, tx, view, visit, agreed, stuck,
                 commits, restarts>>

\* The process ends and New reads the file it finds.  A broken file keeps the
\* gateway down until it is edited.
Restart(file) ==
  /\ restarts < MaxRestarts
  /\ restarts' = restarts + 1
  /\ disk' = file /\ synced' = file
  /\ IF file = Broken
       THEN runtime' = None /\ log' = None /\ UNCHANGED <<agreed, drift>>
       ELSE /\ runtime' = [doc |-> file, generation |-> 1]
            /\ log' = LogOf(file)
            /\ agreed' = file
            /\ drift' = FALSE
  /\ stuck' = FALSE
  /\ generation' = 1
  /\ sessions' = {}
  /\ tx' = Free
  /\ view' = [a \in Admins |-> None]
  /\ visit' = [v \in Visitors |-> None]
  /\ UNCHANGED <<edits, commits>>

Crash == Restart(disk)

PowerLoss == Restart(synced)

\* Gateway.Close: the log is drained and closed; no commit follows.
Close ==
  /\ tx.stage = "free"
  /\ runtime # None /\ log # None
  /\ log' = None
  /\ UNCHANGED <<disk, synced, runtime, generation, sessions, tx, view, visit, agreed,
                 drift, stuck, bounds>>

\* An administrator loads the configuration and its revision.
Review(a) ==
  /\ runtime # None
  /\ view' = [view EXCEPT ![a] = runtime.doc]
  /\ UNCHANGED <<disk, synced, runtime, generation, sessions, log, tx, visit, agreed,
                 drift, stuck, bounds>>

\* An admin request loads the published state; it authenticates later.
Visit(v) ==
  /\ runtime # None
  /\ visit[v] = None
  /\ visit' = [visit EXCEPT ![v] = runtime]
  /\ UNCHANGED <<disk, synced, runtime, generation, sessions, log, tx, view, agreed,
                 drift, stuck, bounds>>

\* Login, or the address alone: the credential was valid under the state the
\* request was pinned to.  A generation that has moved on refuses.
Login(v) ==
  /\ visit[v] # None
  /\ sessions' = IF visit[v].generation = generation
                 THEN sessions \cup {[generation |-> generation,
                                      boundary |-> BoundaryOf(visit[v].doc)]}
                 ELSE sessions
  /\ visit' = [visit EXCEPT ![v] = None]
  /\ UNCHANGED <<disk, synced, runtime, generation, log, tx, view, agreed, drift, stuck, bounds>>

\* The cookie s would authenticate the request of v.
Accepted(v, s) ==
  /\ visit[v] # None
  /\ s \in sessions
  /\ visit[v].generation = generation
  /\ s.generation = generation

-----------------------------------------------------------------------------
(* The transactions.                                                       *)

Begin(target, change) ==
  /\ tx.stage = "free"
  /\ runtime # None /\ log # None
  /\ commits < MaxCommits
  /\ disk # Broken
  /\ commits' = commits + 1
  /\ tx' = [stage |-> "log", target |-> target, change |-> change, log |-> log]

\* SIGHUP or POST /reload: the file as it is.
Reload ==
  /\ Begin(disk, None)
  /\ UNCHANGED <<disk, synced, runtime, generation, sessions, log, view, visit, agreed,
                 drift, stuck, edits, restarts>>

\* What if the file were not compared with the running configuration?
UpdateUnchecked(a, c) ==
  /\ runtime # None
  /\ disk # Broken
  /\ (view[a] = None \/ view[a] = runtime.doc)
  /\ Begin(Toggle(disk, c), c)
  /\ view' = [view EXCEPT ![a] = None]
  /\ UNCHANGED <<disk, synced, runtime, generation, sessions, log, visit, agreed, drift,
                 stuck, edits, restarts>>

\* Read, compare, modify.  An administrator's change carries the revision that
\* was reviewed; the gateway's own changes carry none.
Update(a, c) ==
  /\ runtime # None
  /\ disk = runtime.doc
  /\ (view[a] = None \/ view[a] = runtime.doc)
  /\ Begin(Toggle(disk, c), c)
  /\ view' = [view EXCEPT ![a] = None]
  /\ UNCHANGED <<disk, synced, runtime, generation, sessions, log, visit, agreed, drift,
                 stuck, edits, restarts>>

\* The log writer is moved before anything is saved.  When it cannot be, it
\* keeps its configuration and the change is refused.
StageLog ==
  /\ tx.stage = "log"
  /\ \/ /\ log' = LogOf(tx.target)
        /\ tx' = [tx EXCEPT !.stage = IF tx.change # None THEN "save" ELSE "revoke"]
     \/ log # LogOf(tx.target) /\ tx' = Free /\ UNCHANGED log
  /\ UNCHANGED <<disk, synced, runtime, generation, sessions, view, visit, agreed,
                 drift, stuck, bounds>>

\* Temporary file and rename.
Save ==
  /\ tx.stage = "save"
  /\ disk # Broken
  /\ disk' = tx.target
  /\ tx' = [tx EXCEPT !.stage = "sync"]
  /\ UNCHANGED <<synced, runtime, generation, sessions, log, view, visit, agreed,
                 drift, stuck, bounds>>

\* What if the directory were left to the kernel?
SkipSync ==
  /\ tx.stage = "sync"
  /\ tx' = [tx EXCEPT !.stage = "revoke"]
  /\ UNCHANGED <<disk, synced, runtime, generation, sessions, log, view, visit, agreed,
                 drift, stuck, bounds>>

\* The directory is synced: the change is durable.
SyncDirectory ==
  /\ tx.stage = "sync"
  /\ synced' = disk
  /\ drift' = (drift /\ disk # tx.target)
  /\ tx' = [tx EXCEPT !.stage = "revoke"]
  /\ UNCHANGED <<disk, runtime, generation, sessions, log, view, visit, agreed,
                 stuck, bounds>>

\* The change is refused and the log moved back, if it can be.
RollBack ==
  /\ \/ log' = tx.log /\ UNCHANGED stuck
     \/ log # tx.log /\ stuck' = TRUE /\ UNCHANGED log
  /\ tx' = Free
  /\ UNCHANGED <<disk, synced, runtime, generation, sessions, view, visit, agreed, bounds>>

\* What if only a failed reconfiguration were undone?
SaveFailsLogKept ==
  /\ tx.stage = "save"
  /\ tx' = Free
  /\ UNCHANGED <<disk, synced, runtime, generation, sessions, log, view, visit, agreed,
                 drift, stuck, bounds>>

\* Nothing was renamed: also when the file was broken meanwhile.
SaveFails ==
  /\ tx.stage = "save"
  /\ RollBack
  /\ UNCHANGED drift

\* The new file is in place, yet the change is refused.
SyncFails ==
  /\ tx.stage = "sync"
  /\ RollBack
  /\ drift' = TRUE

\* What if the sessions were dropped but logins under way let through?
RevokeSessionsOnly ==
  /\ tx.stage = "revoke"
  /\ tx' = [tx EXCEPT !.stage = "publish"]
  /\ sessions' = IF BoundaryOf(tx.target) # BoundaryOf(runtime.doc) THEN {} ELSE sessions
  /\ UNCHANGED <<disk, synced, runtime, generation, log, view, visit, agreed, drift,
                 stuck, bounds>>

\* AdminAuthenticator.Reconfigure: a changed boundary ends every session before
\* the new state is published.
Revoke ==
  /\ tx.stage = "revoke"
  /\ tx' = [tx EXCEPT !.stage = "publish"]
  /\ IF BoundaryOf(tx.target) # BoundaryOf(runtime.doc)
       THEN generation' = generation + 1 /\ sessions' = {}
       ELSE UNCHANGED <<generation, sessions>>
  /\ UNCHANGED <<disk, synced, runtime, log, view, visit, agreed, drift, stuck, bounds>>

\* The state is swapped in and the change acknowledged.  A reload has adopted
\* what was edited; it does not sync what an earlier change failed to sync.
Publish ==
  /\ tx.stage = "publish"
  /\ runtime' = [doc |-> tx.target, generation |-> generation]
  /\ agreed' = IF tx.change = None THEN tx.target ELSE Toggle(agreed, tx.change)
  /\ drift' = (drift /\ ~(tx.change = None /\ disk = tx.target /\ synced = tx.target))
  /\ stuck' = FALSE
  /\ tx' = Free
  /\ UNCHANGED <<disk, synced, generation, sessions, log, view, visit, bounds>>

Next ==
  \/ \E file \in Docs \cup {Broken} : Edit(file)
  \/ Crash \/ PowerLoss \/ Close \/ Reload
  \/ \E a \in Admins : Review(a) \/ \E c \in Settings : Update(a, c)
  \/ \E v \in Visitors : Visit(v) \/ Login(v)
  \/ StageLog \/ Save \/ SyncDirectory \/ SaveFails \/ SyncFails \/ Revoke \/ Publish

Spec == Init /\ [][Next]_vars

-----------------------------------------------------------------------------
States == [doc : Docs, generation : Nat]

TypeOK ==
  /\ disk \in Docs \cup {Broken} /\ synced \in Docs \cup {Broken}
  /\ runtime \in States \cup {None}
  /\ generation \in Nat
  /\ sessions \subseteq [generation : Nat, boundary : SUBSET Boundary]
  /\ log \in {None} \cup SUBSET LogSettings
  /\ tx \in [stage : {"free", "log", "save", "sync", "revoke", "publish"}, target : Docs,
             change : Settings \cup {None}, log : {None} \cup SUBSET LogSettings]
  /\ view \in [Admins -> {None} \cup Docs]
  /\ visit \in [Visitors -> States \cup {None}]
  /\ agreed \in Docs
  /\ drift \in BOOLEAN /\ stuck \in BOOLEAN
  /\ edits \in Nat /\ commits \in Nat /\ restarts \in Nat

\* No change is lost: what runs is what the acknowledged changes, each applied
\* to the one before, add up to; and as long as nobody edits the file and no
\* refused change got as far as the file, it is what the disk holds.
ChangesAddUp ==
  runtime # None =>
    /\ runtime.doc = agreed
    /\ tx.stage = "free" /\ ~drift => disk = agreed /\ synced = agreed

\* A crash or power failure between any two steps restarts with the
\* acknowledged changes, or with the one more that was being saved.
RestartIsCommitted ==
  runtime # None /\ ~drift /\ restarts' # restarts =>
    /\ runtime' # None
    /\ \/ runtime'.doc = agreed
       \/ tx.stage \in {"sync", "revoke", "publish"} /\ runtime'.doc = tx.target

RestartKeepsChanges == [][RestartIsCommitted]_vars

\* A cookie is accepted only under the authentication boundary its owner logged
\* in under, whatever reload happens between pinning the state, logging in and
\* presenting the cookie.
SessionsKeepBoundary ==
  \A v \in Visitors : \A s \in sessions :
    Accepted(v, s) => s.boundary = BoundaryOf(visit[v].doc)

\* Between transactions the log writer has the configuration of the state that
\* runs, also after a change that failed; unless moving it back failed, too.
LogFollowsState ==
  tx.stage = "free" /\ runtime # None /\ log # None /\ ~stuck => log = LogOf(runtime.doc)

\* The writer and the published state agree between transactions.
WriterAgrees == TypeOK /\ LogFollowsState

-----------------------------------------------------------------------------
(* The configuration as a register.                                        *)

\* The configuration that runs.
Running == IF runtime = None THEN None ELSE runtime.doc

\* What is about to be published: a change once it is in the file, and what a
\* reload has read.
Staged ==
  IF \/ tx.change # None /\ tx.stage \in {"sync", "revoke", "publish"}
     \/ tx.change = None /\ tx.stage # "free"
  THEN {[value |-> tx.target, own |-> tx.change # None]}
  ELSE {}

\* A setting is added or taken away.
OneSetting == {c \in Docs \X Docs : \E s \in Settings : c[2] = Toggle(c[1], s)}

Register == INSTANCE CommitRegister WITH
  Values <- Docs,
  Changes <- OneSetting,
  Edits <- Docs \cup {Broken},
  Syncs <- TRUE,
  Down <- None,
  value <- Running,
  staged <- Staged,
  file <- disk,
  durable <- synced

\* admin.go:415: whoever changes the configuration changes a register: each
\* change is made of the configuration that runs, is durable before it is seen,
\* and is seen as a whole or not at all.
ImplementsRegister == Register!Spec
=============================================================================

------------------------ MODULE ConfigCommit_proofs ------------------------
(***************************************************************************)
(* What holds of configuration changes for any settings, administrators    *)
(* and visitors and any number of edits, changes and restarts: no          *)
(* acknowledged change is lost, neither while the process runs nor when it *)
(* or the machine stops between two steps, the request log follows the     *)
(* published state, and a session never outlives its boundary.             *)
(***************************************************************************)
EXTENDS ConfigCommit, TLAPS

\* While a transaction holds the lock, the log has the configuration found at
\* first and that of the target from then on, and the one to go back to is that
\* of the running state.
WriterInv ==
  /\ LogFollowsState
  /\ tx.stage # "free" =>
       /\ runtime # None
       /\ ~stuck => tx.log = LogOf(runtime.doc)
       /\ log = IF tx.stage = "log" THEN tx.log ELSE LogOf(tx.target)

\* A change applies to what was agreed, a reload goes from the log to the
\* sessions without saving anything.
TargetInv ==
  /\ runtime # None => runtime.doc = agreed
  /\ tx.change # None /\ tx.stage # "free" => tx.target = Toggle(agreed, tx.change)
  /\ tx.change = None => tx.stage \notin {"save", "sync"}

\* What the disk and a power failure would give back at each stage, unless the
\* file was edited or an earlier change failed after the rename.
DiskInv ==
  runtime # None /\ ~drift =>
    /\ tx.stage \in {"free", "log", "save"} => disk = agreed /\ synced = agreed
    /\ tx.stage = "sync" => disk = tx.target /\ synced = agreed
    /\ tx.stage \in {"revoke", "publish"} => disk = tx.target /\ synced = tx.target
    /\ tx.stage = "log" /\ tx.change = None => tx.target = agreed

\* The generation of the state that runs is the authenticator's, or an earlier
\* one of another boundary while the state to come waits to be published.
GenerationInv ==
  runtime # None =>
    /\ runtime.generation <= generation
    /\ tx.stage # "publish" => runtime.generation = generation
    /\ tx.stage = "publish" /\ runtime.generation = generation =>
         BoundaryOf(tx.target) = BoundaryOf(runtime.doc)

\* Whoever has the current generation, as a session or as a request pinned to a
\* state, has the boundary of the state that runs.
SessionInv ==
  /\ \A v \in Visitors : visit[v] # None =>
       /\ runtime # None
       /\ visit[v].generation <= runtime.generation
       /\ visit[v].generation = generation => BoundaryOf(visit[v].doc) = BoundaryOf(runtime.doc)
  /\ \A s \in sessions :
       /\ runtime # None
       /\ s.generation = generation /\ runtime.generation = generation
       /\ s.boundary = BoundaryOf(runtime.doc)

\* A change is durable, unless the file was edited, before sessions end for it.
SettledInv == tx.change # None /\ tx.stage \in {"revoke", "publish"} => synced = disk

IInv ==
  /\ TypeOK /\ WriterInv /\ TargetInv /\ DiskInv
  /\ GenerationInv /\ SessionInv /\ SettledInv

-----------------------------------------------------------------------------
(* Types.                                                                  *)

\* Parts and variants of configurations are configurations.
LEMMA DocTypes ==
  /\ \A doc \in Docs : LogOf(doc) \in SUBSET LogSettings /\ BoundaryOf(doc) \in SUBSET Boundary
  /\ \A doc \in Docs, c \in Settings : Toggle(doc, c) \in Docs
  /\ Broken \notin Docs
  /\ \A state \in States : state # None /\ state.doc \in Docs /\ state.generation \in Nat
  /\ \A doc \in Docs, n \in Nat : [doc |-> doc, generation |-> n] \in States
  /\ Free \in [stage : {"free"}, target : Docs, change : {None}, log : {None}]
BY ConfigAssumption DEF LogOf, BoundaryOf, Docs, Toggle, Broken, States, Free

\* What a step does with the lock: it takes it, passes to the next stage, or
\* gives it back.
LEMMA TransactionMoves ==
  ASSUME TypeOK
  PROVE  /\ \A target \in Docs, change \in Settings \cup {None} :
              Begin(target, change) =>
                /\ runtime # None /\ log # None /\ disk # Broken
                /\ tx.stage = "free" /\ commits' \in Nat
                /\ tx'.stage = "log" /\ tx'.target = target /\ tx'.change = change
                /\ tx'.log = log
         /\ \A stage : tx' = [tx EXCEPT !.stage = stage] =>
              /\ tx'.stage = stage /\ tx'.target = tx.target
              /\ tx'.change = tx.change /\ tx'.log = tx.log
         /\ tx' = Free => tx'.stage = "free" /\ tx'.change = None
BY DEF TypeOK, Begin, Free

\* The initial states satisfy the invariant.
LEMMA InitInv == Init => IInv
<1> SUFFICES ASSUME Init PROVE IInv
  OBVIOUS
<1>1. /\ runtime \in States /\ runtime.doc = disk /\ runtime.generation = 1
      /\ runtime # None /\ disk \in Docs
  BY DocTypes DEF Init
<1>2. tx.stage = "free" /\ tx.change = None
  BY DEF Init, Free
<1>3. TypeOK
  BY <1>1, DocTypes DEF Init, TypeOK, Free
<1>4. WriterInv
  BY <1>1, <1>2 DEF Init, WriterInv, LogFollowsState
<1>5. TargetInv /\ DiskInv /\ GenerationInv /\ SessionInv /\ SettledInv
  BY <1>1, <1>2 DEF Init, TargetInv, DiskInv, GenerationInv, SessionInv, SettledInv
<1>6. QED
  BY <1>3, <1>4, <1>5 DEF IInv

\* What a restart finds in place of everything it drops.
LEMMA RestartStarts ==
  ASSUME TypeOK, NEW file \in Docs \cup {Broken}, Restart(file)
  PROVE  /\ TypeOK'
         /\ tx'.stage = "free" /\ tx'.change = None /\ stuck' = FALSE /\ generation' = 1
         /\ disk' = file /\ synced' = file /\ sessions' = {}
         /\ \A v \in Visitors : visit'[v] = None
         /\ file = Broken => runtime' = None /\ log' = None
         /\ file # Broken =>
              /\ runtime' # None /\ runtime'.doc = file /\ runtime'.generation = 1
              /\ log' = LogOf(file) /\ agreed' = file /\ drift' = FALSE
<1>1. /\ tx' = Free /\ stuck' = FALSE /\ generation' = 1
      /\ disk' = file /\ synced' = file /\ sessions' = {}
      /\ visit' = [v \in Visitors |-> None] /\ view' = [a \in Admins |-> None]
      /\ restarts' = restarts + 1 /\ edits' = edits /\ commits' = commits
  BY DEF Restart
<1> DEFINE Transactions == [stage : {"free", "log", "save", "sync", "revoke", "publish"},
                           target : Docs, change : Settings \cup {None},
                           log : {None} \cup SUBSET LogSettings]
<1>0. /\ Free \in Transactions /\ restarts + 1 \in Nat
      /\ [v \in Visitors |-> None] \in [Visitors -> States \cup {None}]
      /\ [a \in Admins |-> None] \in [Admins -> {None} \cup Docs]
  BY DocTypes DEF TypeOK, Free
<1>2. CASE file = Broken
  <2>1. runtime' = None /\ log' = None /\ agreed' = agreed /\ drift' = drift
    BY <1>2 DEF Restart
  <2>2. TypeOK'
    BY <1>0, <1>1, <2>1 DEF TypeOK
  <2>3. QED
    BY <1>1, <1>2, <2>1, <2>2 DEF Free
<1>3. CASE file # Broken
  <2>1. /\ runtime' = [doc |-> file, generation |-> 1] /\ log' = LogOf(file)
        /\ agreed' = file /\ drift' = FALSE
    BY <1>3 DEF Restart
  <2>2. runtime' \in States /\ runtime' # None
    BY <1>3, <2>1, DocTypes
  <2>3. TypeOK'
    <3>1. LogOf(file) \in SUBSET LogSettings /\ file \in Docs
      BY <1>3, DocTypes
    <3>2. QED
      BY <1>0, <1>1, <2>1, <2>2, <3>1 DEF TypeOK
  <2>4. QED
    BY <1>1, <1>3, <2>1, <2>2, <2>3 DEF Free
<1>4. QED
  BY <1>2, <1>3

\* A step keeps the types.
LEMMA TypeInv == TypeOK /\ [Next]_vars => TypeOK'
<1> SUFFICES ASSUME TypeOK, [Next]_vars PROVE TypeOK'
  OBVIOUS
<1> USE DocTypes, ConfigAssumption
<1>1. ASSUME NEW file \in Docs \cup {Broken}, Edit(file) PROVE TypeOK'
  BY <1>1 DEF Edit, TypeOK
<1>2. CASE Crash \/ PowerLoss
  <2>1. disk \in Docs \cup {Broken} /\ synced \in Docs \cup {Broken}
    BY DEF TypeOK
  <2>2. QED
    BY <1>2, <2>1, RestartStarts DEF Crash, PowerLoss
<1>3. CASE Close
  BY <1>3 DEF Close, TypeOK, bounds
<1>4. CASE Reload
  <2>1. disk \in Docs /\ commits' \in Nat
        /\ tx' = [stage |-> "log", target |-> disk, change |-> None, log |-> log]
    BY <1>4 DEF Reload, Begin, TypeOK
  <2>2. QED
    BY <1>4, <2>1 DEF Reload, TypeOK
<1>5. ASSUME NEW a \in Admins, Review(a) PROVE TypeOK'
  BY <1>5 DEF Review, TypeOK, bounds
<1>6. ASSUME NEW a \in Admins, NEW c \in Settings, Update(a, c) PROVE TypeOK'
  <2>1. /\ Toggle(disk, c) \in Docs /\ commits' \in Nat
        /\ tx' = [stage |-> "log", target |-> Toggle(disk, c), change |-> c, log |-> log]
    BY <1>6 DEF Update, Begin, TypeOK
  <2>2. QED
    BY <1>6, <2>1 DEF Update, TypeOK
<1>7. ASSUME NEW v \in Visitors, Visit(v) PROVE TypeOK'
  BY <1>7 DEF Visit, TypeOK, bounds
<1>8. ASSUME NEW v \in Visitors, Login(v) PROVE TypeOK'
  <2>1. visit[v] \in States /\ visit' \in [Visitors -> States \cup {None}]
    BY <1>8 DEF Login, TypeOK
  <2>2. sessions' \subseteq [generation : Nat, boundary : SUBSET Boundary]
    BY <1>8, <2>1 DEF Login, TypeOK
  <2>3. QED
    BY <1>8, <2>1, <2>2 DEF Login, TypeOK, bounds
<1>9. CASE StageLog
  BY <1>9 DEF StageLog, TypeOK, Free, bounds
<1>10. CASE Save
  BY <1>10 DEF Save, TypeOK, bounds
<1>11. CASE SyncDirectory
  BY <1>11 DEF SyncDirectory, TypeOK, bounds
<1>12. CASE SaveFails \/ SyncFails
  BY <1>12 DEF SaveFails, SyncFails, RollBack, TypeOK, Free, bounds
<1>13. CASE Revoke
  BY <1>13 DEF Revoke, TypeOK, bounds
<1>14. CASE Publish
  <2>1. tx.target \in Docs /\ tx.change \in Settings \cup {None} /\ generation \in Nat
    BY DEF TypeOK
  <2>2. runtime' \in States /\ agreed' \in Docs
    BY <1>14, <2>1 DEF Publish, TypeOK
  <2>3. tx' = Free /\ drift' \in BOOLEAN /\ stuck' = FALSE
    BY <1>14 DEF Publish, TypeOK
  <2>4. QED
    BY <1>14, <2>2, <2>3 DEF Publish, TypeOK, Free, bounds
<1>15. CASE UNCHANGED vars
  BY <1>15 DEF vars, bounds, TypeOK
<1>16. QED
  BY <1>1, <1>2, <1>3, <1>4, <1>5, <1>6, <1>7, <1>8, <1>9, <1>10, <1>11, <1>12, <1>13,
     <1>14, <1>15 DEF Next

-----------------------------------------------------------------------------
(* The parts of the invariant.                                             *)

\* A crash or a power failure is a restart from what the disk holds.
LEMMA RestartsFrom ==
  ASSUME IInv, Crash \/ PowerLoss
  PROVE  \E file \in {disk, synced} :
           /\ file \in Docs \cup {Broken}
           /\ Restart(file)
BY DEF IInv, TypeOK, Crash, PowerLoss

\* A step keeps the log writer and the published state together.
LEMMA WriterStep ==
  ASSUME IInv, [Next]_vars
  PROVE  WriterInv'
<1> USE DEF WriterInv, LogFollowsState
<1>0. TypeOK /\ WriterInv
  BY DEF IInv
<1>1. CASE Crash \/ PowerLoss
  <2>1. PICK file \in {disk, synced} : file \in Docs \cup {Broken} /\ Restart(file)
    BY <1>1, RestartsFrom
  <2>2. QED
    BY <1>0, <2>1, RestartStarts
<1>2. CASE Close
  BY <1>0, <1>2 DEF Close
<1>3. ASSUME NEW target \in Docs, NEW change \in Settings \cup {None}, Begin(target, change),
             UNCHANGED <<runtime, log, stuck>>
      PROVE  WriterInv'
  BY <1>0, <1>3, TransactionMoves
<1>4. CASE Reload
  <2>1. disk \in Docs /\ Begin(disk, None)
    BY <1>0, <1>4 DEF Reload, Begin, TypeOK
  <2>2. QED
    BY <1>3, <1>4, <2>1 DEF Reload
<1>5. ASSUME NEW a \in Admins, NEW c \in Settings, Update(a, c) PROVE WriterInv'
  <2>1. Toggle(disk, c) \in Docs /\ Begin(Toggle(disk, c), c)
    BY <1>0, <1>5, DocTypes DEF Update, Begin, TypeOK
  <2>2. QED
    BY <1>3, <1>5, <2>1 DEF Update
<1>6. CASE StageLog
  <2>1. CASE /\ log' = LogOf(tx.target)
             /\ tx' = [tx EXCEPT !.stage = IF tx.change # None THEN "save" ELSE "revoke"]
    <3>1. /\ tx'.stage \in {"save", "revoke"} /\ tx'.target = tx.target /\ tx'.log = tx.log
      BY <1>0, <2>1, TransactionMoves
    <3>2. QED
      BY <1>0, <1>6, <2>1, <3>1 DEF StageLog
  <2>2. CASE tx' = Free /\ UNCHANGED log
    BY <1>0, <1>6, <2>2, TransactionMoves DEF StageLog
  <2>3. QED
    BY <1>6, <2>1, <2>2 DEF StageLog
<1>7. ASSUME tx.stage \in {"save", "sync", "revoke"},
             tx' = [tx EXCEPT !.stage = "sync"] \/ tx' = [tx EXCEPT !.stage = "revoke"]
               \/ tx' = [tx EXCEPT !.stage = "publish"],
             UNCHANGED <<runtime, log, stuck>>
      PROVE  WriterInv'
  <2>1. /\ tx'.stage \in {"sync", "revoke", "publish"}
        /\ tx'.target = tx.target /\ tx'.log = tx.log
    BY <1>0, <1>7, TransactionMoves
  <2>2. QED
    BY <1>0, <1>7, <2>1
<1>8. CASE Save
  BY <1>7, <1>8 DEF Save
<1>9. CASE SyncDirectory
  BY <1>7, <1>9 DEF SyncDirectory
<1>10. CASE SaveFails \/ SyncFails
  <2>1. tx'.stage = "free" /\ runtime' = runtime /\ tx.stage # "free"
    BY <1>0, <1>10, TransactionMoves DEF SaveFails, SyncFails, RollBack
  <2>2. (log' = tx.log /\ stuck' = stuck) \/ stuck' = TRUE
    BY <1>10 DEF SaveFails, SyncFails, RollBack
  <2>3. QED
    BY <1>0, <2>1, <2>2
<1>11. CASE Revoke
  BY <1>7, <1>11 DEF Revoke
<1>12. CASE Publish
  <2>1. tx'.stage = "free" /\ runtime'.doc = tx.target /\ log' = log
    BY <1>0, <1>12, TransactionMoves DEF Publish
  <2>2. QED
    BY <1>0, <1>12, <2>1 DEF Publish
<1>13. ASSUME UNCHANGED <<runtime, log, tx, stuck>> PROVE WriterInv'
  BY <1>0, <1>13
<1>14. CASE UNCHANGED vars
  BY <1>13, <1>14 DEF vars
<1>15. ASSUME NEW file, Edit(file) PROVE WriterInv'
  BY <1>13, <1>15 DEF Edit
<1>16. ASSUME NEW a, Review(a) PROVE WriterInv'
  BY <1>13, <1>16 DEF Review
<1>17. ASSUME NEW v, Visit(v) \/ Login(v) PROVE WriterInv'
  BY <1>13, <1>17 DEF Visit, Login
<1>18. QED
  BY <1>1, <1>2, <1>4, <1>5, <1>6, <1>8, <1>9, <1>10, <1>11, <1>12, <1>14, <1>15, <1>16,
     <1>17 DEF Next

\* A step keeps what the changes add up to, in memory and on the disk.
LEMMA DiskStep ==
  ASSUME IInv, [Next]_vars
  PROVE  TargetInv' /\ DiskInv'
<1> USE DEF TargetInv, DiskInv
<1>0. TypeOK /\ WriterInv /\ TargetInv /\ DiskInv
  BY DEF IInv
<1>1. CASE Crash \/ PowerLoss
  <2>1. PICK file \in {disk, synced} : file \in Docs \cup {Broken} /\ Restart(file)
    BY <1>1, RestartsFrom
  <2>2. QED
    BY <1>0, <2>1, RestartStarts
<1>2. CASE Reload
  <2>1. disk \in Docs /\ Begin(disk, None) /\ UNCHANGED <<runtime, disk, synced, agreed, drift>>
    BY <1>0, <1>2 DEF Reload, Begin, TypeOK
  <2>2. /\ tx.stage = "free" /\ runtime # None
        /\ tx'.stage = "log" /\ tx'.target = disk /\ tx'.change = None
    BY <1>0, <2>1, TransactionMoves
  <2>3. QED
    BY <1>0, <2>1, <2>2
<1>3. ASSUME NEW a \in Admins, NEW c \in Settings, Update(a, c) PROVE TargetInv' /\ DiskInv'
  <2>1. /\ Toggle(disk, c) \in Docs /\ Begin(Toggle(disk, c), c)
        /\ disk = runtime.doc /\ UNCHANGED <<runtime, disk, synced, agreed, drift>>
    BY <1>0, <1>3, DocTypes DEF Update, Begin, TypeOK
  <2>2. /\ tx.stage = "free" /\ runtime # None
        /\ tx'.stage = "log" /\ tx'.target = Toggle(disk, c) /\ tx'.change = c /\ c # None
    BY <1>0, <2>1, TransactionMoves, ConfigAssumption
  <2>3. QED
    BY <1>0, <2>1, <2>2
<1>4. CASE StageLog
  <2>1. CASE tx' = [tx EXCEPT !.stage = IF tx.change # None THEN "save" ELSE "revoke"]
    <3>1. /\ tx'.stage = IF tx.change # None THEN "save" ELSE "revoke"
          /\ tx'.target = tx.target /\ tx'.change = tx.change
      BY <1>0, <2>1, TransactionMoves
    <3>2. QED
      BY <1>0, <1>4, <3>1 DEF StageLog
  <2>2. CASE tx' = Free
    BY <1>0, <1>4, <2>2, TransactionMoves DEF StageLog
  <2>3. QED
    BY <1>4, <2>1, <2>2 DEF StageLog
<1>5. CASE Save
  <2>1. tx'.stage = "sync" /\ tx'.target = tx.target /\ tx'.change = tx.change
    BY <1>0, <1>5, TransactionMoves DEF Save
  <2>2. QED
    BY <1>0, <1>5, <2>1 DEF Save
<1>6. CASE SyncDirectory
  <2>1. tx'.stage = "revoke" /\ tx'.target = tx.target /\ tx'.change = tx.change
    BY <1>0, <1>6, TransactionMoves DEF SyncDirectory
  <2>2. ~drift' => ~drift \/ disk = tx.target
    BY <1>6 DEF SyncDirectory
  <2>3. runtime # None
    BY <1>0, <1>6 DEF SyncDirectory, WriterInv
  <2>4. QED
    BY <1>0, <1>6, <2>1, <2>2, <2>3 DEF SyncDirectory
<1>7. CASE SaveFails
  BY <1>0, <1>7, TransactionMoves DEF SaveFails, RollBack
<1>8. CASE SyncFails
  BY <1>0, <1>8, TransactionMoves DEF SyncFails, RollBack
<1>9. CASE Revoke
  <2>1. tx'.stage = "publish" /\ tx'.target = tx.target /\ tx'.change = tx.change
    BY <1>0, <1>9, TransactionMoves DEF Revoke
  <2>2. QED
    BY <1>0, <1>9, <2>1 DEF Revoke
<1>10. CASE Publish
  <2>1. /\ tx.stage = "publish" /\ tx'.stage = "free" /\ tx'.change = None
        /\ runtime'.doc = tx.target
        /\ disk' = disk /\ synced' = synced /\ runtime # None
    BY <1>0, <1>10, TransactionMoves DEF Publish, WriterInv
  <2>2. agreed' = tx.target
    BY <1>0, <1>10, <2>1 DEF Publish
  <2>3. ~drift' => ~drift \/ (disk = tx.target /\ synced = tx.target)
    <3>1. CASE tx.change = None /\ disk = tx.target /\ synced = tx.target
      BY <3>1
    <3>2. CASE ~(tx.change = None /\ disk = tx.target /\ synced = tx.target)
      <4>1. drift' = drift
        BY <1>0, <1>10, <3>2 DEF Publish, TypeOK
      <4>2. QED
        BY <4>1, Zenon
    <3>3. QED
      BY <3>1, <3>2
  <2>4. QED
    BY <1>0, <2>1, <2>2, <2>3
<1>11. ASSUME NEW file, Edit(file) PROVE TargetInv' /\ DiskInv'
  BY <1>0, <1>11 DEF Edit
<1>12. ASSUME UNCHANGED <<runtime, tx, agreed, drift, disk, synced>>
       PROVE  TargetInv' /\ DiskInv'
  BY <1>0, <1>12
<1>13. CASE Close \/ UNCHANGED vars
  BY <1>12, <1>13 DEF Close, vars
<1>14. ASSUME NEW a, Review(a) PROVE TargetInv' /\ DiskInv'
  BY <1>12, <1>14 DEF Review
<1>15. ASSUME NEW v, Visit(v) \/ Login(v) PROVE TargetInv' /\ DiskInv'
  BY <1>12, <1>15 DEF Visit, Login
<1>16. QED
  BY <1>1, <1>2, <1>3, <1>4, <1>5, <1>6, <1>7, <1>8, <1>9, <1>10, <1>11, <1>13, <1>14,
     <1>15 DEF Next

\* A step keeps generations apart whose boundaries differ, and every session in
\* the boundary of the state that runs.
LEMMA SessionStep ==
  ASSUME IInv, [Next]_vars
  PROVE  GenerationInv' /\ SessionInv'
<1> USE DEF GenerationInv, SessionInv
<1>0. TypeOK /\ WriterInv /\ GenerationInv /\ SessionInv
  BY DEF IInv
<1>1. CASE Crash \/ PowerLoss
  <2>1. PICK file \in {disk, synced} : file \in Docs \cup {Broken} /\ Restart(file)
    BY <1>1, RestartsFrom
  <2>2. /\ tx'.stage = "free" /\ generation' = 1 /\ sessions' = {}
        /\ \A v \in Visitors : visit'[v] = None
        /\ runtime' # None => runtime'.generation = 1
    BY <1>0, <2>1, RestartStarts
  <2>3. QED
    BY <2>2
<1>2. ASSUME tx.stage # "publish", tx'.stage # "publish",
             UNCHANGED <<runtime, generation, sessions, visit>>
      PROVE  GenerationInv' /\ SessionInv'
  BY <1>0, <1>2
<1>3. CASE Reload
  <2>1. tx.stage = "free" /\ tx'.stage = "log"
    BY <1>3 DEF Reload, Begin
  <2>2. QED
    BY <1>2, <1>3, <2>1 DEF Reload
<1>4. ASSUME NEW a \in Admins, NEW c \in Settings, Update(a, c)
      PROVE  GenerationInv' /\ SessionInv'
  <2>1. tx.stage = "free" /\ tx'.stage = "log"
    BY <1>4 DEF Update, Begin
  <2>2. QED
    BY <1>2, <1>4, <2>1 DEF Update
<1>5. CASE StageLog
  <2>1. tx'.stage \in {"save", "revoke", "free"}
    BY <1>0, <1>5, TransactionMoves DEF StageLog, TypeOK, Free
  <2>2. QED
    BY <1>2, <1>5, <2>1 DEF StageLog
<1>6. CASE Save
  BY <1>0, <1>2, <1>6, TransactionMoves DEF Save
<1>7. CASE SyncDirectory
  BY <1>0, <1>2, <1>7, TransactionMoves DEF SyncDirectory
<1>8. CASE SaveFails \/ SyncFails
  BY <1>0, <1>2, <1>8, TransactionMoves DEF SaveFails, SyncFails, RollBack
<1>9. CASE Revoke
  <2>1. /\ runtime # None /\ runtime' = runtime /\ visit' = visit
        /\ tx.stage = "revoke" /\ tx'.stage = "publish" /\ tx'.target = tx.target
        /\ runtime.generation = generation /\ generation \in Nat
    BY <1>0, <1>9, TransactionMoves DEF Revoke, WriterInv, TypeOK
  <2>2. \A v \in Visitors : visit[v] # None =>
          /\ visit[v].generation \in Nat /\ visit[v].generation <= generation
          /\ visit[v].generation = generation =>
               BoundaryOf(visit[v].doc) = BoundaryOf(runtime.doc)
    BY <1>0, <2>1 DEF TypeOK, States
  <2>3. CASE BoundaryOf(tx.target) # BoundaryOf(runtime.doc)
    <3>1. generation' = generation + 1 /\ sessions' = {}
      BY <1>9, <2>3 DEF Revoke
    <3>2. QED
      BY <2>1, <2>2, <3>1
  <2>4. CASE BoundaryOf(tx.target) = BoundaryOf(runtime.doc)
    <3>1. generation' = generation /\ sessions' = sessions
      BY <1>9, <2>4 DEF Revoke
    <3>2. QED
      BY <1>0, <2>1, <2>4, <3>1
  <2>5. QED
    BY <2>3, <2>4
<1>10. CASE Publish
  <2>1. /\ runtime # None /\ runtime \in States /\ generation \in Nat
        /\ tx.stage = "publish" /\ tx'.stage = "free"
    BY <1>0, <1>10, TransactionMoves DEF Publish, WriterInv, TypeOK
  <2>2. /\ runtime' = [doc |-> tx.target, generation |-> generation] /\ runtime' # None
        /\ sessions' = sessions /\ visit' = visit /\ generation' = generation
    BY <1>0, <1>10, <2>1, DocTypes DEF Publish, TypeOK
  <2>3. /\ runtime.generation \in Nat /\ runtime.generation <= generation
        /\ runtime.generation = generation => BoundaryOf(tx.target) = BoundaryOf(runtime.doc)
    BY <1>0, <2>1 DEF States
  <2>4. ASSUME NEW v \in Visitors, visit[v] # None
        PROVE  /\ visit[v].generation <= generation
               /\ visit[v].generation = generation =>
                    BoundaryOf(visit[v].doc) = BoundaryOf(tx.target)
    <3>1. visit[v].generation \in Nat /\ visit[v].generation <= runtime.generation
      BY <1>0, <2>4 DEF TypeOK, States
    <3>2. QED
      BY <1>0, <2>1, <2>3, <2>4, <3>1
  <2>5. \A s \in sessions : s.generation = generation /\ s.boundary = BoundaryOf(tx.target)
    BY <1>0, <2>3
  <2>6. QED
    BY <2>1, <2>2, <2>4, <2>5
<1>11. ASSUME NEW v \in Visitors, Visit(v) PROVE GenerationInv' /\ SessionInv'
  <2>1. /\ runtime # None /\ runtime \in States /\ generation \in Nat
        /\ runtime' = runtime /\ generation' = generation /\ sessions' = sessions /\ tx' = tx
        /\ visit' = [visit EXCEPT ![v] = runtime] /\ visit \in [Visitors -> States \cup {None}]
    BY <1>0, <1>11 DEF Visit, TypeOK
  <2>2. runtime.generation \in Nat /\ runtime.generation <= runtime.generation
    BY <2>1 DEF States
  <2>3. QED
    BY <1>0, <2>1, <2>2
<1>12. ASSUME NEW v \in Visitors, Login(v) PROVE GenerationInv' /\ SessionInv'
  <2>1. /\ visit[v] # None /\ visit[v] \in States
        /\ runtime # None /\ runtime \in States /\ generation \in Nat
        /\ runtime' = runtime /\ generation' = generation /\ tx' = tx
        /\ visit' = [visit EXCEPT ![v] = None] /\ visit \in [Visitors -> States \cup {None}]
    BY <1>0, <1>12 DEF Login, TypeOK
  <2>2. ASSUME NEW s \in sessions' PROVE /\ s.generation = generation
                                         /\ runtime.generation = generation
                                         /\ s.boundary = BoundaryOf(runtime.doc)
    <3>1. CASE s \in sessions
      BY <1>0, <3>1
    <3>2. CASE /\ s = [generation |-> generation, boundary |-> BoundaryOf(visit[v].doc)]
               /\ visit[v].generation = generation
      <4>1. runtime.generation \in Nat /\ visit[v].generation <= runtime.generation
            /\ runtime.generation <= generation
        BY <1>0, <2>1 DEF States
      <4>2. runtime.generation = generation
        BY <2>1, <3>2, <4>1
      <4>3. QED
        BY <1>0, <2>1, <3>2, <4>2
    <3>3. QED
      BY <1>12, <2>2, <3>1, <3>2 DEF Login
  <2>3. QED
    BY <1>0, <2>1, <2>2
<1>13. ASSUME UNCHANGED <<runtime, generation, sessions, tx, visit>>
       PROVE  GenerationInv' /\ SessionInv'
  BY <1>0, <1>13
<1>14. CASE Close \/ UNCHANGED vars
  BY <1>13, <1>14 DEF Close, vars
<1>15. ASSUME NEW file, Edit(file) PROVE GenerationInv' /\ SessionInv'
  BY <1>13, <1>15 DEF Edit
<1>16. ASSUME NEW a, Review(a) PROVE GenerationInv' /\ SessionInv'
  BY <1>13, <1>16 DEF Review
<1>17. QED
  BY <1>1, <1>3, <1>4, <1>5, <1>6, <1>7, <1>8, <1>9, <1>10, <1>11, <1>12, <1>14, <1>15,
     <1>16 DEF Next

\* Only a synced change goes on, and who writes the file writes it durably.
LEMMA SettledStep ==
  ASSUME IInv, [Next]_vars
  PROVE  SettledInv'
<1> USE DEF SettledInv
<1>0. TypeOK /\ SettledInv
  BY DEF IInv
<1>1. CASE Crash \/ PowerLoss
  BY <1>0, <1>1, RestartsFrom, RestartStarts
<1>2. CASE Reload \/ \E a \in Admins, c \in Settings : Update(a, c)
  BY <1>2 DEF Reload, Update, Begin
<1>3. CASE StageLog
  <2>1. CASE tx' = Free
    BY <2>1 DEF Free
  <2>2. CASE tx' = [tx EXCEPT !.stage = IF tx.change # None THEN "save" ELSE "revoke"]
    BY <1>0, <2>2, TransactionMoves
  <2>3. QED
    BY <1>3, <2>1, <2>2 DEF StageLog
<1>4. CASE Save \/ SyncDirectory
  BY <1>0, <1>4, TransactionMoves DEF Save, SyncDirectory
<1>5. CASE SaveFails \/ SyncFails \/ Publish
  BY <1>5 DEF SaveFails, SyncFails, RollBack, Publish, Free
<1>6. CASE Revoke
  BY <1>0, <1>6, TransactionMoves DEF Revoke
<1>7. ASSUME NEW file, Edit(file) PROVE SettledInv'
  BY <1>7 DEF Edit
<1>8. CASE UNCHANGED <<tx, disk, synced>>
  BY <1>0, <1>8
<1>9. ASSUME NEW a, Review(a) \/ Visit(a) \/ Login(a) PROVE UNCHANGED <<tx, disk, synced>>
  BY <1>9 DEF Review, Visit, Login
<1>10. CASE Close \/ UNCHANGED vars
  BY <1>8, <1>10 DEF Close, vars
<1>11. QED
  BY <1>1, <1>2, <1>3, <1>4, <1>5, <1>6, <1>7, <1>8, <1>9, <1>10 DEF Next

-----------------------------------------------------------------------------
(* What holds of every behaviour.                                          *)

\* The invariant holds in every state.
THEOREM SpecInv == Spec => []IInv
<1>1. IInv /\ [Next]_vars => IInv'
  <2> SUFFICES ASSUME IInv, [Next]_vars PROVE IInv'
    OBVIOUS
  <2>1. TypeOK'
    BY TypeInv DEF IInv
  <2>2. QED
    BY <2>1, WriterStep, DiskStep, SessionStep, SettledStep DEF IInv
<1>2. QED
  BY <1>1, InitInv, PTL DEF Spec

\* Between transactions the log writer has the configuration of the state that
\* runs, also after a change that failed, unless moving the log back failed, too.
THEOREM SpecWriterAgrees == Spec => []WriterAgrees
<1>1. IInv => WriterAgrees
  BY DEF IInv, WriterInv, WriterAgrees
<1>2. QED
  BY <1>1, SpecInv, PTL

\* What runs is what the acknowledged changes add up to, and it is what the disk
\* and a power failure would give back, whatever changes failed before.
THEOREM SpecChangesAddUp == Spec => []ChangesAddUp
<1>1. IInv => ChangesAddUp
  BY DEF IInv, TargetInv, DiskInv, ChangesAddUp
<1>2. QED
  BY <1>1, SpecInv, PTL

\* A cookie is accepted only under the authentication boundary its owner logged
\* in under.
THEOREM SpecSessionsKeepBoundary == Spec => []SessionsKeepBoundary
<1>1. IInv => SessionsKeepBoundary
  BY DEF IInv, SessionInv, SessionsKeepBoundary, Accepted
<1>2. QED
  BY <1>1, SpecInv, PTL

\* A crash or power failure between any two steps restarts with the acknowledged
\* changes, or with the one more that was being saved.
THEOREM SpecRestartKeepsChanges == Spec => RestartKeepsChanges
<1>1. IInv /\ [Next]_vars => [RestartIsCommitted]_vars
  <2> SUFFICES ASSUME IInv, Next, runtime # None, ~drift, restarts' # restarts
               PROVE  /\ runtime' # None
                      /\ \/ runtime'.doc = agreed
                         \/ tx.stage \in {"sync", "revoke", "publish"} /\ runtime'.doc = tx.target
    BY DEF RestartIsCommitted
  <2>1. Crash \/ PowerLoss
    BY DEF Next, Edit, Close, Review, Visit, Login, Reload, Update, StageLog, Save,
           SyncDirectory, SaveFails, SyncFails, RollBack, Revoke, Publish, bounds
  <2>2. PICK file \in {disk, synced} : file \in Docs \cup {Broken} /\ Restart(file)
    BY <2>1, RestartsFrom
  <2>3. TypeOK /\ agreed \in Docs /\ tx.target \in Docs
    BY DEF IInv, TypeOK
  <2>4. \/ file = agreed
        \/ tx.stage \in {"sync", "revoke", "publish"} /\ file = tx.target
    <3>1. tx.stage \in {"free", "log", "save", "sync", "revoke", "publish"}
      BY DEF IInv, TypeOK
    <3>2. /\ tx.stage \in {"free", "log", "save"} => disk = agreed /\ synced = agreed
          /\ tx.stage = "sync" => disk = tx.target /\ synced = agreed
          /\ tx.stage \in {"revoke", "publish"} => disk = tx.target /\ synced = tx.target
      BY DEF IInv, DiskInv
    <3>3. file = disk \/ file = synced
      BY <2>2
    <3>4. CASE tx.stage \in {"free", "log", "save"}
      BY <3>2, <3>3, <3>4
    <3>5. CASE tx.stage \in {"sync", "revoke", "publish"}
      BY <3>2, <3>3, <3>5
    <3>6. QED
      BY <3>1, <3>4, <3>5
  <2>5. QED
    BY <2>2, <2>3, <2>4, RestartStarts, DocTypes
<1>2. QED
  BY <1>1, SpecInv, PTL DEF Spec, RestartKeepsChanges

-----------------------------------------------------------------------------
(* The refinement.                                                         *)

\* What is staged, by the kind of the transaction and its stage.
LEMMA StagedIs ==
  /\ tx.stage = "free" => Staged = {}
  /\ tx.change # None /\ tx.stage \in {"log", "save"} => Staged = {}
  /\ tx.change # None /\ tx.stage \in {"sync", "revoke", "publish"} =>
       Staged = {[value |-> tx.target, own |-> TRUE]}
  /\ tx.change = None /\ tx.stage \in {"log", "revoke", "publish"} =>
       Staged = {[value |-> tx.target, own |-> FALSE]}
BY DEF Staged

\* The same in the next state.
LEMMA StagedWillBe ==
  /\ tx'.stage = "free" => Staged' = {}
  /\ tx'.change # None /\ tx'.stage \in {"log", "save"} => Staged' = {}
  /\ tx'.change # None /\ tx'.stage \in {"sync", "revoke", "publish"} =>
       Staged' = {[value |-> tx'.target, own |-> TRUE]}
  /\ tx'.change = None /\ tx'.stage \in {"log", "revoke", "publish"} =>
       Staged' = {[value |-> tx'.target, own |-> FALSE]}
BY DEF Staged

\* At first the file is what runs.
LEMMA RegisterInit == Init => Register!Init
<1> SUFFICES ASSUME Init PROVE Register!Init
  OBVIOUS
<1>1. Running = disk /\ disk \in Docs /\ synced = disk
  BY DocTypes DEF Init, Running
<1>2. Staged = {}
  BY StagedIs DEF Init, Free
<1>3. QED
  BY <1>1, <1>2 DEF Register!Init

\* A change is written for what runs.
LEMMA RegisterWrite ==
  ASSUME IInv, Save
  PROVE  Register!Write
<1>1. /\ tx.stage = "save" /\ tx'.stage = "sync" /\ tx'.target = tx.target
      /\ tx'.change = tx.change /\ disk' = tx.target /\ synced' = synced /\ runtime' = runtime
  BY TransactionMoves DEF Save, IInv
<1>2. /\ tx.change \in Settings /\ tx.change # None /\ tx.target = Toggle(agreed, tx.change)
      /\ runtime # None /\ runtime.doc = agreed /\ agreed \in Docs /\ tx.target \in Docs
  BY <1>1 DEF IInv, TypeOK, TargetInv, WriterInv
<1>3. Running = agreed /\ Running' = Running
  BY <1>1, <1>2 DEF Running
<1>4. Staged = {} /\ Staged' = {[value |-> tx.target, own |-> TRUE]}
  BY <1>1, <1>2, StagedIs, StagedWillBe
<1>5. <<Running, tx.target>> \in OneSetting
  BY <1>2, <1>3 DEF OneSetting
<1>6. QED
  BY <1>1, <1>3, <1>4, <1>5 DEF Register!Write

\* What is published was staged, and a change is durable by then.
LEMMA RegisterShow ==
  ASSUME IInv, Publish
  PROVE  \E s \in Staged : Register!Show(s)
<1>1. /\ tx.stage = "publish" /\ tx' = Free /\ disk' = disk /\ synced' = synced
      /\ runtime' = [doc |-> tx.target, generation |-> generation]
  BY DEF Publish
<1>2. runtime' \in States
  BY <1>1, DocTypes DEF IInv, TypeOK
<1>3. Running' = tx.target
  BY <1>1, <1>2, DocTypes DEF Running
<1>4. Staged' = {}
  BY <1>1, StagedWillBe DEF Free
<1>5. CASE tx.change # None
  <2>1. Staged = {[value |-> tx.target, own |-> TRUE]} /\ synced = disk
    BY <1>1, <1>5, StagedIs DEF IInv, SettledInv
  <2>2. Register!Show([value |-> tx.target, own |-> TRUE])
    BY <1>1, <1>3, <1>4, <2>1 DEF Register!Show
  <2>3. QED
    BY <2>1, <2>2
<1>6. CASE tx.change = None
  <2>1. Staged = {[value |-> tx.target, own |-> FALSE]}
    BY <1>1, <1>6, StagedIs
  <2>2. Register!Show([value |-> tx.target, own |-> FALSE])
    BY <1>1, <1>3, <1>4, <2>1 DEF Register!Show
  <2>3. QED
    BY <2>1, <2>2
<1>7. QED
  BY <1>5, <1>6

\* What is found at a restart runs, unless it is broken.
LEMMA RegisterRestart ==
  ASSUME IInv, Crash \/ PowerLoss
  PROVE  \E content \in {disk, synced} : Register!Restart(content)
<1>1. PICK file \in {disk, synced} : file \in Docs \cup {Broken} /\ Restart(file)
  BY RestartsFrom
<1>2. /\ tx'.stage = "free" /\ disk' = file /\ synced' = file
      /\ file = Broken => runtime' = None
      /\ file # Broken => runtime' # None /\ runtime'.doc = file
  BY <1>1, RestartStarts DEF IInv
<1>3. Running' = IF file \in Docs THEN file ELSE None
  BY <1>1, <1>2, DocTypes DEF Running
<1>4. Staged' = {}
  BY <1>2, StagedWillBe
<1>5. Register!Restart(file)
  BY <1>1, <1>2, <1>3, <1>4 DEF Register!Restart
<1>6. QED
  BY <1>1, <1>5

\* A reload adopts the file; a change is nothing to the register before it is
\* saved.
LEMMA RegisterBegin ==
  ASSUME IInv
  PROVE  /\ Reload => Register!Adopt
         /\ \A a \in Admins, c \in Settings :
              Update(a, c) => UNCHANGED <<Running, Staged, disk, synced>>
<1>1. ASSUME Reload PROVE Register!Adopt
  <2>1. /\ disk \in Docs /\ Begin(disk, None)
        /\ UNCHANGED <<runtime, disk, synced>>
    BY <1>1 DEF Reload, Begin, IInv, TypeOK
  <2>2. /\ tx.stage = "free" /\ runtime # None
        /\ tx'.stage = "log" /\ tx'.target = disk /\ tx'.change = None
    BY <2>1, TransactionMoves DEF IInv
  <2>3. Running \in Docs /\ Running' = Running
    BY <2>1, <2>2, DocTypes DEF Running, IInv, TypeOK
  <2>4. Staged = {} /\ Staged' = {[value |-> disk, own |-> FALSE]}
    BY <2>2, StagedIs, StagedWillBe
  <2>5. QED
    BY <2>1, <2>3, <2>4 DEF Register!Adopt
<1>2. ASSUME NEW a \in Admins, NEW c \in Settings, Update(a, c)
      PROVE  UNCHANGED <<Running, Staged, disk, synced>>
  <2>1. /\ Toggle(disk, c) \in Docs /\ Begin(Toggle(disk, c), c)
        /\ UNCHANGED <<runtime, disk, synced>>
    BY <1>2, DocTypes DEF Update, Begin, IInv, TypeOK
  <2>2. tx.stage = "free" /\ tx'.stage = "log" /\ tx'.change = c /\ c # None
    BY <2>1, TransactionMoves, ConfigAssumption DEF IInv
  <2>3. QED
    BY <2>1, <2>2, StagedIs, StagedWillBe DEF Running
<1>3. QED
  BY <1>1, <1>2

\* The log is staged, or the transaction refused; a change is not in the file yet.
LEMMA RegisterStageLog ==
  ASSUME IInv, StageLog
  PROVE  Register!Refuse \/ UNCHANGED <<Running, Staged, disk, synced>>
<1>1. tx.stage = "log" /\ UNCHANGED <<runtime, disk, synced>>
  BY DEF StageLog
<1>2. Running' = Running
  BY <1>1 DEF Running
<1>3. CASE tx' = Free
  BY <1>1, <1>2, <1>3, StagedWillBe DEF Free, Register!Refuse
<1>4. CASE tx' = [tx EXCEPT !.stage = IF tx.change # None THEN "save" ELSE "revoke"]
  <2>1. /\ tx'.stage = IF tx.change # None THEN "save" ELSE "revoke"
        /\ tx'.target = tx.target /\ tx'.change = tx.change
    BY <1>4, TransactionMoves DEF IInv
  <2>2. Staged' = Staged
    BY <1>1, <2>1, StagedIs, StagedWillBe
  <2>3. QED
    BY <1>1, <1>2, <2>2
<1>5. QED
  BY <1>3, <1>4 DEF StageLog

\* Every step is one of the register, or changes nothing of it.
LEMMA RegisterStep == IInv /\ [Next]_vars => [Register!Next]_(Register!registerVars)
<1> SUFFICES ASSUME IInv, [Next]_vars
             PROVE  Register!Next \/ UNCHANGED <<Running, Staged, disk, synced>>
  BY DEF Register!registerVars
<1>1. CASE Crash \/ PowerLoss
  BY <1>1, RegisterRestart DEF Register!Next
<1>2. CASE Reload \/ StageLog \/ \E a \in Admins, c \in Settings : Update(a, c)
  BY <1>2, RegisterBegin, RegisterStageLog DEF Register!Next
<1>3. CASE Save
  BY <1>3, RegisterWrite DEF Register!Next
<1>4. CASE SyncDirectory
  <2>1. /\ tx.stage = "sync" /\ tx'.stage = "revoke" /\ tx'.target = tx.target
        /\ tx'.change = tx.change /\ tx.change # None
        /\ synced' = disk /\ UNCHANGED <<disk, runtime>>
    BY <1>4, TransactionMoves DEF SyncDirectory, IInv, TargetInv
  <2>2. Staged' = Staged /\ Running' = Running
    BY <2>1, StagedIs, StagedWillBe DEF Running
  <2>3. QED
    BY <2>1, <2>2 DEF Register!Next, Register!Sync
<1>5. CASE SaveFails \/ SyncFails
  <2>1. tx' = Free /\ UNCHANGED <<runtime, disk, synced>>
    BY <1>5 DEF SaveFails, SyncFails, RollBack
  <2>2. Staged' = {} /\ Running' = Running
    BY <2>1, StagedWillBe DEF Running, Free
  <2>3. QED
    BY <2>1, <2>2 DEF Register!Next, Register!Refuse
<1>6. CASE Revoke
  <2>1. /\ tx.stage = "revoke" /\ tx'.stage = "publish" /\ tx'.target = tx.target
        /\ tx'.change = tx.change /\ UNCHANGED <<runtime, disk, synced>>
    BY <1>6, TransactionMoves DEF Revoke, IInv
  <2>2. Staged' = Staged /\ Running' = Running
    BY <2>1, StagedIs, StagedWillBe DEF Running
  <2>3. QED
    BY <2>1, <2>2
<1>7. CASE Publish
  BY <1>7, RegisterShow DEF Register!Next
<1>8. ASSUME NEW file \in Docs \cup {Broken}, Edit(file) PROVE Register!Next
  BY <1>8 DEF Edit, Running, Staged, Register!Next, Register!Edit
<1>9. CASE UNCHANGED <<runtime, tx, disk, synced>>
  BY <1>9 DEF Running, Staged
<1>10. ASSUME NEW a, Review(a) \/ Visit(a) \/ Login(a)
       PROVE  UNCHANGED <<runtime, tx, disk, synced>>
  BY <1>10 DEF Review, Visit, Login
<1>11. CASE Close \/ UNCHANGED vars
  BY <1>9, <1>11 DEF Close, vars
<1>12. QED
  BY <1>1, <1>2, <1>3, <1>4, <1>5, <1>6, <1>7, <1>8, <1>9, <1>10, <1>11 DEF Next

\* Whatever administrators, editors and failures do, the configuration is a
\* register: each change is made of what runs, is durable before it is seen, and
\* is seen as a whole or not at all.
THEOREM SpecImplementsRegister == Spec => ImplementsRegister
  BY RegisterInit, RegisterStep, SpecInv, PTL DEF Spec, ImplementsRegister, Register!Spec
=============================================================================

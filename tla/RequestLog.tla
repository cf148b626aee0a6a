----------------------------- MODULE RequestLog -----------------------------
(***************************************************************************)
(* The request log (internal/gateway/requestlog.go): one goroutine owns    *)
(* the file, takes records from a bounded queue, rotates the file when it  *)
(* is full, and moves to another path or size when a reload asks it to.    *)
(*                                                                         *)
(* Requests never wait for it: a full queue drops the record.  The process *)
(* may crash between any two file operations and file operations may fail. *)
(* At start-up the retained records are read before the writer opens, and  *)
(* maybe rotates, the file.  A record has the size 1.                      *)
(***************************************************************************)
EXTENDS Integers, FiniteSets, SequencesExt

CONSTANTS
  LogConfigs,  \* [path, size, backups]: what configurations ask of the log
  QueueSize,   \* requestLogQueueSize
  MaxRecords,  \* bound of records offered
  MaxFaults,   \* bound of file operations that fail
  MaxRestarts, \* bound of restarts
  MaxReloads,  \* bound of reconfigurations
  Absent       \* no file, no record, no command

Paths == {c.path : c \in LogConfigs}

Depth == Max({c.backups : c \in LogConfigs})

\* Some configuration asks for the most backups.
ASSUME LogAssumption ==
  /\ \A c \in LogConfigs : c.size \in Nat \ {0} /\ c.backups \in Nat
  /\ \E c \in LogConfigs : \A d \in LogConfigs : d.backups <= c.backups
  /\ QueueSize \in Nat \ {0}
  /\ Absent \notin LogConfigs /\ Absent \notin Paths
  /\ Absent \notin Nat /\ Absent \notin Seq(Nat)

VARIABLES
  config,     \* path, maxSize and backups of the writer
  queue,      \* accepted records
  closed,     \* no record is accepted any more
  file,       \* the path the open file was opened at
  current,    \* currentBytes
  command,    \* the reconfiguration being waited for
  actor,      \* what the goroutine is doing
  disk,       \* disk[p][0]: the file; disk[p][i]: its i-th backup
  recovered,  \* the newest record found at start-up
  offered,    \* records offered so far; they are numbered
  written,    \* history: the records written, in order
  only,       \* history: the one configuration since the files were created
  lost,       \* history: records dropped, or lost to a failure or a crash
  faults, restarts, reloads

logVars == <<config, queue, closed, file, current, command, actor, disk, recovered, offered,
             written, only, lost, faults, restarts, reloads>>

bounds == <<faults, restarts, reloads>>

\* on: why the file is being opened or rotated.
Actor == [stage : {"idle", "rotate", "open", "write", "done"},
          on : {"start", "write", "apply", "restore"},
          index : 0..Depth, record : Nat \cup {Absent}, previous : LogConfigs]

Rest == [stage |-> "idle", on |-> "write", index |-> 0, record |-> Absent, previous |-> config]

\* The records of a file that may be missing.
RecordsIn(f) == IF f = Absent THEN <<>> ELSE f

\* The records retained at p, up to a backup.
Retained(p, depth) == UNION {ToSet(RecordsIn(disk[p][i])) : i \in 0..depth}

Size(f) == Len(RecordsIn(f))

NewestRecord(records) == IF records = {} THEN Absent ELSE Max(records)

-----------------------------------------------------------------------------
LogInit ==
  /\ config \in LogConfigs
  /\ queue = <<>> /\ closed = FALSE /\ file = Absent /\ current = 0 /\ command = Absent
  /\ actor = [Rest EXCEPT !.stage = "open", !.on = "start"]
  /\ disk = [p \in Paths |-> [i \in 0..Depth |-> Absent]]
  /\ recovered = Absent
  /\ offered = 0 /\ written = <<>> /\ only = config /\ lost = {}
  /\ faults = 0 /\ restarts = 0 /\ reloads = 0

Started == ~(actor.stage \in {"open", "rotate"} /\ actor.on = "start")

\* Enqueue never waits for the writer.
Enqueue ==
  /\ Started
  /\ ~closed
  /\ offered < MaxRecords
  /\ offered' = offered + 1
  /\ IF Len(queue) < QueueSize
       THEN queue' = Append(queue, offered') /\ UNCHANGED lost
       ELSE lost' = lost \cup {offered'} /\ UNCHANGED queue
  /\ UNCHANGED <<config, closed, file, current, command, actor, disk, recovered, written, only,
                 bounds>>

\* Reconfigure hands its command to the goroutine and waits for the answer.
Reconfigure(c) ==
  /\ Started
  /\ ~closed
  /\ command = Absent
  /\ c # config
  /\ reloads < MaxReloads
  /\ reloads' = reloads + 1
  /\ command' = c
  /\ only' = Absent
  /\ UNCHANGED <<config, queue, closed, file, current, actor, disk, recovered, offered,
                 written, lost, faults, restarts>>

\* Close waits for a reconfiguration, then for the goroutine to finish.
Close ==
  /\ Started
  /\ ~closed
  /\ command = Absent
  /\ closed' = TRUE
  /\ UNCHANGED <<config, queue, file, current, command, actor, disk, recovered, offered,
                 written, only, lost, bounds>>

\* What if the writer were opened before the old records were read?
LogRestartOpensFirst(c) ==
  /\ restarts < MaxRestarts
  /\ restarts' = restarts + 1
  /\ config' = c
  /\ queue' = <<>> /\ closed' = FALSE /\ file' = Absent /\ current' = 0 /\ command' = Absent
  /\ actor' = [Rest EXCEPT !.stage = "open", !.on = "start", !.previous = c]
  /\ recovered' = IF Size(disk[c.path][0]) >= c.size /\ c.backups = 0 THEN Absent
                   ELSE NewestRecord(Retained(c.path, c.backups))
  /\ lost' = lost \cup ToSet(queue) \cup ({actor.record} \ {Absent})
  /\ only' = IF c = only THEN c ELSE Absent
  /\ UNCHANGED <<disk, offered, written, faults, reloads>>

\* The process ends, in whatever way, and starts with configuration c: what is
\* retained is read, then the writer is opened.
LogRestart(c) ==
  /\ restarts < MaxRestarts
  /\ restarts' = restarts + 1
  /\ config' = c
  /\ queue' = <<>> /\ closed' = FALSE /\ file' = Absent /\ current' = 0 /\ command' = Absent
  /\ actor' = [Rest EXCEPT !.stage = "open", !.on = "start", !.previous = c]
  /\ recovered' = NewestRecord(Retained(c.path, c.backups))
  /\ lost' = lost \cup ToSet(queue) \cup ({actor.record} \ {Absent})
  /\ only' = IF c = only THEN c ELSE Absent
  /\ UNCHANGED <<disk, offered, written, faults, reloads>>

-----------------------------------------------------------------------------
(* The goroutine.                                                          *)

\* Rotate, on behalf of a.on, if the file has no room; otherwise go on as a.
RotateIf(isFull, a) ==
  IF isFull THEN actor' = [a EXCEPT !.stage = "rotate", !.index = config.backups] /\ file' = Absent
            ELSE actor' = a /\ UNCHANGED file

Take ==
  /\ actor.stage = "idle"
  /\ queue # <<>>
  /\ queue' = Tail(queue)
  /\ RotateIf(current > 0 /\ current + 1 > config.size,
              [actor EXCEPT !.stage = "write", !.on = "write", !.record = Head(queue)])
  /\ UNCHANGED <<config, closed, current, command, disk, recovered, offered, written, only,
                 lost, bounds>>

\* The file is closed and the new configuration taken on trial.
Apply ==
  /\ actor.stage = "idle"
  /\ command # Absent
  /\ config' = command
  /\ file' = Absent
  /\ actor' = [actor EXCEPT !.stage = "open", !.on = "apply", !.previous = config]
  /\ UNCHANGED <<queue, closed, current, command, disk, recovered, offered, written, only,
                 lost, bounds>>

\* What if backups were moved starting with the file itself?
ShiftAscending ==
  LET i == config.backups + 1 - actor.index
      p == config.path
  IN  /\ actor.stage = "rotate"
      /\ actor.index > 0
      /\ disk' = IF disk[p][i - 1] = Absent THEN disk
                 ELSE [disk EXCEPT ![p][i] = disk[p][i - 1], ![p][i - 1] = Absent]
      /\ actor' = [actor EXCEPT !.index = @ - 1]
      /\ UNCHANGED <<config, queue, closed, file, current, command, recovered, offered, written,
                     only, lost, bounds>>

\* One backup is moved up, the oldest first; a missing one is skipped.
Shift ==
  LET i == actor.index
      p == config.path
  IN  /\ actor.stage = "rotate"
      /\ i > 0
      /\ disk' = IF disk[p][i - 1] = Absent THEN disk
                 ELSE [disk EXCEPT ![p][i] = disk[p][i - 1], ![p][i - 1] = Absent]
      /\ actor' = [actor EXCEPT !.index = @ - 1]
      /\ UNCHANGED <<config, queue, closed, file, current, command, recovered, offered, written,
                     only, lost, bounds>>

\* What if the size were not reset with the new file?
TruncateKeepingCount ==
  /\ actor.stage = "rotate"
  /\ actor.index = 0
  /\ disk' = [disk EXCEPT ![config.path][0] = <<>>]
  /\ file' = config.path
  /\ actor' = [actor EXCEPT !.stage = IF actor.on = "write" THEN "write" ELSE "open"]
  /\ UNCHANGED <<config, queue, closed, current, command, recovered, offered, written, only, lost,
                 bounds>>

\* The file is created, or truncated when no backup is kept.
Truncate ==
  /\ actor.stage = "rotate"
  /\ actor.index = 0
  /\ disk' = [disk EXCEPT ![config.path][0] = <<>>]
  /\ file' = config.path
  /\ current' = 0
  /\ actor' = [actor EXCEPT !.stage = IF actor.on = "write" THEN "write" ELSE "open"]
  /\ UNCHANGED <<config, queue, closed, command, recovered, offered, written, only,
                 lost, bounds>>

Write ==
  /\ actor.stage = "write"
  /\ file # Absent
  /\ disk' = [disk EXCEPT ![file][0] = Append(@, actor.record)]
  /\ current' = current + 1
  /\ written' = Append(written, actor.record)
  /\ actor' = Rest
  /\ UNCHANGED <<config, queue, closed, file, command, recovered, offered, only, lost, bounds>>

\* Opening rotates a full file first.
OpenFull ==
  /\ actor.stage = "open"
  /\ Size(disk[config.path][0]) >= config.size
  /\ RotateIf(TRUE, actor)
  /\ UNCHANGED <<config, queue, closed, current, command, disk, recovered, offered, written,
                 only, lost, bounds>>

\* The writer appends to the file; its command, if there was one, is answered.
Open ==
  /\ actor.stage = "open"
  /\ Size(disk[config.path][0]) < config.size
  /\ disk' = [disk EXCEPT ![config.path][0] = IF @ = Absent THEN <<>> ELSE @]
  /\ file' = config.path
  /\ current' = Size(disk[config.path][0])
  /\ command' = Absent
  /\ actor' = Rest
  /\ UNCHANGED <<config, queue, closed, recovered, offered, written, only,
                 lost, bounds>>

\* A file operation fails.  A record being written is lost.  A reconfiguration
\* reopens the previous file; when that fails, too, there is none.  A process
\* that cannot open its log does not start.
Fail ==
  /\ faults < MaxFaults
  /\ faults' = faults + 1
  /\ actor.stage \in {"rotate", "open", "write"} /\ actor.on # "start"
  /\ IF actor.on = "apply"
       THEN /\ config' = actor.previous
            /\ actor' = [actor EXCEPT !.stage = "open", !.on = "restore"]
            /\ UNCHANGED command
       ELSE /\ command' = IF actor.on = "write" THEN command ELSE Absent
            /\ actor' = Rest
            /\ UNCHANGED config
  /\ lost' = lost \cup ({actor.record} \ {Absent})
  /\ UNCHANGED <<queue, closed, file, current, disk, recovered, offered, written, only, restarts,
                 reloads>>

\* A writer without a file loses what it is given.
WriteNowhere ==
  /\ actor.stage = "write"
  /\ file = Absent
  /\ lost' = lost \cup {actor.record}
  /\ actor' = Rest
  /\ UNCHANGED <<config, queue, closed, file, current, command, disk, recovered, offered,
                 written, only, bounds>>

\* What if the goroutine waited for its command before it looked at the queue?
FinishAfterCommand ==
  /\ actor.stage = "idle"
  /\ closed
  /\ command # Absent
  /\ queue = <<>>
  /\ file' = Absent
  /\ actor' = [actor EXCEPT !.stage = "done"]
  /\ UNCHANGED <<config, queue, closed, current, command, disk, recovered, offered, written, only,
                 lost, bounds>>

\* The queue is closed and empty: Close returns.
Finish ==
  /\ actor.stage = "idle"
  /\ closed
  /\ queue = <<>>
  /\ file' = Absent
  /\ actor' = [actor EXCEPT !.stage = "done"]
  /\ UNCHANGED <<config, queue, closed, current, command, disk, recovered, offered, written,
                 only, lost, bounds>>

Run == Take \/ Apply \/ Shift \/ Truncate \/ Write \/ OpenFull \/ Open \/ WriteNowhere \/ Finish

LogNext ==
  \/ Enqueue \/ Close \/ Run \/ Fail
  \/ \E c \in LogConfigs : Reconfigure(c) \/ LogRestart(c)

LogSpec == LogInit /\ [][LogNext]_logVars

\* The goroutine runs.
FairLogSpec == LogSpec /\ WF_logVars(Run)

-----------------------------------------------------------------------------
LogTypeOK ==
  /\ config \in LogConfigs /\ only \in LogConfigs \cup {Absent}
  /\ queue \in Seq(Nat) /\ Len(queue) <= QueueSize
  /\ closed \in BOOLEAN /\ file \in {Absent} \cup Paths
  /\ current \in Nat
  /\ command \in LogConfigs \cup {Absent}
  /\ actor \in Actor
  /\ \A p \in Paths : \A i \in 0..Depth : disk[p][i] = Absent \/ disk[p][i] \in Seq(Nat)
  /\ recovered \in Nat \cup {Absent}
  /\ offered \in Nat /\ written \in Seq(Nat) /\ lost \in SUBSET Nat

\* Whatever is reconfigured, fails or crashes, records are written in the order
\* they were accepted in, and the files of a path, oldest backup first, hold
\* them in that order and none of them twice.
RecordsInOrder ==
  /\ \A k, l \in DOMAIN written : k < l => written[k] < written[l]
  /\ \A p \in Paths : \A i, j \in 0..Depth :
       LET older == RecordsIn(disk[p][i])
           newer == RecordsIn(disk[p][j]) IN
       \A k \in DOMAIN older, l \in DOMAIN newer :
         i > j \/ (i = j /\ k < l) => older[k] < newer[l]

\* While the configuration stays the same, whatever crashes: what is retained is
\* the end of what was written, with nothing missing in between, and at least as
\* much as the backups hold, but for one backup for every crash.  (A rotation
\* that a crash cuts short is started over and may drop one more backup.  One
\* that fails is started over by the next record and moves the files once more.)
SuffixRetained ==
  only # Absent /\ faults = 0 =>
    LET kept == Retained(only.path, only.backups) IN
    /\ kept \subseteq ToSet(written)
    /\ \A r \in kept, s \in ToSet(written) : s > r => s \in kept
    /\ \/ Cardinality(kept) >= (only.backups - restarts) * only.size
       \/ kept = ToSet(written)

\* The size that decides about the next rotation is that of the open file, and
\* no file outgrows its limit; the open file is that of the configuration,
\* unless moving to a new path and coming back have both failed.
SizeKnown ==
  actor.stage \in {"idle", "write"} /\ file # Absent =>
    /\ current = Size(disk[file][0])
    /\ current + (IF actor.stage = "write" THEN 1 ELSE 0) <= config.size
    /\ file # config.path => faults > 1

\* A record that was accepted is in the queue, in the writer's hand, written, or
\* known to be lost; and when Close has returned it is written or lost.
NothingVanishes ==
  \A r \in 1..offered :
    \/ r \in ToSet(written) \cup lost
    \/ actor.stage # "done" /\ r \in ToSet(queue) \cup {actor.record}

\* Whatever is reconfigured, fails or crashes, the writer's account of its files
\* and records is right.
LogConsistent == LogTypeOK /\ RecordsInOrder /\ SizeKnown /\ NothingVanishes

\* gateway.go:82: with no backups the only evidence is in the file that opening
\* would rotate away: a restart still finds the newest record, whatever failed and
\* wherever the process ended, unless no backup is kept and a rotation has just
\* emptied the file.
RestartRemembers ==
  [][only' # Absent /\ restarts' # restarts
       /\ (only'.backups > 0 \/ disk[only'.path][0] # <<>>)
       => recovered' = NewestRecord(ToSet(written))]_logVars

\* Close returns, whatever is queued, being reconfigured or failing.
CloseReturns == closed ~> (actor.stage = "done" \/ ~closed)
=============================================================================

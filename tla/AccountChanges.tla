--------------------------- MODULE AccountChanges ---------------------------
(***************************************************************************)
(* Credentials, catalogs and capability checks: the jobs that change the   *)
(* OAuth adapter's credential files and the configuration together         *)
(* (reconcileOAuthPoolAccount, ensureOAuthPoolAccount, ImportAccounts),    *)
(* the background poll of model catalogs (syncDiscoveredCapabilities) and  *)
(* the verification of a capability (serveCapabilityVerification).         *)
(*                                                                         *)
(* The adapter is another process with files of its own.  A call to it is  *)
(* answered, or fails before it has an effect, or has its effect while the *)
(* answer is lost; an effect is over before the next call.  Jobs keep      *)
(* reloadMu from their first call to the end of their compensation; polls  *)
(* and checks read without it and take it only to commit.  Prefixes,       *)
(* priorities and masked display of credentials are left out.              *)
(***************************************************************************)
EXTENDS SourceSettings

CONSTANTS
  Files,          \* names of credential files
  FileProvider,   \* provider of each file
  OwnCatalog,     \* catalog of each account that is not a pool
  ImportFiles,    \* credential files of an import, in order
  FirstSettings,  \* configurations to start from
  FirstFiles,     \* contents of the adapter to start from
  Keys,           \* API keys of accounts
  MaxTurns        \* bound of jobs, polls, checks, edits, adapter events and faults together

VARIABLES
  files,      \* adapter: [content, disabled, usable] of each file, or Absent
  disk,       \* the configuration file
  published,  \* the published configuration
  job,        \* the job holding reloadMu
  poll,       \* the poll of catalogs
  check,      \* the capability check under way
  proven,     \* history: [account, key, upstream, credential] that passed
  left        \* what is left of the bound

\* What a fact about a model is about: a credential, or all of them.
Scopes == Files \cup {Absent}

\* The connection evidence is bound to, or Absent for all of them.
Connections == Keys \cup {Absent}

Facts ==
  [credential : Scopes, key : Connections, status : {"verified", "unknown", "unsupported"}]

Evidences ==
  [status : {"authored", "declared", "unknown", "verified", "unsupported"},
   source : {"catalog", "operator"}, key : Connections, at : Int]

Declarations ==
  [model : Profiles, upstream : Models, facts : SUBSET Facts, evidence : Evidences]

Sources ==
  [enabled : BOOLEAN, key : Keys, models : SUBSET Models, caps : Seq(Declarations)]

Settings(aliases) ==
  [accounts : [Accounts -> Sources \cup {Absent}],
   routes : [aliases -> [model : Profiles, targets : SUBSET Accounts]]]

\* What the adapter knows of a credential file.
FileStates ==
  [content : {"stored", "renewed", "login", "imported"}, disabled : BOOLEAN, usable : BOOLEAN]

ASSUME ChangesAssumption ==
  /\ ImportFiles \in Seq(Files) /\ ImportFiles # <<>>
  /\ FirstFiles \subseteq [Files -> FileStates \cup {Absent}]
  /\ \A cfg \in FirstSettings : cfg \in Settings(DOMAIN cfg.routes) /\ Normalized(cfg) = cfg
  /\ Imported \in [account : Accounts, models : SUBSET Models, caps : Seq(Declarations)]
  /\ NewKey \in Keys /\ MaxTurns \in Nat
  /\ Absent \notin FileStates /\ Absent \notin Sources
  /\ Absent \notin {"deleted", "disabled", "enabled", "done", "restored", "incomplete", "failed"}

changesVars == <<files, disk, published, job, poll, check, proven, left>>

File(content) == [content |-> content, disabled |-> FALSE, usable |-> TRUE]

\* A credential that is neither disabled nor in need of a new authorization.
InService(f) == files[f] # Absent /\ ~files[f].disabled /\ files[f].usable

Available == {FileProvider[f] : f \in {g \in Files : InService(g)}}

\* What the adapter may announce.
Servable == LET available == Available IN {m \in Models : ProviderOf[m] \in available}

Job(kind, stage, doc) ==
  [kind |-> kind, stage |-> stage,
   doc |-> doc,            \* candidate
   was |-> published,      \* originalConfig
   before |-> files,       \* history: files when the job began
   stored |-> files,       \* snapshots for the compensation
   order |-> <<>>,         \* files to compensate, the last one first
   todo |-> <<>>,          \* credentials still to import
   wanted |-> Absent,      \* the change of a credential
   providers |-> {},       \* providers of imported credentials
   failed |-> FALSE,       \* the compensation is incomplete
   touched |-> {},         \* history: files the adapter changed by itself
   verdict |-> Absent]

Free == [kind |-> "free", stage |-> "free", verdict |-> Absent]

Resting == [stage |-> "idle"]

Unlocked == job.stage = "free"

\* updateConfigAtRevisionLocked refuses while the file was edited by hand.
MayChange == Unlocked /\ disk = published

Spend == left > 0 /\ left' = left - 1

\* The outcome of a call: answered, lost (after its effect) or failed.
Outcomes == {"answered", "lost", "failed"}

Call(outcome) == IF outcome = "answered" THEN UNCHANGED left ELSE Spend

Stored(f, outcome, value) == files' = IF outcome = "failed" THEN files
                                      ELSE [files EXCEPT ![f] = value]

Declares(cfg, a) == IF Configured(cfg, a) THEN cfg.accounts[a].models ELSE {}

\* Publishing anything but a catalog withdraws, from what a poll that has read
\* its catalogs had seen, the models that are not declared any more.
Publish(doc) ==
  /\ published' = doc
  /\ poll' = IF poll.stage # "commit" THEN poll
             ELSE [poll EXCEPT !.withdrawn = [a \in Pools |->
                     (@[a] \cup (Declares(published, a) \cap Declares(poll.source, a)))
                       \ Declares(doc, a)]]

\* What an account says has been verified.
Claims(a, caps) ==
  UNION {{[account |-> a, key |-> f.key, upstream |-> caps[i].upstream,
           credential |-> f.credential] : f \in {g \in caps[i].facts : g.status = "verified"}} :
         i \in DOMAIN caps}

\* What some settings say has been verified, of every account.
ClaimsOf(cfg) ==
  UNION {Claims(a, cfg.accounts[a].caps) : a \in {b \in Accounts : Configured(cfg, b)}}

\* What was verified earlier, or elsewhere by whoever wrote the import file.
ChangesInit ==
  /\ files \in FirstFiles
  /\ disk \in FirstSettings /\ published = disk
  /\ job = Free /\ poll = Resting /\ check = Resting
  /\ proven = ClaimsOf(published) \cup Claims(Imported.account, Imported.caps)
  /\ left = MaxTurns

-----------------------------------------------------------------------------
(* The adapter by itself.                                                  *)

\* A token is refreshed, a grant turns out to be revoked, or a login that was
\* started from the console stores its credential.
Adapter(f) ==
  /\ Spend
  /\ \/ /\ files[f] # Absent
        /\ files' = [files EXCEPT ![f].content = "renewed"]
     \/ /\ files[f] # Absent
        /\ files' = [files EXCEPT ![f].usable = FALSE]
     \/ /\ files[f] = Absent
        /\ files' = [files EXCEPT ![f] = File("login")]
  /\ files' # files
  /\ job' = IF Unlocked THEN job ELSE [job EXCEPT !.touched = @ \cup {f}]
  /\ UNCHANGED <<disk, published, poll, check, proven>>

-----------------------------------------------------------------------------
(* Compensation, shared by changes and imports.                            *)

Ended(j, verdict) == [j EXCEPT !.stage = "ended", !.verdict = verdict]

\* The next file to restore, or what follows the last one.
Undo(j) ==
  IF j.order # <<>>
    THEN [j EXCEPT !.stage = IF j.wanted \in {"enabled", "disabled"} THEN "status" ELSE "restore"]
  ELSE IF j.kind = "change" THEN [j EXCEPT !.stage = "config"]
  ELSE Ended(j, IF j.failed THEN "incomplete" ELSE "restored")

\* A login has nothing to take back.
Abort(j) == IF j.kind = "login" THEN Ended(j, "failed") ELSE Undo(j)

Restored(j) == Undo([j EXCEPT !.order = Front(@)])

NotRestored(j) == Undo([j EXCEPT !.order = Front(@), !.failed = TRUE])

\* A file that was there is uploaded again, which activates it; one that was
\* not is deleted.
Restore(outcome) ==
  LET f == Last(job.order) IN
  /\ job.stage = "restore"
  /\ Call(outcome)
  /\ Stored(f, outcome, IF job.stored[f] = Absent THEN Absent ELSE File(job.stored[f].content))
  /\ job' = IF outcome # "answered" THEN NotRestored(job)
            ELSE IF job.stored[f] = Absent THEN Restored(job)
            ELSE [job EXCEPT !.stage = "status"]
  /\ UNCHANGED <<disk, published, poll, check, proven>>

\* The disabled flag is set to what it was.
RestoreStatus(outcome) ==
  LET f == Last(job.order) IN
  /\ job.stage = "status"
  /\ files[f] # Absent
  /\ Call(outcome)
  /\ Stored(f, outcome, [files[f] EXCEPT !.disabled = job.stored[f].disabled])
  /\ job' = IF outcome = "answered" THEN [job EXCEPT !.stage = "verify"] ELSE NotRestored(job)
  /\ UNCHANGED <<disk, published, poll, check, proven>>

\* The listing confirms the flag.
Verify(outcome) ==
  LET f == Last(job.order) IN
  /\ job.stage = "verify"
  /\ Call(outcome)
  /\ job' = IF /\ outcome = "answered" /\ files[f] # Absent
               /\ files[f].disabled = job.stored[f].disabled
            THEN Restored(job) ELSE NotRestored(job)
  /\ UNCHANGED <<files, disk, published, poll, check, proven>>

\* A save that failed may have replaced the file: a change of a credential
\* writes the published configuration back.
RestoreConfig(outcome) ==
  /\ job.stage = "config"
  /\ disk = job.was => outcome = "answered"
  /\ Call(outcome)
  /\ disk' = IF outcome = "failed" THEN disk ELSE job.was
  /\ job' = Ended(job, IF job.failed \/ outcome # "answered" THEN "incomplete" ELSE "restored")
  /\ UNCHANGED <<files, published, poll, check, proven>>

\* The deadline of 30 seconds passes, or the administrator's client leaves.
Expire ==
  /\ job.stage \in {"catalog", "ensure"}
  /\ Spend
  /\ job' = Abort(job)
  /\ UNCHANGED <<files, disk, published, poll, check, proven>>

\* buildState and commitStateLocked.  An outcome that is lost has replaced the
\* file.
Save(outcome) ==
  LET doc == Normalized(job.doc)
      saved == outcome = "answered" /\ Valid(doc) IN
  /\ job.stage = "save"
  /\ Call(outcome)
  /\ disk' = IF saved \/ (outcome = "lost" /\ Valid(doc)) THEN doc ELSE disk
  /\ IF saved THEN Publish(doc) ELSE UNCHANGED <<published, poll>>
  /\ job' = IF saved THEN Ended(job, "done") ELSE Abort(job)
  /\ UNCHANGED <<files, check, proven>>

Return ==
  /\ job.stage = "ended"
  /\ job' = Free
  /\ UNCHANGED <<files, disk, published, poll, check, proven, left>>

\* Save what a job made of the configuration, if it made anything of it.
Settled(j) == IF j.doc = j.was THEN Ended(j, "done") ELSE [j EXCEPT !.stage = "save"]

-----------------------------------------------------------------------------
(* A credential is deleted, disabled or enabled: reconcileOAuthPoolAccount. *)

\* prepare: the file and its status are read.  Without them nothing changes.
Change(f, wanted) ==
  /\ MayChange
  /\ files[f] # Absent
  /\ Spend
  /\ job' = [Job("change", "apply", published) EXCEPT !.wanted = wanted, !.order = <<f>>]
  /\ UNCHANGED <<files, disk, published, poll, check, proven>>

\* What if an error meant that the adapter had done nothing?
ApplyTrusting(outcome) ==
  LET f == Head(job.order)
      value == IF job.wanted = "deleted" THEN Absent
               ELSE [files[f] EXCEPT !.disabled = job.wanted = "disabled"] IN
  /\ job.stage = "apply"
  /\ Call(outcome)
  /\ Stored(f, outcome, value)
  /\ job' = IF outcome = "answered" THEN [job EXCEPT !.stage = "catalog"]
            ELSE Ended(job, "restored")
  /\ UNCHANGED <<disk, published, poll, check, proven>>

Apply(outcome) ==
  LET f == Head(job.order)
      value == IF job.wanted = "deleted" THEN Absent
               ELSE [files[f] EXCEPT !.disabled = job.wanted = "disabled"] IN
  /\ job.stage = "apply"
  /\ Call(outcome)
  /\ Stored(f, outcome, value)
  /\ job' = IF outcome = "answered" THEN [job EXCEPT !.stage = "catalog"] ELSE Abort(job)
  /\ UNCHANGED <<disk, published, poll, check, proven>>

\* The listing and the models of the adapter are read again.  A failure of
\* either counts as an empty catalog.
ReadCatalog(available, models) ==
  /\ job.stage = "catalog"
  /\ available \in {{}, Available}
  /\ models \subseteq (IF available = {} THEN {} ELSE Servable)
  /\ job' = Settled([job EXCEPT !.doc = Reconciliation(published, available, models)])
  /\ UNCHANGED <<files, disk, published, poll, check, proven, left>>

-----------------------------------------------------------------------------
(* After a login (serveOAuthStatus), and an import (ImportAccounts).        *)

\* ensureOAuthPoolAccount: the models of the provider are announced.
Login(provider, models) ==
  /\ MayChange
  /\ \E f \in Files : files[f] # Absent /\ FileProvider[f] = provider
  /\ models \subseteq Servable
  /\ Ensured(published, provider, models) \notin {Absent, published}
  /\ Spend
  /\ job' = Job("login", "save", Ensured(published, provider, models))
  /\ UNCHANGED <<files, disk, published, poll, check, proven>>

\* The plain account of the file first, then its credentials.
Import(upsert) ==
  /\ MayChange
  /\ Spend
  /\ job' = [Job("import", "inspect", WithImport(published, upsert)) EXCEPT !.todo = ImportFiles]
  /\ UNCHANGED <<files, disk, published, poll, check, proven>>

\* The credential is dealt with: go on with the next one.
NextItem(j, stage) ==
  LET next == [j EXCEPT !.todo = Tail(@)] IN
  IF next.todo # <<>> THEN [next EXCEPT !.stage = stage]
  ELSE IF next.providers # {} THEN [next EXCEPT !.stage = "ensure"]
  ELSE Settled(next)

\* The adapter's files are listed once for the whole import.
Inspect(outcome) ==
  /\ job.stage = "inspect"
  /\ Call(outcome)
  /\ job' = IF outcome = "answered" THEN [job EXCEPT !.stage = "snapshot", !.stored = files]
            ELSE NextItem(job, "inspect")
  /\ UNCHANGED <<files, disk, published, poll, check, proven>>

\* A file that was listed is read before it is replaced; one that the import
\* names again is not read again.
Snapshot(outcome) ==
  LET f == Head(job.todo)
      captured == f \in ToSet(job.order) IN
  /\ job.stage = "snapshot"
  /\ captured \/ job.stored[f] = Absent => outcome = "answered"
  /\ Call(outcome)
  /\ job' = IF captured THEN [job EXCEPT !.stage = "upload"]
            ELSE IF outcome = "answered"
              THEN [job EXCEPT !.stage = "upload", !.order = Append(@, f),
                      !.stored[f] = IF @ = Absent THEN Absent
                                    ELSE [files[f] EXCEPT !.disabled = job.stored[f].disabled]]
            ELSE IF job.order = <<>> THEN NextItem(job, "snapshot")
            ELSE Abort(job)
  /\ UNCHANGED <<disk, files, published, poll, check, proven>>

Upload(outcome) ==
  LET f == Head(job.todo) IN
  /\ job.stage = "upload"
  /\ Call(outcome)
  /\ Stored(f, outcome, File("imported"))
  /\ job' = IF outcome = "answered"
            THEN NextItem([job EXCEPT !.providers = @ \cup {FileProvider[f]}], "snapshot")
            ELSE Abort(job)
  /\ UNCHANGED <<disk, published, poll, check, proven>>

\* ensureOAuthPoolConfig for each provider in turn; its errors are reported and
\* change nothing.
Ensure(models) ==
  LET provider == Head(SelectSeq(ProviderOrder, LAMBDA p : p \in job.providers))
      doc == Ensured(job.doc, provider, models)
      next == [job EXCEPT !.providers = @ \ {provider}, !.doc = IF doc = Absent THEN @ ELSE doc] IN
  /\ job.stage = "ensure"
  /\ models \subseteq Servable
  /\ job' = IF next.providers = {} THEN Settled(next) ELSE next
  /\ UNCHANGED <<files, disk, published, poll, check, proven, left>>

-----------------------------------------------------------------------------
(* The console and the signal handler.                                     *)

Edited(edit) ==
  LET doc == Normalized(edit) IN
  /\ MayChange
  /\ Spend
  /\ doc # published /\ Valid(doc)
  /\ disk' = doc
  /\ Publish(doc)
  /\ UNCHANGED <<files, job, check, proven>>

\* An account is switched on, whatever it declares, or off.
Switch(a) ==
  /\ Configured(published, a)
  /\ Edited([published EXCEPT !.accounts[a].enabled = ~@])

RotateKey(a, key) ==
  /\ Configured(published, a)
  /\ Edited([published EXCEPT !.accounts[a].key = key])

Positions(a) == IF Configured(published, a) THEN DOMAIN published.accounts[a].caps ELSE {}

\* What a declaration may be bound to: the normalization forgets any other
\* connection at once.
Bindings(a) == {Absent, published.accounts[a].key}

\* A whole capability is excluded.  Who gave its evidence stays as it is.
ExcludeModel(a, i, key) ==
  /\ i \in Positions(a)
  /\ key \in Bindings(a)
  /\ Edited([published EXCEPT !.accounts[a].caps[i].evidence =
       [@ EXCEPT !.status = "unsupported", !.key = key]])

\* An exclusion is declared for a capability, or for a credential that serves
\* it, in place of what is known of it.
Exclude(a, i, credential, key) ==
  /\ i \in Positions(a)
  /\ key \in Bindings(a)
  /\ credential # Absent =>
       a \in Pools /\ FileProvider[credential] = ProviderOf[published.accounts[a].caps[i].upstream]
  /\ Edited([published EXCEPT !.accounts[a].caps[i].facts =
       {f \in @ : f.credential # credential}
         \cup {[credential |-> credential, key |-> key, status |-> "unsupported"]}])

Reload ==
  /\ Unlocked
  /\ disk # published
  /\ Publish(disk)
  /\ UNCHANGED <<files, disk, job, check, proven, left>>

-----------------------------------------------------------------------------
(* The poll of catalogs: syncDiscoveredCapabilities.                        *)

\* The published state is pinned.
Poll ==
  /\ poll.stage = "idle"
  /\ Spend
  /\ poll' = [stage |-> "read", source |-> published, at |-> left]
  /\ UNCHANGED <<files, disk, published, job, check, proven>>

\* Catalogs of enabled sources; one that is empty or fails is left out.
CatalogOf(a) == IF a \in Pools THEN SUBSET InScope(a, Servable) ELSE {OwnCatalog[a], {}}

Enabled(cfg) == {a \in Accounts : Configured(cfg, a) /\ cfg.accounts[a].enabled}

Read(catalogs) ==
  /\ poll.stage = "read"
  /\ poll' = IF DOMAIN catalogs = {} THEN Resting
             ELSE [stage |-> "commit", source |-> poll.source, at |-> poll.at,
                   catalogs |-> catalogs, withdrawn |-> [a \in Pools |-> {}]]
  /\ UNCHANGED <<files, disk, published, job, check, proven, left>>

ReadAny ==
  /\ poll.stage = "read"
  /\ \E catalogs \in [Enabled(poll.source) -> SUBSET Models] :
       /\ \A a \in DOMAIN catalogs : catalogs[a] \in CatalogOf(a)
       /\ Read(Restrict(catalogs, {a \in DOMAIN catalogs : catalogs[a] # {}}))

\* What if a catalog were for any source that is still enabled?
SourceMatchesEnabled(a) == Configured(published, a) /\ published.accounts[a].enabled

\* discoverySourceMatches: the account is enabled and as it was when its
\* catalog was asked for.
SourceMatches(a) ==
  /\ Configured(published, a)
  /\ published.accounts[a].enabled
  /\ published.accounts[a] = poll.source.accounts[a]

\* The commit of a poll or a check.
Commit(doc, outcome) ==
  /\ Call(outcome)
  /\ disk' = IF outcome = "failed" THEN disk ELSE doc
  /\ published' = IF outcome = "answered" THEN doc ELSE published

PollCommit(outcome) ==
  LET catalogs == Restrict(poll.catalogs, {a \in DOMAIN poll.catalogs : SourceMatches(a)})
      doc == Normalized(Discovered(published, catalogs, poll.at)) IN
  /\ poll.stage = "commit"
  /\ Unlocked
  /\ poll' = Resting
  /\ IF disk = published /\ Valid(doc) /\ doc # published
       THEN Commit(doc, outcome)
       ELSE outcome = "answered" /\ UNCHANGED <<disk, published, left>>
  /\ UNCHANGED <<files, job, check, proven>>

-----------------------------------------------------------------------------
(* A capability check: serveCapabilityVerification.                        *)

\* requestUpstreamModel: a capability, or the name itself.
UpstreamOf(account, name) ==
  IF Resolved(account, name) # Absent THEN Resolved(account, name)
  ELSE IF name.base \in Models THEN name.base ELSE Absent

\* The source is pinned with the model that the name stands for.
Check(a, name) ==
  LET m == UpstreamOf(published.accounts[a], name) IN
  /\ check.stage = "idle"
  /\ a \in Enabled(published)
  /\ m # Absent /\ SupportsTarget(published.accounts[a], m)
  /\ Spend
  /\ check' = [stage |-> "asked", source |-> published.accounts[a], account |-> a,
               name |-> name, upstream |-> m]
  /\ UNCHANGED <<files, disk, published, job, poll, proven>>

\* runCapabilityProbe: the credential that the adapter attests for both calls
\* of the exchange, or none for a direct source.  Without one, and when the
\* identity changes in between, nothing is established.
Probed(credential, passed) ==
  /\ check.stage = "asked"
  /\ IF check.account \in Pools
       THEN credential # Absent /\ InService(credential)
            /\ FileProvider[credential] = ProviderOf[check.upstream]
       ELSE credential = Absent
  /\ check' = [stage |-> "commit", source |-> check.source, account |-> check.account,
               name |-> check.name, upstream |-> check.upstream, credential |-> credential,
               passed |-> passed]
  /\ proven' = IF ~passed THEN proven
               ELSE proven \cup {[account |-> check.account, key |-> check.source.key,
                                  upstream |-> check.upstream, credential |-> credential]}
  /\ UNCHANGED <<files, disk, published, job, poll, left>>

Abandon ==
  /\ check.stage = "asked"
  /\ check' = Resting
  /\ UNCHANGED <<files, disk, published, job, poll, proven, left>>

\* verificationSourceMatches: the same connection, the name still stands for
\* the model, and no restriction was added meanwhile.
StillHolds ==
  LET now == published.accounts[check.account]
      Allows(account) == Allowed(account, check.upstream, check.credential) IN
  /\ check.account \in Enabled(published)
  /\ now.key = check.source.key
  /\ SupportsTarget(now, check.upstream)
  /\ UpstreamOf(now, check.name) = check.upstream
  /\ Allows(check.source) => Allows(now)

CheckCommit(outcome) ==
  LET doc == Normalized([published EXCEPT !.accounts[check.account] =
               Recorded(@, check.name, check.upstream, check.credential, check.passed)]) IN
  /\ check.stage = "commit"
  /\ Unlocked
  /\ check' = Resting
  /\ IF disk = published /\ StillHolds /\ Valid(doc)
       THEN Commit(doc, outcome)
       ELSE outcome = "answered" /\ UNCHANGED <<disk, published, left>>
  /\ UNCHANGED <<files, job, poll, proven>>


-----------------------------------------------------------------------------
Names == {Standard(base) : base \in Models \cup {LogicalOf[m] : m \in Models}}

Administration ==
  /\ Unlocked
  /\ \/ \E f \in Files, wanted \in {"deleted", "disabled", "enabled"} : Change(f, wanted)
     \/ \E p \in Providers, models \in SUBSET Servable : Login(p, models)
     \/ \E upsert \in BOOLEAN : Import(upsert)
     \/ \E a \in Accounts : Switch(a)
     \/ \E a \in Accounts, key \in Keys : RotateKey(a, key)
     \/ \E a \in Accounts, key \in Connections : \E i \in Positions(a) :
          \/ ExcludeModel(a, i, key)
          \/ \E credential \in Scopes : Exclude(a, i, credential, key)
     \/ Reload

JobStep ==
  /\ ~Unlocked
  /\ \/ \E outcome \in Outcomes :
          \/ Apply(outcome) \/ Save(outcome) \/ Inspect(outcome)
          \/ Snapshot(outcome) \/ Upload(outcome) \/ Restore(outcome)
          \/ RestoreStatus(outcome) \/ Verify(outcome) \/ RestoreConfig(outcome)
     \/ \E available \in SUBSET Providers, models \in SUBSET Models : ReadCatalog(available, models)
     \/ \E models \in SUBSET Models : Ensure(models)
     \/ Expire \/ Return

PollStep == Poll \/ ReadAny \/ \E outcome \in Outcomes : PollCommit(outcome)

CheckStep ==
  \/ \E a \in Accounts, name \in Names : Check(a, name)
  \/ \E credential \in Scopes, passed \in BOOLEAN : Probed(credential, passed)
  \/ Abandon
  \/ \E outcome \in Outcomes : CheckCommit(outcome)

ChangesNext == (\E f \in Files : Adapter(f)) \/ Administration \/ JobStep \/ PollStep \/ CheckStep

ChangesSpec == ChangesInit /\ [][ChangesNext]_changesVars

-----------------------------------------------------------------------------
(* What must hold.                                                         *)

Same(f, value) ==
  IF value = Absent THEN files[f] = Absent
  ELSE files[f] # Absent /\ files[f].content = value.content /\ files[f].disabled = value.disabled

\* A job that reports success did all of what it was asked for, and its
\* configuration is the published and the saved one.
DoneIsDone ==
  job.verdict = "done" =>
    /\ disk = published
    /\ \A f \in Files \ job.touched :
         IF job.kind = "change" /\ f = Head(job.order)
           THEN IF job.wanted = "deleted" THEN files[f] = Absent
                ELSE files[f].disabled = (job.wanted = "disabled")
         ELSE IF f \in ToSet(job.order) THEN Same(f, File("imported"))
         ELSE Same(f, job.before[f])

\* A job that reports that the prior state was restored left no trace of it:
\* every credential the adapter did not change by itself is as before, and so
\* is the configuration.  An import does not look at the file on disk again.
RestoredIsRestored ==
  job.verdict = "restored" =>
    /\ \A f \in Files \ job.touched : Same(f, job.before[f])
    /\ published = job.was
    /\ job.kind = "change" => disk = job.was

\* Changes of the adapter's files and of the configuration happen together or
\* not at all, whatever calls and saves fail or lose their answer, or else the
\* job says that it is incomplete.
ChangesAreWhole == DoneIsDone /\ RestoredIsRestored

PollCommits == poll.stage = "commit" /\ poll'.stage = "idle"

\* Pools in use that declare no models, which means that they serve every model.
Wildcards(cfg) == {a \in Pools \cap Enabled(cfg) : cfg.accounts[a].models = {}}

\* Pools that are to serve every model because the import file says so.
WildcardImports == IF Imported.models = {} THEN {Imported.account} ELSE {}

\* Only an administrator, who switches on a pool that lost its models, or an
\* import file that lists none, makes a pool serve every model: deletions,
\* logins, polls and checks never do for want of a list.  And a catalog that
\* was read before a credential went away does not bring back the models
\* withdrawn with it.
PoolsDeclareWhatTheyServe ==
  /\ [][\A a \in Wildcards(published') \ (Wildcards(published) \cup WildcardImports) :
          published' = Normalized([published EXCEPT !.accounts[a].enabled = TRUE])]_changesVars
  /\ [][PollCommits => \A a \in Pools :
          Declares(disk', a) \cap poll.withdrawn[a] \subseteq Declares(disk, a)]_changesVars

\* A fact is verified only while the connection, the model and the credential
\* it was observed on are those in use, however settings moved during the
\* check.
VerifiedIsProven ==
  \A cfg \in {published, disk}, a \in Accounts : Configured(cfg, a) =>
    Claims(a, cfg.accounts[a].caps) \subseteq {p \in proven : p.key = cfg.accounts[a].key}

\* What a capability excludes on some connection, and nobody but an operator or
\* a check may take back: of a source that is not a pool, the status of what a
\* catalog declared belongs to the catalog.
Bars(a, cap, credential, key) ==
  \/ /\ cap.evidence.status = "unsupported" /\ cap.evidence.key \in {Absent, key}
     /\ a \in Pools \/ cap.evidence.source # "catalog"
  \/ \E f \in cap.facts : /\ f.status = "unsupported" /\ f.key \in {Absent, key}
                           /\ f.credential \in {Absent, credential}

Excludes(cfg, a, m, credential, key) ==
  /\ Configured(cfg, a)
  /\ \E i \in DOMAIN cfg.accounts[a].caps :
       cfg.accounts[a].caps[i].upstream = m /\ Bars(a, cfg.accounts[a].caps[i], credential, key)

\* An exclusion stands until the account gets another connection than the one it
\* is about, the model is withdrawn, an import replaces the account, or a check
\* of this very scope passes that began under it.
ExclusionsKept ==
  [][disk' # disk => \A a \in Accounts, m \in Models, credential \in Scopes, key \in Keys :
       /\ Excludes(disk, a, m, credential, key) /\ ~Excludes(disk', a, m, credential, key)
       /\ Configured(disk', a) => disk'.accounts[a].key = key
       =>
         \/ m \notin Declares(disk', a)
         \/ job.kind = "import" /\ a = Imported.account
         \/ /\ check.stage = "commit" /\ check'.stage = "idle" /\ check.passed
            /\ check.account = a /\ check.upstream = m /\ check.credential \in {Absent, credential}
            /\ ~Allowed(check.source, m, check.credential)]_changesVars

\* The configuration without the times of its evidence.
Timeless(cfg) ==
  [cfg EXCEPT !.accounts = [a \in Accounts |->
     IF @[a] = Absent THEN Absent
     ELSE [@[a] EXCEPT !.caps = [i \in DOMAIN @ |-> [@[i] EXCEPT !.evidence.at = 0]]]]]

\* A poll that learns nothing new leaves the configuration alone: it never
\* changes times only.
DiscoveryIsQuiet ==
  [][PollCommits /\ disk' # disk => Timeless(disk') # Timeless(disk)]_changesVars
=============================================================================

--------------------------- MODULE SourceSettings ---------------------------
(***************************************************************************)
(* The sources and routes of a configuration, and what each administrative *)
(* operation makes of them: pool accounts after a credential changed       *)
(* (reconcileOAuthPoolAccount, ensureOAuthPoolConfig in oauthadapter.go),  *)
(* discovered catalogs with the routes they move                           *)
(* (syncDiscoveredCapabilities in capabilitysync.go), imported accounts    *)
(* (accountimport.go).                                                     *)
(*                                                                         *)
(* A configuration is [accounts, routes]: an account that is not           *)
(* configured is Absent; a route is a logical name and the accounts it may *)
(* fall back to.                                                           *)
(***************************************************************************)
EXTENDS Capabilities

CONSTANTS
  AccountOrder,  \* accounts, in the order of the configuration
  Pools,         \* those whose connection is the shared OAuth adapter
  Shared,        \* the pool that is created for a first credential
  ProviderOrder, \* families of credentials, sorted
  Scope,         \* Scope[p]: the provider a pool is restricted to, or Absent
  ProviderOf,    \* ProviderOf[m]: the provider whose credentials serve a model
  NewKey,        \* the key an added account starts with
  Imported       \* what an import file declares: [account, models, caps]

Accounts == ToSet(AccountOrder)

Providers == ToSet(ProviderOrder)

ASSUME SettingsAssumption ==
  /\ AccountOrder \in Seq(Accounts) /\ Absent \notin Accounts
  /\ Shared \in Accounts /\ Pools \subseteq Accounts

Configured(cfg, a) == cfg.accounts[a] # Absent

\* Normalize: a pool without capabilities gets those its models imply, and
\* facts about another connection are forgotten.
Normalized(cfg) ==
  LET Filled(a, account) ==
        IF a \in Pools /\ account.caps = <<>>
        THEN [account EXCEPT !.caps = InferredCodex(account.models)] ELSE account
  IN  [cfg EXCEPT !.accounts = [a \in Accounts |->
         IF @[a] = Absent THEN Absent ELSE Invalidated(Filled(a, @[a]))]]

\* Config.Validate: every target of a route exists and resolves, and every
\* capability is of a model the account advertises.
TargetsResolve(cfg) ==
  \A r \in DOMAIN cfg.routes : \A a \in cfg.routes[r].targets :
    Configured(cfg, a) /\ Resolved(cfg.accounts[a], cfg.routes[r].model) # Absent

CapabilitiesAdvertised(cfg) ==
  \A a \in Accounts : Configured(cfg, a) =>
    \A m \in Upstreams(cfg.accounts[a].caps) : SupportsTarget(cfg.accounts[a], m)

Valid(cfg) == TargetsResolve(cfg) /\ CapabilitiesAdvertised(cfg)

\* FilterDiscoveredModels.
InScope(a, models) ==
  IF a \in Pools /\ Scope[a] # Absent THEN {m \in models : ProviderOf[m] = Scope[a]} ELSE models

-----------------------------------------------------------------------------
(* After a credential was deleted, disabled or enabled.                    *)

\* The models of a pool, none if no credential of its provider is left.
\* available: providers with a credential that is enabled and authorized.
PoolCatalog(a, available, models) ==
  IF available = {} \/ (Scope[a] # Absent /\ Scope[a] \notin available) THEN {}
  ELSE InScope(a, models)

\* What is left of a pool: the capabilities of the models that remain.  An
\* empty pool is disabled, because no models would mean all of them; and so is
\* a pool whose reviewed routes would dangle, which keeps its declarations.
Withdrawn(cfg, a, models) ==
  LET old == cfg.accounts[a]
      new == [old EXCEPT !.models = models,
                !.enabled = @ /\ models # {},
                !.caps = MergedChannel(
                  Among(old.caps, {c \in ToSet(old.caps) : c.upstream \in models}),
                  InferredCodex(models))]
  IN  IF Valid([cfg EXCEPT !.accounts[a] = new]) THEN new ELSE [old EXCEPT !.enabled = FALSE]

\* The loop of reconcileOAuthPoolAccount.
Withdrawing(cfg, a, available, models) ==
  IF a \notin Pools \/ ~Configured(cfg, a) THEN cfg
  ELSE [cfg EXCEPT !.accounts[a] = Withdrawn(cfg, a, PoolCatalog(a, available, models))]

Reconciliation(cfg, available, models) ==
  FoldLeft(LAMBDA c, a : Withdrawing(c, a, available, models), cfg, AccountOrder)

-----------------------------------------------------------------------------
(* After a credential was added: ensureOAuthPoolConfig.                    *)

\* The first pool that takes credentials of the provider.
PoolFor(cfg, provider) ==
  LET i == SelectInSeq(AccountOrder, LAMBDA a :
             a \in Pools /\ Configured(cfg, a) /\ Scope[a] \in {Absent, provider})
  IN  IF i = 0 THEN Absent ELSE AccountOrder[i]

\* The configuration with the models of the provider announced, or Absent for an
\* error: nothing discovered, scoped pools only and none for this provider, or an
\* account of another kind under the name of the pool.
Ensured(cfg, provider, models) ==
  LET a == PoolFor(cfg, provider)
      Announce(old, new) ==
        [old EXCEPT !.models = @ \cup new,
                    !.caps = MergedChannel(@, InferredCodex(old.models \cup new))]
  IN  IF a # Absent
        THEN IF InScope(a, models) = {} THEN Absent
             ELSE [cfg EXCEPT !.accounts[a] = Announce(@, InScope(a, models))]
      ELSE IF models = {} \/ \E p \in Pools \cup {Shared} : Configured(cfg, p) THEN Absent
      ELSE [cfg EXCEPT !.accounts[Shared] =
              [enabled |-> TRUE, key |-> NewKey, models |-> models, caps |-> InferredCodex(models)]]

\* applyImportedAccounts, for the one account of the file: an existing account
\* is skipped or replaced, keeping its key; an invalid result is dropped.
WithImport(cfg, upsert) ==
  LET a == Imported.account
      new == [enabled |-> TRUE, models |-> Imported.models, caps |-> Imported.caps,
              key |-> IF Configured(cfg, a) THEN cfg.accounts[a].key ELSE NewKey]
      trial == Normalized([cfg EXCEPT !.accounts[a] = new])
  IN  IF (Configured(cfg, a) /\ ~upsert) \/ ~Valid(trial) THEN cfg ELSE trial

-----------------------------------------------------------------------------
(* After catalogs were read: syncDiscoveredCapabilities.                   *)

\* routeSupportsModel.
SupportedBy(cfg, targets, name) ==
  \A a \in targets : Configured(cfg, a) /\ Resolved(cfg.accounts[a], name) # Absent

\* applyDiscoveredCapabilityMigrations, one change of a logical name: routes
\* that can follow it do; if none does, the old name stays as an alias.
Renamed(move, name) == IF name.fast THEN FastProfile(move.to.base) ELSE move.to

Referring(cfg, a, move) ==
  {r \in DOMAIN cfg.routes : /\ ~move.from.fast
                             /\ cfg.routes[r].model.base = move.from.base
                             /\ a \in cfg.routes[r].targets}

Following(cfg, a, move) ==
  {r \in Referring(cfg, a, move) :
     SupportedBy(cfg, cfg.routes[r].targets, Renamed(move, cfg.routes[r].model))}

Rerouted(routes, follow, move) ==
  [r \in DOMAIN routes |-> IF r \in follow THEN [routes[r] EXCEPT !.model = Renamed(move, @)]
                           ELSE routes[r]]

Aliased(account, legacy) ==
  [account EXCEPT !.caps = IF \E i \in DOMAIN @ : @[i].model = legacy.model THEN @
                           ELSE Append(@, legacy),
                  !.models = @ \cup {legacy.upstream}]

Moved(cfg, a, move) ==
  IF Following(cfg, a, move) # {}
    THEN [cfg EXCEPT !.routes = Rerouted(@, Following(cfg, a, move), move)]
  ELSE IF Referring(cfg, a, move) = {} THEN cfg
  ELSE [cfg EXCEPT !.accounts[a] = Aliased(@, move.legacy)]

\* What one account declares after its catalog: a pool follows the catalog, any
\* other source only grows; a capability keeps its upstream model advertised.
Synced(a, account, catalog, at) ==
  LET inferred == Inferred(catalog, at)
      caps == IF a \in Pools THEN Reconciled(account.caps, inferred).caps
              ELSE MergedSynced(account.caps, inferred)
      models == IF a \in Pools THEN catalog ELSE account.models \cup catalog
  IN  [account EXCEPT !.caps = caps, !.models = models \cup Upstreams(caps)]

\* The changes of name a catalog brings about, each with its account.
Moves(a, account, catalog, at) ==
  IF a \notin Pools THEN <<>>
  ELSE LET moves == Reconciled(account.caps, Inferred(catalog, at)).moves
       IN  [i \in DOMAIN moves |-> [account |-> a, move |-> moves[i]]]

Updated(cfg, a, catalog, at) == [cfg EXCEPT !.accounts[a] = Synced(a, @, catalog, at)]

\* All catalogs that were read, in the order of the accounts.
AllUpdated(cfg, catalogs, at, read) ==
  FoldLeft(LAMBDA c, a : Updated(c, a, catalogs[a], at), cfg, read)

AllMoves(cfg, catalogs, at, read) ==
  FoldLeft(LAMBDA moves, a : moves \o Moves(a, cfg.accounts[a], catalogs[a], at), <<>>, read)

AllMoved(cfg, moves) == FoldLeft(LAMBDA c, m : Moved(c, m.account, m.move), cfg, moves)

\* The configuration after all catalogs; accounts without one are left alone.
Discovered(cfg, catalogs, at) ==
  LET read == Among(AccountOrder, DOMAIN catalogs)
      updated == AllUpdated(cfg, catalogs, at, read)
  IN  IF updated = cfg THEN cfg
      ELSE AllMoved(updated, AllMoves(cfg, catalogs, at, read))
=============================================================================

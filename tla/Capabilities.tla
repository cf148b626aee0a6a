---------------------------- MODULE Capabilities ----------------------------
(***************************************************************************)
(* What a source declares, and how discovery merges into it                *)
(* (internal/config/capabilities.go, capability_discovery.go,              *)
(* capability_evidence.go; internal/gateway/capabilitysync.go,             *)
(* request_requirements.go).                                               *)
(*                                                                         *)
(* An account declares upstream models and a list of capabilities: a       *)
(* logical name, the upstream model behind it, the evidence for it and the *)
(* facts that checks or operators recorded for its scopes.  A logical name *)
(* is a base name and whether it is the @fast profile of it.  The order of *)
(* the list matters: the first capability of a name answers for it.        *)
(* Reasoning efforts and ModelMap are left out.                            *)
(***************************************************************************)
EXTENDS Integers, FiniteSetsExt, SequencesExt

CONSTANTS
  ModelOrder,   \* upstream models, in the order of the catalogs
  LogicalOf,    \* base name a catalog entry stands for
  Codex,        \* models of the Codex family
  FastTier,     \* models whose catalog entry offers a fast service tier
  Preference,   \* codexModelPreference
  Absent          \* no model, no account, no identity

Models == ToSet(ModelOrder)

ASSUME CapabilitiesAssumption ==
  /\ ModelOrder \in Seq(Models) /\ Absent \notin Models
  /\ LogicalOf \in [Models -> STRING]
  /\ Preference \in [Codex -> Int]

\* A name: any text, the one of a model included, of the standard or the fast
\* profile.
Profiles == [base : Models \cup STRING, fast : BOOLEAN]

Standard(base) == [base |-> base, fast |-> FALSE]

\* FastProfileModel.
FastProfile(base) == [base |-> base, fast |-> TRUE]

\* The elements of a sequence that are in a set, in their order.
Among(seq, set) ==
  FoldLeft(LAMBDA kept, x : IF x \in set THEN Append(kept, x) ELSE kept, <<>>, seq)

InOrder(models) == Among(ModelOrder, models)

\* Evidence: its status, who gave it, the connection it is bound to, if it is,
\* and when it was observed.  A declaration of an author has no status yet.
Evidence(status, source, at) ==
  [status |-> status, source |-> source, key |-> Absent, at |-> at]

Authored == Evidence("authored", "operator", 0)

\* A declaration of a catalog, observed at some time.
Declared(at) == Evidence("declared", "catalog", at)

Capability(name, upstream, evidence) ==
  [model |-> name, upstream |-> upstream, evidence |-> evidence, facts |-> {}]

Upstreams(caps) == {caps[i].upstream : i \in DOMAIN caps}

-----------------------------------------------------------------------------
(* Inference from a catalog.                                               *)

\* InferDiscoveredModelCapabilities: one capability for each model, and one
\* for its fast profile.
Entries(m, at) ==
  <<Capability(Standard(LogicalOf[m]), m, Declared(at))>>
    \o (IF m \in FastTier
        THEN <<Capability(FastProfile(LogicalOf[m]), m, Declared(at))>> ELSE <<>>)

Inferred(models, at) ==
  FoldLeft(LAMBDA caps, m : caps \o Entries(m, at), <<>>, InOrder(models))

\* InferCodexCapabilities: one capability for each logical name, for the most
\* canonical of the models that share it.
Family(models, base) == {m \in models \cap Codex : LogicalOf[m] = base}

Canonical(models, base) ==
  Head(InOrder({m \in Family(models, base) :
    \A o \in Family(models, base) : Preference[m] >= Preference[o]}))

WithCodex(models, caps, m) ==
  IF \E i \in DOMAIN caps : caps[i].model.base = LogicalOf[m] THEN caps
  ELSE Append(caps, Capability(Standard(LogicalOf[m]), Canonical(models, LogicalOf[m]), Authored))

InferredCodex(models) ==
  FoldLeft(LAMBDA caps, m : WithCodex(models, caps, m), <<>>, InOrder(models \cap Codex))

-----------------------------------------------------------------------------
(* Merging what a catalog says into what is declared.                      *)

\* What if every catalog were new evidence?
PreservedNever(previous, current) == current

\* preserveUnchangedCatalogEvidence: a declaration seen again keeps its time.
Preserved(previous, current) ==
  IF /\ previous.evidence.source = "catalog" /\ current.evidence.source = "catalog"
     /\ previous.evidence.status = current.evidence.status
     /\ previous.model = current.model /\ previous.upstream = current.upstream
  THEN [current EXCEPT !.evidence = previous.evidence]
  ELSE current

\* What if facts recorded for a capability were not carried over?
ReplacingBlank(previous, inferred) == Preserved(previous, inferred)

\* What an inferred capability becomes where it takes the place of another.
Replacing(previous, inferred) ==
  Preserved(previous,
    [inferred EXCEPT !.facts = previous.facts,
                     !.evidence = IF previous.evidence.status \in {"verified", "unsupported"}
                                  THEN previous.evidence ELSE @])

\* reconcileDiscoveredCapabilities: entries are matched by name and upstream
\* model, then by upstream model alone, which is a change of name.
Matches(existing, matched, c) ==
  LET free == DOMAIN existing \ matched
      same == {i \in free : existing[i].model = c.model /\ existing[i].upstream = c.upstream}
  IN  IF same # {} THEN same ELSE {i \in free : existing[i].upstream = c.upstream}

Reconciling(existing, r, c) ==
  IF Matches(existing, r.matched, c) = {} THEN [r EXCEPT !.caps = Append(@, c)]
  ELSE LET i == Min(Matches(existing, r.matched, c)) IN
       [caps |-> [r.caps EXCEPT ![i] = Replacing(existing[i], c)],
        matched |-> r.matched \cup {i},
        moves |-> IF existing[i].model = c.model THEN r.moves
                  ELSE Append(r.moves, [from |-> existing[i].model, to |-> c.model,
                                        legacy |-> existing[i]])]

Reconciled(existing, inferred) ==
  FoldLeft(LAMBDA r, c : Reconciling(existing, r, c),
           [caps |-> existing, matched |-> {}, moves |-> <<>>], inferred)

\* mergeSyncedCapabilities: names are never changed, new ones are appended.  The
\* evidence is replaced where the catalog gave it, whatever became of it since.
Syncing(caps, c) ==
  LET same == {i \in DOMAIN caps : caps[i].model = c.model /\ caps[i].upstream = c.upstream}
      i == Max(same)
      renewed == IF caps[i].evidence.status = "authored" \/ caps[i].evidence.source = "catalog"
                 THEN [caps[i] EXCEPT !.evidence = c.evidence] ELSE caps[i]
  IN  IF same = {} THEN Append(caps, c) ELSE [caps EXCEPT ![i] = Preserved(caps[i], renewed)]

MergedSynced(existing, inferred) == FoldLeft(Syncing, existing, inferred)

\* mergeChannelCapabilities: only names that are not there yet are added.
Adding(caps, c) ==
  IF \E i \in DOMAIN caps : caps[i].model = c.model THEN caps ELSE Append(caps, c)

MergedChannel(existing, inferred) == FoldLeft(Adding, existing, inferred)

-----------------------------------------------------------------------------
(* What a declaration means for requests.                                  *)

\* AccountSupportsTargetModel: no models at all means every model.
SupportsTarget(account, m) == account.models = {} \/ m \in account.models

Usable(cap) == cap.evidence.status # "unsupported"

\* ResolveRouteTarget of a route with a logical model: the upstream model.
Resolved(account, name) ==
  LET i == SelectInSeq(account.caps, LAMBDA c : c.model = name /\ Usable(c))
  IN  IF i = 0 THEN Absent ELSE account.caps[i].upstream

\* requirementsCompatible: an explicit negative fact about the upstream model,
\* for every credential or for this one, excludes; an unknown one does not.
Allowed(account, m, credential) ==
  \A i \in DOMAIN account.caps :
    account.caps[i].upstream = m =>
      /\ Usable(account.caps[i])
      /\ ~\E f \in account.caps[i].facts :
            f.status = "unsupported" /\ f.credential \in {Absent, credential}

\* What if facts outlived the connection they were observed on?
InvalidatedNever(account) == account

\* invalidateAccountCapabilityEvidence, part of every normalization: evidence of
\* another connection is not known any more, an exclusion like a success.
Invalidated(account) ==
  LET Known(e) == IF (e.status = "verified" \/ e.key # Absent) /\ e.key # account.key
                  THEN [e EXCEPT !.status = "unknown"] ELSE e
      Current(c) == [c EXCEPT !.evidence = Known(c.evidence),
                              !.facts = {Known(f) : f \in c.facts}]
  IN  [account EXCEPT !.caps = [i \in DOMAIN account.caps |-> Current(account.caps[i])]]

\* A check that failed erases neither a success nor an exclusion.
Kept(facts, passed) == ~passed /\ \E f \in facts : f.status \in {"verified", "unsupported"}

\* finishCapabilityVerification, what is recorded: the fact of this scope in
\* the capability of this name and model, which is appended if there is none.
Recorded(account, name, m, credential, passed) ==
  LET i == SelectInSeq(account.caps, LAMBDA c : c.model = name /\ c.upstream = m)
      caps == IF i # 0 THEN account.caps
              ELSE Append(account.caps, Capability(name, m, Evidence("unknown", "operator", 0)))
      j == IF i # 0 THEN i ELSE Len(caps)
      old == {f \in caps[j].facts : f.credential = credential}
      new == [credential |-> credential, key |-> account.key,
              status |-> IF passed THEN "verified" ELSE "unknown"]
  IN  [account EXCEPT !.caps = IF Kept(old, passed) THEN caps
         ELSE [caps EXCEPT ![j].facts = (@ \ old) \cup {new}]]
=============================================================================

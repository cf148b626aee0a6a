-------------------------- MODULE MCAccountChanges --------------------------
(***************************************************************************)
(* Instances of AccountChanges for TLC: a shared pool and a direct source, *)
(* a Codex model and another one, and credentials of their providers.      *)
(***************************************************************************)
EXTENDS AccountChanges, TLC

CONSTANTS pool, api, sol, gem, codex, gemini, f1, f2, f3, k1, k2

MCModelOrder == <<sol, gem>>
MCLogicalOf == (sol :> "sol") @@ (gem :> "gem")
MCPreference == (sol :> 3)
MCAccountOrder == <<api, pool>>
MCProviderOrder == <<codex, gemini>>
MCScope == [p \in {pool} |-> Absent]
MCProviderOf == (sol :> codex) @@ (gem :> gemini)
MCFileProvider == (f1 :> codex) @@ (f2 :> gemini) @@ (f3 :> gemini)
MCOwnCatalog == [a \in {api} |-> {sol}]
MCImportFiles == <<f1, f3, f1>>

Cap(base, m, evidence) == Capability(Standard(base), m, evidence)

\* A direct source whose model was checked on the key in use.
Checked == [credential |-> Absent, key |-> k1, status |-> "verified"]

Direct == [enabled |-> TRUE, key |-> k1, models |-> {sol},
           caps |-> <<[Cap("old", sol, Authored) EXCEPT !.facts = {Checked}]>>]

MCImported == [account |-> api, models |-> {sol, gem},
               caps |-> <<Cap("old", sol, Authored), Cap("gem", gem, Authored)>>]

Alias(name, targets) == [alias |-> [model |-> Standard(name), targets |-> targets]]

\* A pool with reviewed facts, whose alias falls back to the direct source; and
\* no pool yet.
MCFirstSettings ==
  {[accounts |-> (api :> Direct) @@ (pool :> [enabled |-> TRUE, key |-> k1, models |-> {sol, gem},
      caps |-> <<Cap("old", sol, Authored), Cap("gem", gem, Declared(0))>>]),
    routes |-> Alias("old", {api, pool})],
   [accounts |-> (api :> Direct) @@ (pool :> Absent), routes |-> Alias("old", {api})]}

MCFirstFiles == {(f1 :> File("stored")) @@ (f2 :> File("stored")) @@ (f3 :> Absent)}
=============================================================================

-------------------------- MODULE MCWorkflowCatalog --------------------------
(* Scopes and symmetry for model-checking WorkflowCatalog.                 *)
EXTENDS WorkflowCatalog, TLC

ScopeOf(ops, versions, inFlight, flows, runs, crashes) ==
    [ops |-> ops, versions |-> versions, inFlight |-> inFlight, flows |-> flows,
     runs |-> runs, crashes |-> crashes]

(* Edits and publications while runs start and end.                        *)
Publishing == ScopeOf({"create", "publish", "start"}, 2, 2, 1, 1, FALSE)
Drafting   == ScopeOf({"create", "draft", "start"}, 2, 2, 1, 1, FALSE)
(* The same one after the other, longer, with deaths between the writes.   *)
TornSaves  == ScopeOf({"draft", "create", "publish", "start", "end"}, 3, 1, 1, 1, TRUE)
(* Starts against the limit, and resumptions past it.                      *)
Starting   == ScopeOf({"create", "start", "end", "resume", "settings"}, 2, 2, 1, 3, FALSE)
(* Edits while a failed run is resumed.                                    *)
Resuming   == ScopeOf({"create", "publish", "start", "end", "resume"}, 2, 2, 1, 2, FALSE)
(* Proposals applied, discarded, applied twice, torn.                      *)
Proposing  == ScopeOf({"create", "copilot"}, 2, 2, 1, 1, TRUE)
(* Documents composed elsewhere, over ids in use.                          *)
Imposing   == ScopeOf({"create", "impose", "start"}, 1, 1, 1, 1, FALSE)
Generating == ScopeOf({"create", "copilotnew", "start"}, 2, 1, 1, 1, FALSE)
(* Settings saved under a proposal that holds the old ones.                *)
Settings   == ScopeOf({"create", "settings", "copilotorg", "start"}, 2, 2, 1, 1, FALSE)
(* Copies.                                                                 *)
Copying    == ScopeOf({"create", "duplicate", "publish"}, 2, 2, 2, 1, FALSE)

CatalogScopes == {Publishing, Drafting, TornSaves, Starting, Resuming, Proposing, Imposing, Generating,
                  Settings, Copying}
RepinScopes   == {ScopeOf({"draft", "create", "copilot", "start"}, 3, 1, 1, 1, FALSE)}

Symmetry == Permutations(Run) \cup Permutations(Slot) \cup Permutations(Content)
              \cup Permutations(Workflow)
=============================================================================

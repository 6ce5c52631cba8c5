----------------------------- MODULE MCDirectory -----------------------------
(* Scopes and symmetry for model-checking Directory.                       *)
EXTENDS Directory, TLC

CONSTANTS u1, u2, u3

ScopeOf(ops, people, about, asks, roles, inFlight, crashes, r1, r2, r3) ==
    [ops |-> ops, people |-> people, about |-> about, asks |-> asks,
     roles |-> roles, inFlight |-> inFlight, crashes |-> crashes,
     founders |-> u1 :> r1 @@ u2 :> r2 @@ u3 :> r3]

(* Role changes of two administrators beside each other and beside whoever *)
(* reads and writes back memberships.                                      *)
Promoting == ScopeOf({"role", "me"}, {u1, u2}, {u1, u2}, 4, {"ORG_OWNER", "ORG_ADMIN", "VIEWER"},
                     2, FALSE, "ORG_OWNER", "ORG_ADMIN", "none")
(* Role changes that fail and die, and are asked again.                    *)
Torn      == ScopeOf({"role", "status", "list"}, {u1, u2}, {u1, u2}, 3,
                     {"ORG_OWNER", "ORG_ADMIN", "VIEWER"}, 1, TRUE, "ORG_OWNER", "ORG_ADMIN", "none")
(* Invitations issued, reissued and accepted; withdrawn too; by staff.     *)
Inviting  == ScopeOf({"invite", "resend", "accept"}, {u1, u2}, {u1}, 5, {}, 2, FALSE,
                     "none", "ORG_ADMIN", "none")
Revoking  == ScopeOf({"invite", "resend", "revoke", "accept"}, {NoUser, u1}, {u1}, 4, {}, 2, FALSE,
                     "none", "none", "none")
(* Invitations whose issue fails or dies anywhere.                         *)
Issuing   == ScopeOf({"invite", "resend", "accept"}, {NoUser, u1}, {u1}, 4, {}, 1, TRUE,
                     "none", "none", "none")
(* The limiter, with more requests than it admits.                         *)
Limiting  == ScopeOf({"inspect"}, {}, {}, 5, {}, 2, TRUE, "none", "none", "none")
(* Teams, one request at a time, with someone who joins meanwhile.         *)
Teaming   == ScopeOf({"newteam", "addto", "removefrom", "rename", "delete", "invite", "accept"},
                     {u1, u3}, {u2, u3}, 6, {}, 1, FALSE, "ORG_ADMIN", "OPERATOR", "none")

DirectoryScopes == {Promoting, Torn, Inviting, Revoking, Issuing, Limiting, Teaming}
OwnerlessScopes == {Promoting}

Symmetry == Permutations(Invite) \cup Permutations(Slot) \cup Permutations(Team)
=============================================================================

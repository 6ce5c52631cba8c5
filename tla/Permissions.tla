----------------------------- MODULE Permissions -----------------------------
(* The authorization policy: who holds what, and the one decision function *)
(* (packages/permissions/src/index.ts).  Nothing here has state.           *)

Groups        == {"FRONTLINE", "CLIENT_ADMIN", "SUPER_ADMIN"}
CustomerRoles == {"ORG_OWNER", "ORG_ADMIN", "WORKFLOW_BUILDER", "OPERATOR", "APPROVER", "VIEWER"}
Roles         == CustomerRoles \cup {"STAFF_ADMIN"}

CoarseOf(role) ==
    CASE role \in {"ORG_OWNER", "ORG_ADMIN", "WORKFLOW_BUILDER", "APPROVER"} -> "CLIENT_ADMIN"
      [] role \in {"OPERATOR", "VIEWER"} -> "FRONTLINE"
      [] OTHER -> "SUPER_ADMIN"

DefaultRole(group) ==
    CASE group = "CLIENT_ADMIN" -> "ORG_ADMIN"
      [] group = "FRONTLINE" -> "OPERATOR"
      [] OTHER -> "STAFF_ADMIN"

Reachable(role, group) == CoarseOf(role) = group
Invitable == {"CLIENT_ADMIN", "FRONTLINE"}

(* A token may name several groups; the most privileged counts.            *)
GroupOf(groups) ==
    CASE "SUPER_ADMIN" \in groups -> "SUPER_ADMIN"
      [] "CLIENT_ADMIN" \in groups -> "CLIENT_ADMIN"
      [] "FRONTLINE" \in groups -> "FRONTLINE"
      [] OTHER -> "none"

(***************************************************************************)
(* Grants                                                                  *)
(***************************************************************************)
ReadOnly == {"workflow:read", "run:read", "exception:read", "org:read", "notification:read",
             "support:read", "support:create"}

OwnerGrants ==
    ReadOnly \cup
    {"workflow:create", "workflow:edit", "workflow:publish", "workflow:archive", "workflow:run",
     "run:read_all", "run:cancel", "run:confirm", "task:read", "task:resolve", "approval:read",
     "approval:decide", "exception:resume", "agent:read", "agent:authorize", "agent:revoke",
     "connection:read", "connection:manage", "secret:reference", "secret:manage", "org:settings",
     "org:branding", "org:transfer_ownership", "user:read", "user:invite", "user:set_status",
     "user:set_role", "team:read", "team:manage", "audit:read", "analytics:read"}

InternalPermissions ==
    {"internal:organization_manage", "internal:platform_settings", "internal:copilot",
     "internal:audit_read_all", "internal:ai_execute", "internal:executor_diagnostic",
     "internal:lead_read", "internal:workflow_author", "internal:support_manage",
     "internal:session_revoke", "internal:tenant_summary_any"}

CustomerPermissions == OwnerGrants
AllPermissions      == CustomerPermissions \cup InternalPermissions

RoleGrants(role) ==
    CASE role = "ORG_OWNER" -> OwnerGrants
      [] role = "ORG_ADMIN" -> OwnerGrants \ {"org:transfer_ownership"}
      [] role = "WORKFLOW_BUILDER" -> ReadOnly \cup
           {"workflow:create", "workflow:edit", "workflow:archive", "workflow:run", "run:read_all",
            "run:cancel", "run:confirm", "exception:resume", "agent:read", "connection:read",
            "secret:reference", "analytics:read"}
      [] role = "OPERATOR" -> ReadOnly \cup
           {"workflow:run", "run:cancel", "run:confirm", "task:read", "task:resolve"}
      [] role = "APPROVER" -> ReadOnly \cup
           {"run:read_all", "approval:read", "approval:decide", "analytics:read"}
      [] role = "VIEWER" -> ReadOnly \cup
           {"run:read_all", "approval:read", "agent:read", "connection:read", "user:read",
            "team:read", "audit:read", "analytics:read"}
      [] OTHER -> {}

StaffGrants ==
    InternalPermissions \cup (OwnerGrants \ {"org:transfer_ownership", "support:create"})

(* The permissions a role may hold for its own records only, unless it     *)
(* sees everybody's.                                                       *)
Narrowable == {"run:read", "run:cancel", "run:confirm", "task:read", "task:resolve",
               "exception:read"}
Narrowed(held, permission) == permission \in Narrowable /\ "run:read_all" \notin held

(***************************************************************************)
(* Decisions                                                               *)
(***************************************************************************)
(* A principal p has user, org, group, role, staff; a resource r has org,  *)
(* the set of its owners, empty where the route names none, and the groups *)
(* it is assigned to, all of them where the route names none.              *)
AllowedByGrant(p, permission, r) ==
    /\ permission \notin InternalPermissions
    /\ permission \in RoleGrants(p.role)
    /\ Narrowed(RoleGrants(p.role), permission) /\ r.owner # {} => p.user \in r.owner

Can(p, permission, r) ==
    IF p.staff THEN permission \in StaffGrants
    ELSE /\ r.org = p.org
         /\ AllowedByGrant(p, permission, r)
         /\ permission = "workflow:run" => CoarseOf(p.role) \in r.assigned

(* principalFromClaims: no organization or no role is no principal.        *)
PrincipalOf(user, org, groups, stored) ==
    LET group == GroupOf(groups)
    IN  [user |-> user, org |-> org, group |-> group, staff |-> group = "SUPER_ADMIN",
         role |-> IF Reachable(stored, group) THEN stored ELSE DefaultRole(group)]

(***************************************************************************)
(* What is shown of it                                                     *)
(***************************************************************************)
(* SECTION_PERMISSION; home, support and account need nothing.             *)
SectionPermission ==
    [workflows |-> "workflow:read", runs |-> "run:read", tasks |-> "task:read",
     approvals |-> "approval:read", exceptions |-> "exception:read", agents |-> "agent:read",
     connections |-> "connection:read", team |-> "user:read", audit |-> "audit:read",
     analytics |-> "analytics:read", settings |-> "org:settings",
     organizations |-> "internal:organization_manage", customers |-> "internal:organization_manage",
     studio |-> "internal:workflow_author", copilot |-> "internal:copilot",
     activity |-> "internal:audit_read_all", platform |-> "internal:platform_settings",
     leads |-> "internal:lead_read"]

Whole(org) == [org |-> org, owner |-> {}, assigned |-> Groups]
VisibleSections(p) ==
    {s \in DOMAIN SectionPermission : Can(p, SectionPermission[s], Whole(p.org))}

(* Faulty variant: what a role holds for its own records alone is shown as *)
(* held outright.                                                          *)
MatrixHeld(role, permission) ==
    IF permission \in (IF role = "STAFF_ADMIN" THEN StaffGrants ELSE RoleGrants(role))
    THEN "yes" ELSE "no"

(* permissionMatrix: one cell.                                             *)
Matrix(role, permission) ==
    LET held == IF role = "STAFF_ADMIN" THEN StaffGrants ELSE RoleGrants(role)
    IN  IF permission \notin held THEN "no"
        ELSE IF Narrowed(held, permission) THEN "own" ELSE "yes"
=============================================================================

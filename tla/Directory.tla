------------------------------ MODULE Directory ------------------------------
(* The people of one organization: accounts at the identity provider,      *)
(* memberships, roles, invitations, teams, and the counter that limits     *)
(* requests without a session.  (services/control-plane/src/handler.ts)    *)
(*                                                                         *)
(* Accounts belong to the provider, everything else to one table; a request *)
(* reads and writes both one document at a time, whole documents, mostly   *)
(* without a condition.                                                    *)
EXTENDS Permissions, Naturals, FiniteSets

CONSTANTS
    User, Invite, Team, Slot,   \* addresses, ids of invitations and teams, invocations
    Limit,                      \* requests of one caller in the window
    Scopes,                     \* see Scope
    NoUser, NoInvite, NoTeam, NoMember

(* What is asked in one behaviour, by whom, about whom and at most how     *)
(* often, which roles a role change may give, how many invocations are in  *)
(* flight, whether they die, and the roles the organization starts with.           *)
Ops   == {"me", "list", "role", "status", "invite", "resend", "revoke", "accept", "inspect",
          "newteam", "addto", "removefrom", "rename", "delete"}
Scope == [ops : SUBSET Ops, people : SUBSET (User \cup {NoUser}), about : SUBSET User, asks : Nat,
          roles : SUBSET CustomerRoles, inFlight : Nat, crashes : BOOLEAN,
          founders : [User -> CustomerRoles \cup {"none"}]]

ASSUME DirectoryAssumption ==
    /\ Scopes \subseteq Scope /\ Limit \in Nat
    /\ NoUser \notin User /\ NoInvite \notin Invite /\ NoTeam \notin Team

Account   == [state : {"none", "challenged", "confirmed"}, enabled : BOOLEAN,
              groups : SUBSET Invitable]
NoAccount == [state |-> "none", enabled |-> TRUE, groups |-> {}]
Member    == [role : CustomerRoles, status : {"active", "invited", "deactivated"},
              teams : SUBSET Team]
ASSUME NoMemberAssumption == NoMember \notin Member
ASSUME NoTeamAssumption == \A members \in SUBSET User : members # NoTeam
InviteDoc == [state : {"none", "pending", "accepted", "expired", "revoked"},
              email : User \cup {NoUser}, role : CustomerRoles]
NoInvitation == [state |-> "none", email |-> NoUser, role |-> "OPERATOR"]

VARIABLES
    scope,      \* what this behaviour is about
    account,    \* accounts at the identity provider
    session,    \* the group the token of a user names, which outlives the group
    member,     \* MEMBERSHIP# documents
    invitation, \* INVITATION# documents
    linked,     \* invitations whose INVITETOKEN# item is written
    lapsed,     \* invitations past their seven days
    team,       \* TEAM# documents: their members
    counter,    \* the RATELIMIT# item of one caller and window
    call,       \* invocations in flight
    asked,      \* requests asked so far
    joins,      \* history: acceptances of each invitation
    owned,      \* history: the organization has had an owner
    lost,       \* history: users whose role was overwritten by no role change
    contested,  \* history: two role changes, or two reissues, were in flight together
    admitted    \* history: requests admitted in the window while no other was counted
vars == <<scope, account, session, member, invitation, linked, lapsed, team, counter, call,
          asked, joins, owned, lost, contested, admitted>>
history == <<asked, joins, owned, lost, contested, admitted>>
tables  == <<account, member, invitation, linked, team, counter>>
fixed   == <<scope, session, lapsed>>

Call == [op : Ops \cup {"none"},
         pc : {"idle", "backfill", "begin", "list", "reconcile", "addgroup", "dropgroup",
               "rollback", "readmember", "savemember", "grouping", "issue", "index", "pending",
               "revoking", "limit", "count", "lookup", "expire", "claim", "join", "saveteam", "dropteam"},
         actor : User \cup {NoUser}, target : User \cup {NoUser}, at : User \cup {NoUser},
         todo : SUBSET User, next : CustomerRoles, seen : Invitable, found : BOOLEAN, on : BOOLEAN,
         doc : Member \cup {NoMember}, pend : SUBSET Invite, invite : Invite \cup {NoInvite},
         team : Team \cup {NoTeam}, members : SUBSET User, count : 0..Limit, alone : BOOLEAN]
Idle == [op |-> "none", pc |-> "idle", actor |-> NoUser, target |-> NoUser, at |-> NoUser,
         todo |-> {}, next |-> "OPERATOR", seen |-> "FRONTLINE", found |-> FALSE,
         on |-> FALSE, doc |-> NoMember, pend |-> {}, invite |-> NoInvite, team |-> NoTeam,
         members |-> {}, count |-> 0, alone |-> TRUE]

Busy       == {j \in Slot : call[j].pc # "idle"}
Free(i)    == i \notin Busy /\ Cardinality(Busy) < scope.inFlight
At(i, op, pc) == call[i].op \in op /\ call[i].pc = pc
Goto(i, pc)   == call' = [call EXCEPT ![i].pc = pc]
Return(i)     == call' = [call EXCEPT ![i] = Idle]
(* Accounts of the organization that belong to a group, as they are listed. *)
Listed     == {v \in User : account[v].state # "none" /\ account[v].groups # {}}
Owners     == {u \in User : member[u] # NoMember /\ member[u].role = "ORG_OWNER"}
Pending(u) == {n \in Invite : invitation[n].state = "pending" /\ invitation[n].email = u}

Init ==
    /\ scope \in Scopes
    /\ account = [u \in User |->
                    IF scope.founders[u] = "none" THEN NoAccount
                    ELSE [state |-> "confirmed", enabled |-> TRUE,
                          groups |-> {CoarseOf(scope.founders[u])}]]
    /\ member = [u \in User |->
                   IF scope.founders[u] = "none" THEN NoMember
                   ELSE [role |-> scope.founders[u], status |-> "active", teams |-> {}]]
    /\ session = [u \in User |-> "none"]
    /\ invitation = [n \in Invite |-> NoInvitation] /\ linked = {} /\ lapsed = {}
    /\ team = [t \in Team |-> NoTeam] /\ counter = 0
    /\ call = [i \in Slot |-> Idle]
    /\ asked = 0 /\ joins = [n \in Invite |-> 0] /\ owned = (Owners # {}) /\ lost = {}
    /\ contested = FALSE /\ admitted = 0

(***************************************************************************)
(* The identity provider                                                   *)
(***************************************************************************)
(* A person signs in, setting a password the first time; the token names a *)
(* group from then on.                                                     *)
SignsIn(u) ==
    /\ account[u].state # "none" /\ account[u].enabled /\ account[u].groups # {}
    /\ session' = [session EXCEPT ![u] = GroupOf(account[u].groups)]
    /\ account' = [account EXCEPT ![u].state = "confirmed"]
    /\ UNCHANGED <<scope, member, invitation, linked, lapsed, team, counter, call, history>>

Lapses(n) ==
    /\ invitation[n].state = "pending" /\ n \notin lapsed
    /\ lapsed' = lapsed \cup {n}
    /\ UNCHANGED <<scope, session, tables, call, history>>

(***************************************************************************)
(* Who asks                                                                *)
(***************************************************************************)
(* principalFor; NoUser stands for staff.                                  *)
Principal(u) ==
    IF u = NoUser
    THEN [user |-> u, org |-> "staff", group |-> "SUPER_ADMIN", staff |-> TRUE,
          role |-> "STAFF_ADMIN"]
    ELSE PrincipalOf(u, "org", {session[u]},
                     IF member[u] = NoMember THEN DefaultRole(session[u]) ELSE member[u].role)

(* Faulty variant: the group is stored where the role belongs.             *)
BackfilledWithGroup(m, group) ==
    IF m = NoMember THEN [role |-> group, status |-> "active", teams |-> {}]
    ELSE [m EXCEPT !.role = group]

(* resolveMembership, for a stored role the group does not reach.          *)
Backfilled(m, group) ==
    IF m = NoMember THEN [role |-> DefaultRole(group), status |-> "active", teams |-> {}]
    ELSE [m EXCEPT !.role = DefaultRole(group)]
Resolves(m, group) == m # NoMember /\ Reachable(m.role, group)

Needs(op) ==
    CASE op \in {"me", "accept"} -> {}
      [] op = "list" -> {"user:read"}
      [] op = "role" -> {"user:set_role"}
      [] op = "status" -> {"user:set_status"}
      [] op \in {"invite", "resend", "revoke"} -> {"user:invite"}
      [] OTHER -> {"team:manage"}
May(u, op) == \A q \in Needs(op) : Can(Principal(u), q, Whole("org"))

(* Where a request goes on once its principal is resolved.                 *)
First(op) ==
    CASE op = "me" -> "readmember"
      [] op = "accept" -> "limit"
      [] op \in {"newteam", "addto", "removefrom", "rename", "delete"} -> "begin"
      [] OTHER -> "list"

Rivals(op) == {j \in Slot : \/ op = "role" /\ call[j].op = "role"
                            \/ {op, call[j].op} \subseteq {"invite", "resend"}}

(* Bound on the requests of a behaviour.                                   *)
Counted == asked < scope.asks /\ asked' = asked + 1

(* A request with the details c is authenticated, resolved and authorized; *)
(* a token outlives the group it names, so the role may be written back.   *)
Asks(i, u, op, c) ==
    /\ op \in scope.ops /\ u \in scope.people /\ Free(i) /\ Counted /\ May(u, op)
    /\ u # NoUser => session[u] # "none" /\ account[u].enabled
    /\ LET settled == u = NoUser \/ Resolves(member[u], session[u])
       IN  call' = [call EXCEPT ![i] =
                      [c EXCEPT !.op = op, !.actor = u, !.todo = IF First(op) = "list" THEN Listed ELSE {},
                                !.pc = IF settled THEN First(op) ELSE "backfill",
                                !.doc = IF settled THEN NoMember
                                        ELSE Backfilled(member[u], session[u])]]
    /\ contested' = (contested \/ Rivals(op) # {})
    /\ UNCHANGED <<fixed, tables, joins, owned, lost, admitted>>

(* Writes a membership; notes a role that no role change asked for.        *)
Writes(u, d, op) ==
    /\ member' = [member EXCEPT ![u] = d]
    /\ owned' = (owned \/ d.role = "ORG_OWNER")
    /\ lost' = lost \cup IF op # "role" /\ member[u] # NoMember /\ member[u].role # d.role
                         THEN {u} ELSE {}

Backfills(i) ==
    /\ call[i].pc = "backfill"
    /\ Writes(call[i].actor, call[i].doc, "me")
    /\ call' = [call EXCEPT ![i].pc = First(call[i].op), ![i].doc = NoMember]
    /\ UNCHANGED <<fixed, account, invitation, linked, team, counter, asked, joins, contested, admitted>>

Request(i, u) ==
    \/ u # NoUser /\ Asks(i, u, "me", Idle)
    \/ Asks(i, u, "list", Idle)
    \/ \E v \in scope.about, r \in scope.roles :
          Asks(i, u, "role", [Idle EXCEPT !.target = v, !.next = r])
    \/ \E v \in scope.about, on \in BOOLEAN : Asks(i, u, "status", [Idle EXCEPT !.target = v, !.on = on])
    \/ \E v \in scope.about, g \in Invitable :
          Asks(i, u, "invite", [Idle EXCEPT !.target = v, !.next = DefaultRole(g)])
    \/ \E v \in scope.about, op \in {"resend", "revoke"} : Asks(i, u, op, [Idle EXCEPT !.target = v])
    \/ \E n \in Invite : u # NoUser /\ Asks(i, u, "accept", [Idle EXCEPT !.invite = n])
    \/ \E t \in Team, op \in {"newteam", "rename", "delete"} :
          Asks(i, u, op, [Idle EXCEPT !.team = t])
    \/ \E t \in Team, v \in scope.about, op \in {"addto", "removefrom"} :
          Asks(i, u, op, [Idle EXCEPT !.team = t, !.target = v])

(***************************************************************************)
(* listTenantUsers: every account of the organization, its membership      *)
(* resolved and its status brought in line with the provider.              *)
(***************************************************************************)
StatusOf(v) == CASE ~account[v].enabled -> "deactivated"
                 [] account[v].state = "challenged" -> "invited"
                 [] OTHER -> "active"
Reconciled(v) ==
    LET group == GroupOf(account[v].groups)
        m == IF Resolves(member[v], group) THEN member[v] ELSE Backfilled(member[v], group)
    IN  [m EXCEPT !.status = StatusOf(v)]

Foremost(users) == CHOOSE v \in users : TRUE   \* in the provider's order
Lists(i) ==
    LET v == Foremost(call[i].todo)
    IN
    /\ call[i].pc = "list" /\ call[i].todo # {}
    /\ call' = [call EXCEPT
                  ![i].todo = @ \ {v},
                  ![i].seen = IF v = call[i].target /\ v \in Listed THEN GroupOf(account[v].groups)
                              ELSE @,
                  ![i].found = @ \/ (v = call[i].target /\ v \in Listed),
                  ![i].at = IF v \in Listed /\ Reconciled(v) # member[v] THEN v ELSE NoUser,
                  ![i].doc = IF v \in Listed /\ Reconciled(v) # member[v] THEN Reconciled(v)
                             ELSE NoMember,
                  ![i].pc = IF v \in Listed /\ Reconciled(v) # member[v] THEN "reconcile" ELSE @]
    /\ UNCHANGED <<fixed, tables, history>>

Reconciles(i) ==
    /\ call[i].pc = "reconcile"
    /\ Writes(call[i].at, call[i].doc, "list")
    /\ call' = [call EXCEPT ![i].pc = "list", ![i].doc = NoMember, ![i].at = NoUser]
    /\ UNCHANGED <<fixed, account, invitation, linked, team, counter, asked, joins, contested, admitted>>

(* The listing is done; ops that need the target in it or not.             *)
HasListed(i, op) == call[i].pc = "list" /\ call[i].todo = {} /\ call[i].op = op
Pends(v)         == account[v].state = "challenged"

(* GET users, or a target the listing refuses.                             *)
EndsListing(i) ==
    /\ call[i].pc = "list" /\ call[i].todo = {}
    /\ \/ call[i].op = "list"
       \/ call[i].op \in {"role", "status", "addto", "resend", "revoke"} /\ ~call[i].found
       \/ call[i].op \in {"resend", "revoke"} /\ ~Pends(call[i].target)
       \/ call[i].op = "invite" /\ (call[i].found \/ account[call[i].target].state # "none")
    /\ Return(i)
    /\ UNCHANGED <<fixed, tables, history>>

(***************************************************************************)
(* Roles and status                                                        *)
(***************************************************************************)
(* Faulty variant: one owner fewer than needed is still enough.            *)
WouldOrphanNobody(v, next) == next # "ORG_OWNER" /\ v \in Owners /\ Cardinality(Owners) = 0

(* wouldOrphanOwnership                                                    *)
WouldOrphan(v, next) == next # "ORG_OWNER" /\ v \in Owners /\ Cardinality(Owners) = 1

(* changeMemberRole: all memberships are read, the change is decided, ...  *)
ScansMembers(i) ==
    LET c == call[i]
        m == member[c.target]
    IN  /\ HasListed(i, "role") /\ c.found
        /\ call' = [call EXCEPT ![i] =
             IF WouldOrphan(c.target, c.next) THEN Idle
             ELSE [c EXCEPT
                     !.pc = IF CoarseOf(c.next) = c.seen THEN "savemember" ELSE "addgroup",
                     !.doc = [role |-> c.next, status |-> "active",
                              teams |-> IF m = NoMember THEN {} ELSE m.teams]]]
        /\ UNCHANGED <<fixed, tables, history>>

Regroups(i, v, groups, pc) ==
    /\ account' = [account EXCEPT ![v].groups = groups]
    /\ Goto(i, pc)
    /\ UNCHANGED <<fixed, member, invitation, linked, team, counter, history>>

(* Faulty variant: the old group is left before the new one is entered.    *)
LeavesGroup(i) ==
    /\ call[i].pc = "addgroup"
    /\ Regroups(i, call[i].target, account[call[i].target].groups \ {call[i].seen}, "dropgroup")

(* ... the new group is entered before the old one is left, ...            *)
AddsGroup(i) ==
    /\ call[i].pc = "addgroup"
    /\ Regroups(i, call[i].target,
                account[call[i].target].groups \cup {CoarseOf(call[i].next)}, "dropgroup")

DropsGroup(i) ==
    /\ call[i].pc = "dropgroup"
    /\ Regroups(i, call[i].target, account[call[i].target].groups \ {call[i].seen}, "savemember")

(* ... and left again when the old one cannot be, if that can be done.     *)
DropFails(i) ==
    /\ call[i].pc = "dropgroup" /\ scope.crashes
    /\ Goto(i, "rollback")
    /\ UNCHANGED <<fixed, tables, history>>

RollsBack(i) ==
    /\ call[i].pc = "rollback"
    /\ account' = [account EXCEPT ![call[i].target].groups = @ \ {CoarseOf(call[i].next)}]
    /\ Return(i)
    /\ UNCHANGED <<fixed, member, invitation, linked, team, counter, history>>

(* POST status, and the first write of revokeInvitation.                   *)
SetsEnabled(i) ==
    /\ \/ HasListed(i, "status") /\ call[i].found
       \/ HasListed(i, "revoke") /\ call[i].found /\ Pends(call[i].target)
    /\ account' = [account EXCEPT ![call[i].target].enabled = call[i].on]
    /\ Goto(i, IF call[i].op = "status" THEN "readmember" ELSE "pending")
    /\ UNCHANGED <<fixed, member, invitation, linked, team, counter, history>>

(* The membership a request is about, and what it makes of it.             *)
Subject(i) == CASE call[i].op = "me" -> call[i].actor
                [] call[i].op = "delete" -> call[i].at
                [] OTHER -> call[i].target
Changed(i, m) ==
    CASE call[i].op = "status" -> [m EXCEPT !.status = IF call[i].on THEN "active" ELSE "deactivated"]
      [] call[i].op = "revoke" -> [m EXCEPT !.status = "deactivated"]
      [] call[i].op = "addto" -> [m EXCEPT !.teams = @ \cup {call[i].team}]
      [] call[i].op \in {"removefrom", "delete"} -> [m EXCEPT !.teams = @ \ {call[i].team}]
      [] OTHER -> m
AfterSave(i) == CASE call[i].op = "delete" -> [call[i] EXCEPT !.pc = "dropteam", !.doc = NoMember]
                  [] call[i].op = "invite" -> [call[i] EXCEPT !.pc = "issue", !.doc = NoMember]
                  [] OTHER -> Idle

ReadsMember(i) ==
    /\ call[i].pc = "readmember"
    /\ LET m == member[Subject(i)]
       IN  call' = [call EXCEPT ![i] =
                      IF m = NoMember \/ (call[i].op = "addto" /\ call[i].team \in m.teams)
                      THEN AfterSave(i)
                      ELSE [call[i] EXCEPT !.pc = "savemember", !.doc = Changed(i, m)]]
    /\ UNCHANGED <<fixed, tables, history>>

SavesMember(i) ==
    /\ call[i].pc = "savemember"
    /\ Writes(Subject(i), call[i].doc, call[i].op)
    /\ call' = [call EXCEPT ![i] = AfterSave(i)]
    /\ UNCHANGED <<fixed, account, invitation, linked, team, counter, asked, joins, contested, admitted>>

(* The sign-in of this minute is on record, or the write fails: the        *)
(* request goes on without it.                                             *)
SkipsMember(i) ==
    /\ call[i].pc = "savemember"
    /\ \/ call[i].op = "me"
       \/ scope.crashes
    /\ call' = [call EXCEPT ![i] = AfterSave(i)]
    /\ UNCHANGED <<fixed, tables, history>>

(***************************************************************************)
(* Invitations                                                             *)
(***************************************************************************)
(* inviteTenantUser: an account, its group, its membership, an invitation. *)
CreatesAccount(i) ==
    /\ HasListed(i, "invite") /\ account[call[i].target] = NoAccount
    /\ account' = [account EXCEPT ![call[i].target].state = "challenged"]
    /\ Goto(i, "grouping")
    /\ UNCHANGED <<fixed, member, invitation, linked, team, counter, history>>

Groups1st(i) ==
    /\ call[i].pc = "grouping"
    /\ account' = [account EXCEPT ![call[i].target].groups = @ \cup {CoarseOf(call[i].next)}]
    /\ call' = [call EXCEPT ![i].pc = "savemember",
                            ![i].doc = [role |-> call[i].next, status |-> "invited", teams |-> {}]]
    /\ UNCHANGED <<fixed, member, invitation, linked, team, counter, history>>

(* createInvitationRecord: the record, then the token's index.             *)
Issues(i, n) ==
    /\ call[i].pc = "issue" /\ invitation[n].state = "none"
    /\ invitation' = [invitation EXCEPT ![n] =
                        [state |-> "pending", email |-> call[i].target, role |-> call[i].next]]
    /\ call' = [call EXCEPT ![i].pc = "index", ![i].invite = n]
    /\ UNCHANGED <<fixed, account, member, linked, team, counter, history>>

Indexes(i) ==
    /\ call[i].pc = "index"
    /\ linked' = linked \cup {call[i].invite}
    /\ Return(i)
    /\ UNCHANGED <<fixed, account, member, invitation, team, counter, history>>

(* Faulty variant: the pending invitations are not looked for.             *)
FindsNoPending(i) ==
    /\ call[i].pc = "pending" \/ (HasListed(i, "resend") /\ Pends(call[i].target))
    /\ call' = [call EXCEPT ![i].pc = "revoking", ![i].next = DefaultRole(call[i].seen)]
    /\ UNCHANGED <<fixed, tables, history>>

(* resendInvitation and revokeInvitation: the pending ones are read, ...   *)
FindsPending(i) ==
    /\ \/ call[i].pc = "pending"
       \/ HasListed(i, "resend") /\ call[i].found /\ Pends(call[i].target)
    /\ \E r \in {invitation[n].role : n \in Pending(call[i].target)}
                  \cup IF Pending(call[i].target) = {} THEN {DefaultRole(call[i].seen)} ELSE {} :
          call' = [call EXCEPT ![i].pc = "revoking", ![i].pend = Pending(call[i].target),
                               ![i].next = r]
    /\ UNCHANGED <<fixed, tables, history>>

(* ... each is written back as revoked, whatever became of it since, ...   *)
Revokes(i, n) ==
    /\ call[i].pc = "revoking" /\ n \in call[i].pend
    /\ invitation' = [invitation EXCEPT ![n].state = "revoked"]
    /\ call' = [call EXCEPT ![i].pend = @ \ {n}]
    /\ UNCHANGED <<fixed, account, member, linked, team, counter, history>>

(* ... and a new one is issued, or the membership closed.                  *)
EndsRevoking(i) ==
    /\ call[i].pc = "revoking" /\ call[i].pend = {}
    /\ Goto(i, IF call[i].op = "resend" THEN "issue" ELSE "readmember")
    /\ UNCHANGED <<fixed, tables, history>>

(***************************************************************************)
(* Accepting; the limit on requests that carry nothing but a token         *)
(***************************************************************************)
(* GET /invitations/{token}, without a session.                            *)
Inspects(i, n) ==
    /\ "inspect" \in scope.ops /\ Free(i) /\ Counted
    /\ call' = [call EXCEPT ![i] = [Idle EXCEPT !.op = "inspect", !.pc = "limit", !.invite = n]]
    /\ UNCHANGED <<fixed, tables, joins, owned, lost, contested, admitted>>

(* Faulty variant: the request that reaches the limit still passes.        *)
LimitPassed(count) == count > Limit

(* consumeRateLimit reads the counter of the caller's window, ...          *)
LimitReached(count) == count >= Limit

Counting == {j \in Slot : call[j].pc = "count"}
ReadsCounter(i) ==
    /\ call[i].pc = "limit"
    /\ call' = [j \in Slot |->
                  IF j # i THEN [call[j] EXCEPT !.alone = @ /\ j \notin Counting]
                  ELSE IF LimitReached(counter) THEN Idle
                  ELSE [call[i] EXCEPT !.pc = "count", !.count = counter,
                                       !.alone = (Counting = {})]]
    /\ UNCHANGED <<fixed, tables, history>>

(* ... and writes back one more than it read; a failed write is ignored.   *)
WritesCounter(i) ==
    /\ call[i].pc = "count"
    /\ counter' = call[i].count + 1
    /\ admitted' = admitted + IF call[i].alone THEN 1 ELSE 0
    /\ call' = [call EXCEPT ![i].pc = "lookup", ![i].count = 0, ![i].alone = TRUE]
    /\ UNCHANGED <<fixed, account, member, invitation, linked, team, asked, joins, owned, lost, contested>>

CounterFails(i) ==
    /\ call[i].pc = "count" /\ scope.crashes
    /\ call' = [call EXCEPT ![i].pc = "lookup", ![i].count = 0, ![i].alone = TRUE]
    /\ UNCHANGED <<fixed, tables, history>>

(* The link must be known, the invitation pending; one past its days is    *)
(* written back as expired by whoever looks at it first.                   *)
LooksUp(i) ==
    LET n == call[i].invite
        pending == n \in linked /\ invitation[n].state = "pending"
    IN  /\ call[i].pc = "lookup"
        /\ call' = [call EXCEPT ![i] =
              IF pending /\ n \in lapsed THEN [call[i] EXCEPT !.pc = "expire"]
              ELSE IF pending /\ call[i].op = "accept" /\ invitation[n].email = call[i].actor
                   THEN [call[i] EXCEPT !.pc = "claim", !.next = invitation[n].role]
                   ELSE Idle]
        /\ UNCHANGED <<fixed, tables, history>>

Expires(i) ==
    /\ call[i].pc = "expire"
    /\ invitation' = [invitation EXCEPT ![call[i].invite].state = "expired"]
    /\ Return(i)
    /\ UNCHANGED <<fixed, account, member, linked, team, counter, history>>

(* acceptInvitation. Faulty variant: written as it was read.               *)
ClaimsUnconditionally(i) ==
    /\ call[i].pc = "claim"
    /\ invitation' = [invitation EXCEPT ![call[i].invite].state = "accepted"]
    /\ joins' = [joins EXCEPT ![call[i].invite] = @ + 1]
    /\ Goto(i, "join")
    /\ UNCHANGED <<fixed, account, member, linked, team, counter, asked, owned, lost, contested, admitted>>

(* acceptInvitation: a write on condition that it is pending still.        *)
Claims(i) ==
    /\ call[i].pc = "claim" /\ invitation[call[i].invite].state = "pending"
    /\ invitation' = [invitation EXCEPT ![call[i].invite].state = "accepted"]
    /\ joins' = [joins EXCEPT ![call[i].invite] = @ + 1]
    /\ Goto(i, "join")
    /\ UNCHANGED <<fixed, account, member, linked, team, counter, asked, owned, lost, contested, admitted>>

ClaimRefused(i) ==
    /\ call[i].pc = "claim" /\ invitation[call[i].invite].state # "pending"
    /\ Return(i)
    /\ UNCHANGED <<fixed, tables, history>>

Joins(i) ==
    /\ call[i].pc = "join"
    /\ Writes(call[i].actor, [role |-> call[i].next, status |-> "active", teams |-> {}], "accept")
    /\ Return(i)
    /\ UNCHANGED <<fixed, account, invitation, linked, team, counter, asked, joins, contested, admitted>>

(***************************************************************************)
(* Teams                                                                   *)
(***************************************************************************)
CreatesTeam(i) ==
    /\ At(i, {"newteam"}, "begin") /\ team[call[i].team] = NoTeam
    /\ team' = [team EXCEPT ![call[i].team] = {}]
    /\ Return(i)
    /\ UNCHANGED <<fixed, account, member, invitation, linked, counter, history>>

(* Faulty variant: a team is deleted before its members are told.          *)
ReadsTeamAlone(i) ==
    /\ At(i, {"addto", "removefrom", "rename", "delete"}, "begin")
    /\ call' = [call EXCEPT ![i] =
         IF team[call[i].team] = NoTeam THEN Idle
         ELSE [call[i] EXCEPT
                 !.members = team[call[i].team], !.todo = IF call[i].op = "addto" THEN Listed ELSE {},
                 !.pc = CASE call[i].op = "addto" -> "list"
                          [] call[i].op = "delete" -> "dropteam"
                          [] OTHER -> "saveteam"]]
    /\ UNCHANGED <<fixed, tables, history>>

(* The other routes read the team; adding lists the users first.           *)
ReadsTeam(i) ==
    /\ At(i, {"addto", "removefrom", "rename", "delete"}, "begin")
    /\ call' = [call EXCEPT ![i] =
         IF team[call[i].team] = NoTeam THEN Idle
         ELSE [call[i] EXCEPT
                 !.members = team[call[i].team],
                 !.todo = IF call[i].op = "addto" THEN Listed ELSE team[call[i].team],
                 !.pc = CASE call[i].op = "addto" -> "list"
                          [] call[i].op = "delete" -> "dropteam"
                          [] OTHER -> "saveteam"]]
    /\ UNCHANGED <<fixed, tables, history>>

NewMembers(i) == CASE call[i].op = "addto" -> call[i].members \cup {call[i].target}
                   [] call[i].op = "removefrom" -> call[i].members \ {call[i].target}
                   [] OTHER -> call[i].members
SavesTeam(i) ==
    /\ call[i].pc = "saveteam" \/ (HasListed(i, "addto") /\ call[i].found)
    /\ team' = [team EXCEPT ![call[i].team] = NewMembers(i)]
    /\ call' = [call EXCEPT ![i] = IF call[i].op = "rename" THEN Idle
                                   ELSE [call[i] EXCEPT !.pc = "readmember"]]
    /\ UNCHANGED <<fixed, account, member, invitation, linked, counter, history>>

(* DELETE /teams/{id}: member by member, then the team.                    *)
DropsMember(i) ==
    LET v == Foremost(call[i].todo)
    IN
    /\ call[i].pc = "dropteam" /\ call[i].todo # {}
    /\ call' = [call EXCEPT ![i].pc = "readmember", ![i].at = v, ![i].todo = @ \ {v}]
    /\ UNCHANGED <<fixed, tables, history>>

DropsTeam(i) ==
    /\ call[i].pc = "dropteam" /\ call[i].todo = {}
    /\ team' = [team EXCEPT ![call[i].team] = NoTeam]
    /\ Return(i)
    /\ UNCHANGED <<fixed, account, member, invitation, linked, counter, history>>

(* An invocation dies, or a call of it to the table or the provider fails. *)
Dies(i) ==
    /\ scope.crashes /\ i \in Busy
    /\ Return(i)
    /\ UNCHANGED <<fixed, tables, history>>

Next ==
    \/ \E u \in User : SignsIn(u)
    \/ \E n \in Invite : Lapses(n)
    \/ \E i \in Slot, u \in User \cup {NoUser} : Request(i, u)
    \/ \E i \in Slot : Backfills(i) \/ Reconciles(i) \/ EndsListing(i)
    \/ \E i \in Slot : Lists(i) \/ DropsMember(i)
    \/ \E i \in Slot : ScansMembers(i) \/ AddsGroup(i) \/ DropsGroup(i) \/ DropFails(i) \/ RollsBack(i)
    \/ \E i \in Slot : SetsEnabled(i) \/ ReadsMember(i) \/ SavesMember(i) \/ SkipsMember(i)
    \/ \E i \in Slot : CreatesAccount(i) \/ Groups1st(i) \/ Indexes(i) \/ FindsPending(i) \/ EndsRevoking(i)
    \/ \E i \in Slot, n \in Invite : Issues(i, n) \/ Revokes(i, n) \/ Inspects(i, n)
    \/ \E i \in Slot : ReadsCounter(i) \/ WritesCounter(i) \/ CounterFails(i) \/ LooksUp(i) \/ Expires(i)
    \/ \E i \in Slot : Claims(i) \/ ClaimRefused(i) \/ Joins(i)
    \/ \E i \in Slot : CreatesTeam(i) \/ ReadsTeam(i) \/ SavesTeam(i) \/ DropsTeam(i) \/ Dies(i)

Spec == Init /\ [][Next]_vars

(***************************************************************************)
(* Properties                                                              *)
(***************************************************************************)
DirectoryTypeOK ==
    /\ scope \in Scope /\ account \in [User -> Account]
    /\ session \in [User -> Invitable \cup {"none"}] /\ member \in [User -> Member \cup {NoMember}]
    /\ invitation \in [Invite -> InviteDoc] /\ linked \subseteq Invite /\ lapsed \subseteq Invite
    /\ team \in [Team -> (SUBSET User) \cup {NoTeam}] /\ counter \in 0..Limit
    /\ call \in [Slot -> Call] /\ joins \in [Invite -> Nat] /\ admitted \in Nat
    /\ asked \in Nat /\ owned \in BOOLEAN /\ lost \subseteq User /\ contested \in BOOLEAN

(* An invitation admits nobody twice, however many accept it at once, and  *)
(* whatever revocation, reissue or expiry is written over it meanwhile.    *)
AcceptedOnce == \A n \in Invite : joins[n] <= 1 /\ (joins[n] = 1 => invitation[n].state # "pending")

(* At most one invitation of a person is open, unless two reissues, or a   *)
(* reissue and the invitation itself, were in flight together.             *)
OneLiveLink == \A u \in User : Cardinality(Pending(u)) <= 1 \/ contested

(* Whoever could sign in belongs to some group still, after role changes   *)
(* that fail or die anywhere, unless two of them were in flight together.  *)
NeverLockedOut ==
    \A u \in User : account[u].state = "confirmed" => account[u].groups # {} \/ contested

(* An organization that has had an owner has one, unless two role changes  *)
(* were in flight together or some request that is no role change wrote    *)
(* over a role. (wouldOrphanOwnership)                                     *)
OwnersKept == owned => Owners # {} \/ contested \/ lost # {}

(* The same without the second exception, as the refusal's message says.   *)
NeverOwnerless == owned => Owners # {} \/ contested

(* Requests served one at a time leave the two records of team membership  *)
(* in agreement, except for whoever accepted an invitation meanwhile.      *)
TeamsAgree ==
    Busy = {} /\ scope.inFlight = 1 /\ ~scope.crashes =>
        \A u \in User, t \in Team :
            \/ \E n \in Invite : joins[n] > 0 /\ invitation[n].email = u
            \/ member[u] # NoMember /\ t \in member[u].teams <=> team[t] # NoTeam /\ u \in team[t]

(* Requests that do not overlap are counted one by one: no more of them    *)
(* pass in a window than the limit, whatever overlapping ones write.       *)
LimitCounts == admitted <= Limit

(* Whoever is signed in, however the stored role came about and whatever   *)
(* group the token still names: the matrix the administrator is shown and  *)
(* the sections of the menu say of it what the decision function decides.  *)
Record(owners) == [org |-> "org", owner |-> owners, assigned |-> Groups]
MatrixTellsDecision ==
    Busy = {} => \A u \in {v \in User : session[v] # "none"} \cup {NoUser} :
        LET p == Principal(u)
        IN  /\ \A q \in AllPermissions :
                  /\ Matrix(p.role, q) # "no" <=> Can(p, q, Record({u}))
                  /\ Matrix(p.role, q) = "yes" <=> Can(p, q, Record({NoUser}))
            /\ VisibleSections(p) =
                  {s \in DOMAIN SectionPermission : Matrix(p.role, SectionPermission[s]) # "no"}
=============================================================================

--------------------------- MODULE DirectoryProofs ---------------------------
(* Directory, for every set of users, invitations, teams and invocations   *)
(* and for every scope: an invitation admits once, one of a person's is    *)
(* open, the limit counts, nobody is locked out, an owner remains, the two *)
(* records of a team agree, the matrix tells what is decided.              *)
EXTENDS Directory, FiniteSetTheorems, TLAPS

(***************************************************************************)
(* The invariants                                                          *)
(***************************************************************************)
Targeted == {"role", "status", "invite", "resend", "revoke", "addto", "removefrom"}
Teamed   == {"newteam", "addto", "removefrom", "rename", "delete"}
Listing  == {"list", "role", "status", "invite", "resend", "revoke", "addto"}
Changing == {"me", "status", "revoke", "addto", "removefrom", "delete"}

(* Which requests come to which point, ... *)
Belongs(c) ==
    /\ c.pc = "idle" <=> c.op = "none"
    /\ c.pc = "backfill" => c.op # "inspect"
    /\ c.pc \in {"list", "reconcile"} => c.op \in Listing
    /\ c.pc \in {"addgroup", "dropgroup", "rollback"} => c.op = "role"
    /\ c.pc = "readmember" => c.op \in Changing
    /\ c.pc = "savemember" => c.op \in Changing \cup {"role", "invite"}
    /\ c.pc = "grouping" => c.op = "invite"
    /\ c.pc \in {"issue", "index"} => c.op \in {"invite", "resend"}
    /\ c.pc = "pending" => c.op = "revoke"
    /\ c.pc = "revoking" => c.op \in {"resend", "revoke"}
    /\ c.pc \in {"limit", "count", "lookup", "expire"} => c.op \in {"accept", "inspect"}
    /\ c.pc \in {"claim", "join"} => c.op = "accept"
    /\ c.pc = "begin" => c.op \in Teamed
    /\ c.pc = "saveteam" => c.op \in {"removefrom", "rename"}
    /\ c.pc = "dropteam" => c.op = "delete"

(* ... and what an invocation has when it is there.                        *)
Before == {"backfill", "begin", "list", "reconcile"}
Has(c) ==
    /\ c.op \in Targeted => c.target \in User
    /\ c.op \in Teamed => c.team \in Team
    /\ c.op \in {"accept", "inspect"} \/ c.pc = "index" => c.invite \in Invite
    /\ c.op \in {"me", "accept"} \/ c.pc = "backfill" => c.actor \in User
    /\ c.pc = "reconcile" \/ (c.op = "delete" /\ c.pc \in {"readmember", "savemember"}) =>
          c.at \in User
    /\ c.pc \in {"backfill", "reconcile", "addgroup", "dropgroup", "savemember"} => c.doc \in Member
    /\ c.pc = "count" => c.count < Limit
    /\ c.found => c.target \in User
    /\ c.op \in {"role", "status", "resend", "revoke"} /\ c.pc \notin Before => c.found
Shape(c) == Belongs(c) /\ Has(c)
Shaped   == \A i \in Slot : Shape(call[i])

DirectoryInv == DirectoryTypeOK /\ Shaped

(* Nothing is known of a person without an account, who is not invited     *)
(* either; no account ever disappears.  What is about to be closed or      *)
(* accepted was issued.                                                    *)
Exists(u) == account[u].state # "none"
Issued(n) == invitation[n].state # "none"
SubjectOf(c) == CASE c.op = "me" -> c.actor
                  [] c.op = "delete" -> c.at
                  [] OTHER -> c.target
Known(c) ==
    /\ c.actor \in User => Exists(c.actor)
    /\ c.pc = "reconcile" => Exists(c.at)
    /\ c.found \/ (c.op = "invite" /\ c.pc \notin Before) => Exists(c.target)
    /\ c.pc = "savemember" => Exists(SubjectOf(c))
    /\ \A n \in c.pend : Issued(n)
    /\ c.pc \in {"expire", "claim"} => Issued(c.invite)
    /\ c.pc = "claim" => invitation[c.invite].email = c.actor
Present ==
    /\ \A u \in User : session[u] # "none" \/ member[u] # NoMember => Exists(u)
    /\ \A n \in Invite : Issued(n) => invitation[n].email \in User /\ Exists(invitation[n].email)
    /\ \A i \in Slot : Known(call[i])

(* Who has accepted an invitation has used it up.                          *)
Accepting ==
    \A n \in Invite : joins[n] <= 1 /\ (joins[n] = 1 => invitation[n].state \notin {"pending", "none"})

(* A request between the two steps of the limiter: what was admitted alone *)
(* when it read is on the counter it read, and nobody is beside it if it   *)
(* is alone.                                                               *)
Limiting ==
    /\ admitted <= counter
    /\ \A i \in Counting : admitted <= call[i].count /\ (call[i].alone => Counting = {i})

(* One reissue at a time: it has in hand whatever is open, and issues when *)
(* nothing is.                                                             *)
Issuing(c) == c.op \in {"invite", "resend"}
Clear(c)   == c.pc \in {"grouping", "issue"} \/ (c.pc = "savemember" /\ c.op = "invite")
Links(c)   == Issuing(c) => /\ c.pc = "revoking" => Pending(c.target) \subseteq c.pend
                            /\ Clear(c) => Pending(c.target) = {}
Linking ==
    contested \/
    /\ \A u \in User : \A m, n \in Pending(u) : m = n
    /\ \A i, j \in Slot : Issuing(call[i]) /\ Issuing(call[j]) => i = j
    /\ \A i \in Slot : Links(call[i])

(* One role change at a time: it leaves a group only from two.             *)
Moving     == {"addgroup", "dropgroup", "rollback"}
Changes(c) == c.op = "role"
Placed(c)  ==
    Changes(c) =>
       /\ c.found /\ c.pc # "savemember" => c.seen \in account[c.target].groups
       /\ c.pc \in Moving => c.seen # CoarseOf(c.next)
       /\ c.pc = "dropgroup" => CoarseOf(c.next) \in account[c.target].groups
Grouping ==
    contested \/
    /\ \A u \in User : account[u].state = "confirmed" => account[u].groups # {}
    /\ \A i, j \in Slot : Changes(call[i]) /\ Changes(call[j]) => i = j
    /\ \A i \in Slot : Placed(call[i])

(* Ownership comes from ownership or from a role change; one role change   *)
(* at a time, once decided, leaves another owner.                          *)
Decided(c) == Changes(c) /\ c.pc \in {"addgroup", "dropgroup", "savemember"}
Given(c) ==
    /\ c.op # "role" => c.next # "ORG_OWNER"
    /\ Decided(c) => c.doc.role = c.next
    /\ c.pc \in {"backfill", "reconcile", "savemember"} /\ ~Decided(c) =>
          (c.doc.role = "ORG_OWNER" => owned)
Granting ==
    /\ Owners # {} => owned
    /\ \A n \in Invite : invitation[n].role # "ORG_OWNER"
    /\ \A i \in Slot : Given(call[i])
Safe(c) == Decided(c) /\ c.next # "ORG_OWNER" /\ owned => \E u \in Owners : u # c.target
Owning ==
    /\ Granting
    /\ contested \/ lost # {} \/
          /\ owned => Owners # {}
          /\ \A i \in Slot : Safe(call[i])

(* One request at a time and none torn: where the two records of a team    *)
(* differ, whoever is at work is about to bring them together.             *)
Solo       == scope.inFlight = 1 /\ ~scope.crashes
TeamsOf(u) == IF member[u] = NoMember THEN {} ELSE member[u].teams
Joined(u)  == \E n \in Invite : joins[n] > 0 /\ invitation[n].email = u
MembersOf(t) == IF team[t] = NoTeam THEN {} ELSE team[t]
Agree(u, t)  == t \in TeamsOf(u) <=> u \in MembersOf(t)
Settling(c)  == c.pc \in {"readmember", "savemember"}
Closing(c)   == c.op = "delete" /\ (Settling(c) \/ c.pc = "dropteam")

(* What is left to do for u and t. *)
Differs(c, u, t) ==
    /\ c.team = t
    /\ \/ c.op \in {"addto", "removefrom"} /\ Settling(c) /\ u = c.target
       \/ Closing(c) /\ u \in MembersOf(t) \ c.todo

(* What a membership about to be written says of teams. *)
DocTeams(c) ==
    IF c.pc = "backfill" THEN TeamsOf(c.actor)
    ELSE IF c.pc = "reconcile" THEN TeamsOf(c.at)
    ELSE CASE c.op = "addto" -> TeamsOf(SubjectOf(c)) \cup {c.team}
           [] c.op \in {"removefrom", "delete"} -> TeamsOf(SubjectOf(c)) \ {c.team}
           [] OTHER -> TeamsOf(SubjectOf(c))
Carries(c) ==
    /\ c.pc \in {"backfill", "reconcile", "addgroup", "dropgroup", "savemember"} =>
          c.doc.teams = DocTeams(c)
    /\ c.op = "invite" /\ c.pc = "grouping" => member[c.target] = NoMember
    /\ c.pc = "join" => Joined(c.actor)

(* What a team request knows of its team. *)
Adds(c) ==
    c.op = "addto" =>
       /\ c.found /\ (c.pc = "reconcile" => c.at # c.target) => member[c.target] # NoMember
       /\ c.pc \in {"list", "reconcile"} => team[c.team] = c.members
       /\ Settling(c) => c.target \in MembersOf(c.team) /\ member[c.target] # NoMember
Removes(c) ==
    /\ c.pc = "saveteam" => team[c.team] = c.members
    /\ c.op = "removefrom" /\ Settling(c) => c.target \notin MembersOf(c.team)
Deletes(c) ==
    Closing(c) => /\ Settling(c) => c.at \notin c.todo
                  /\ \A u \in MembersOf(c.team) \ c.todo :
                        (Settling(c) /\ u = c.at) \/ Joined(u) \/ c.team \notin TeamsOf(u)
AtWork(c) == Carries(c) /\ Adds(c) /\ Removes(c) /\ Deletes(c)

Settled(u, t) == Joined(u) \/ Agree(u, t)
Teaming ==
    Solo =>
       /\ \A i, j \in Busy : i = j
       /\ \A i \in Slot : AtWork(call[i])
       /\ \A u \in User, t \in Team : Settled(u, t) \/ \E i \in Slot : Differs(call[i], u, t)

(***************************************************************************)
(* Roles, groups and memberships                                           *)
(***************************************************************************)
LEMMA Ranks ==
    /\ \A g \in Invitable : DefaultRole(g) \in {"ORG_ADMIN", "OPERATOR"}
    /\ \A g \in Invitable : DefaultRole(g) \in CustomerRoles /\ DefaultRole(g) # "ORG_OWNER"
    /\ \A r \in CustomerRoles : CoarseOf(r) \in Invitable
BY DEF Invitable, DefaultRole, CustomerRoles, CoarseOf

LEMMA Strongest ==
    ASSUME NEW G \in SUBSET Invitable, G # {}
    PROVE  GroupOf(G) \in G /\ GroupOf(G) \in Invitable
BY DEF Invitable, GroupOf

LEMMA MemberFields ==
    ASSUME NEW m \in Member
    PROVE  m.role \in CustomerRoles /\ m.teams \subseteq Team /\ m # NoMember
BY NoMemberAssumption DEF Member

(* What a role is written back as. *)
LEMMA BackfillMakes ==
    ASSUME NEW m \in Member \cup {NoMember}, NEW g \in Invitable
    PROVE  /\ Backfilled(m, g) \in Member
           /\ Backfilled(m, g).role \in {"ORG_ADMIN", "OPERATOR"}
           /\ Backfilled(m, g).teams = IF m = NoMember THEN {} ELSE m.teams
<1>1. CASE m = NoMember
  BY <1>1, Ranks DEF Backfilled, Member
<1>2. CASE m # NoMember
  BY <1>2, Ranks DEF Backfilled, Member
<1>3. QED  BY <1>1, <1>2

LEMMA UserFields ==
    ASSUME DirectoryInv, NEW u \in User
    PROVE  /\ account[u] \in Account /\ account[u].state \in {"none", "challenged", "confirmed"}
           /\ account[u].groups \subseteq Invitable
           /\ member[u] \in Member \cup {NoMember}
           /\ session[u] \in Invitable \cup {"none"}
BY DEF DirectoryInv, DirectoryTypeOK, Account

LEMMA ReconcileMakes ==
    ASSUME DirectoryInv, NEW v \in Listed
    PROVE  /\ v \in User /\ Exists(v) /\ GroupOf(account[v].groups) \in account[v].groups
           /\ GroupOf(account[v].groups) \in Invitable
           /\ Reconciled(v) \in Member
           /\ Reconciled(v).teams = TeamsOf(v)
           /\ Reconciled(v).role = "ORG_OWNER" => v \in Owners
<1> DEFINE g == GroupOf(account[v].groups)
           m == IF Resolves(member[v], g) THEN member[v] ELSE Backfilled(member[v], g)
<1>1. v \in User /\ Exists(v) /\ g \in account[v].groups /\ g \in Invitable
  BY UserFields, Strongest DEF Listed, Exists
<1>2. member[v] \in Member \cup {NoMember}
  BY <1>1, UserFields
<1>3. CASE Resolves(member[v], g)
  <2>1. member[v] \in Member /\ m = member[v] /\ StatusOf(v) \in {"active", "invited", "deactivated"}
    BY <1>2, <1>3 DEF Resolves, StatusOf
  <2>2. Reconciled(v) = [m EXCEPT !.status = StatusOf(v)]
    BY DEF Reconciled
  <2> HIDE DEF m, g
  <2>3. /\ Reconciled(v) \in Member /\ Reconciled(v).role = member[v].role
        /\ Reconciled(v).teams = member[v].teams
    BY <2>1, <2>2 DEF Member
  <2>4. QED  BY <1>1, <2>1, <2>3, MemberFields DEF TeamsOf, Owners, g
<1>4. CASE ~Resolves(member[v], g)
  <2>1. /\ m \in Member /\ m.role \in {"ORG_ADMIN", "OPERATOR"} /\ m.teams = TeamsOf(v)
        /\ StatusOf(v) \in {"active", "invited", "deactivated"}
    BY <1>1, <1>2, <1>4, BackfillMakes DEF StatusOf, TeamsOf
  <2>2. Reconciled(v) = [m EXCEPT !.status = StatusOf(v)]
    BY DEF Reconciled
  <2> HIDE DEF m, g
  <2>3. Reconciled(v) \in Member /\ Reconciled(v).role = m.role /\ Reconciled(v).teams = m.teams
    BY <2>1, <2>2 DEF Member
  <2>4. QED  BY <1>1, <2>1, <2>3 DEF g
<1>5. QED  BY <1>3, <1>4

(***************************************************************************)
(* Types                                                                   *)
(***************************************************************************)
LEMMA AtRest == Idle \in Call /\ Shape(Idle)
<1>1. "OPERATOR" \in CustomerRoles /\ "FRONTLINE" \in Invitable /\ 0 \in 0..Limit
  BY DirectoryAssumption DEF CustomerRoles, Invitable
<1>2. Idle \in Call
  BY <1>1 DEF Idle, Call
<1>3. Shape(Idle)
  BY DEF Idle, Shape, Belongs, Has, Targeted, Teamed, Before
<1>4. QED  BY <1>2, <1>3

LEMMA IdleFields ==
    /\ Idle.op = "none" /\ Idle.pc = "idle" /\ Idle.actor = NoUser /\ Idle.target = NoUser
    /\ Idle.next = "OPERATOR" /\ Idle.found = FALSE /\ Idle.doc = NoMember /\ Idle.pend = {}
    /\ Idle.at = NoUser /\ NoUser \notin User
BY DirectoryAssumption DEF Idle

LEMMA IsCall == ASSUME DirectoryInv, NEW i \in Slot PROVE call[i] \in Call
BY DEF DirectoryInv, DirectoryTypeOK

LEMMA CallFields ==
    ASSUME DirectoryInv, NEW i \in Slot
    PROVE  /\ call[i] \in Call /\ Shape(call[i]) /\ Belongs(call[i]) /\ Has(call[i])
           /\ call[i].actor \in User \cup {NoUser} /\ call[i].target \in User \cup {NoUser}
           /\ call[i].at \in User \cup {NoUser}
           /\ call[i].todo \subseteq User /\ call[i].next \in CustomerRoles
           /\ call[i].seen \in Invitable /\ call[i].found \in BOOLEAN /\ call[i].on \in BOOLEAN
           /\ call[i].doc \in Member \cup {NoMember} /\ call[i].pend \subseteq Invite
           /\ call[i].invite \in Invite \cup {NoInvite} /\ call[i].team \in Team \cup {NoTeam}
           /\ call[i].members \subseteq User /\ call[i].count \in 0..Limit
           /\ call[i].alone \in BOOLEAN
BY DEF DirectoryInv, DirectoryTypeOK, Shaped, Shape, Call

(* What becomes of a call when some of its fields are written.             *)
Points == {"idle", "backfill", "begin", "list", "reconcile", "addgroup", "dropgroup",
           "rollback", "readmember", "savemember", "grouping", "issue", "index", "pending",
           "revoking", "limit", "count", "lookup", "expire", "claim", "join", "saveteam", "dropteam"}
WithPc(c, pc) == [c EXCEPT !.pc = pc]
WithDoc(c, pc, doc) == [c EXCEPT !.pc = pc, !.doc = doc]
WithFound(c, todo, seen, found) == [c EXCEPT !.todo = todo, !.seen = seen, !.found = found]
WithBack(c, at, doc, pc) == [c EXCEPT !.at = at, !.doc = doc, !.pc = pc]
WithPend(c, pc, pend, next) == [c EXCEPT !.pc = pc, !.pend = pend, !.next = next]
WithLeft(c, pend) == [c EXCEPT !.pend = pend]
WithInvite(c, pc, invite) == [c EXCEPT !.pc = pc, !.invite = invite]
WithCount(c, pc, count, alone) == [c EXCEPT !.pc = pc, !.count = count, !.alone = alone]
WithAlone(c, alone) == [c EXCEPT !.alone = alone]
WithNext(c, pc, next) == [c EXCEPT !.pc = pc, !.next = next]
WithTeam(c, members, todo, pc) == [c EXCEPT !.members = members, !.todo = todo, !.pc = pc]
WithAt(c, pc, at, todo) == [c EXCEPT !.pc = pc, !.at = at, !.todo = todo]

(* What an invocation keeps of what it was asked, found out and carries.   *)
Core(c, N)  == /\ N.op = c.op /\ N.actor = c.actor /\ N.target = c.target /\ N.team = c.team
               /\ N.invite = c.invite
Mind(c, N)  == N.next = c.next /\ N.seen = c.seen /\ N.found = c.found /\ N.on = c.on
Load(c, N)  == N.pend = c.pend /\ N.members = c.members /\ N.at = c.at /\ N.todo = c.todo
Meter(c, N) == N.count = c.count /\ N.alone = c.alone

LEMMA PcSet ==
    ASSUME NEW c \in Call, NEW pc \in Points
    PROVE  LET N == WithPc(c, pc)
           IN  /\ N \in Call /\ N.pc = pc /\ N.doc = c.doc /\ Core(c, N) /\ Mind(c, N)
               /\ Load(c, N) /\ Meter(c, N)
<1>1. ASSUME NEW N, N = [c EXCEPT !.pc = pc]
      PROVE  /\ N \in Call /\ N.pc = pc /\ N.doc = c.doc /\ Core(c, N) /\ Mind(c, N)
             /\ Load(c, N) /\ Meter(c, N)
  BY <1>1 DEF Call, Points, Core, Mind, Load, Meter
<1>2. QED  BY <1>1 DEF WithPc

LEMMA DocSet ==
    ASSUME NEW c \in Call, NEW pc \in Points, NEW doc \in Member \cup {NoMember}
    PROVE  LET N == WithDoc(c, pc, doc)
           IN  /\ N \in Call /\ N.pc = pc /\ N.doc = doc /\ Core(c, N) /\ Mind(c, N)
               /\ Load(c, N) /\ Meter(c, N)
<1>1. ASSUME NEW N, N = [c EXCEPT !.pc = pc, !.doc = doc]
      PROVE  /\ N \in Call /\ N.pc = pc /\ N.doc = doc /\ Core(c, N) /\ Mind(c, N)
             /\ Load(c, N) /\ Meter(c, N)
  BY <1>1 DEF Call, Points, Core, Mind, Load, Meter
<1>2. QED  BY <1>1 DEF WithDoc

LEMMA FoundSet ==
    ASSUME NEW c \in Call, NEW todo \in SUBSET User, NEW seen \in Invitable,
           NEW found \in BOOLEAN
    PROVE  LET N == WithFound(c, todo, seen, found)
           IN  /\ N \in Call /\ N.todo = todo /\ N.seen = seen /\ N.found = found
               /\ N.doc = c.doc /\ N.pc = c.pc /\ Core(c, N) /\ N.next = c.next
               /\ N.on = c.on /\ N.pend = c.pend /\ N.members = c.members /\ N.at = c.at
               /\ Meter(c, N)
<1>1. ASSUME NEW N, N = [c EXCEPT !.todo = todo, !.seen = seen, !.found = found]
      PROVE  /\ N \in Call /\ N.todo = todo /\ N.seen = seen /\ N.found = found
             /\ N.doc = c.doc /\ N.pc = c.pc /\ Core(c, N) /\ N.next = c.next /\ N.on = c.on
             /\ N.pend = c.pend /\ N.members = c.members /\ N.at = c.at /\ Meter(c, N)
  BY <1>1 DEF Call, Points, Core, Mind, Load, Meter
<1>2. QED  BY <1>1 DEF WithFound

LEMMA BackSet ==
    ASSUME NEW c \in Call, NEW at \in User \cup {NoUser}, NEW doc \in Member \cup {NoMember},
           NEW pc \in Points
    PROVE  LET N == WithBack(c, at, doc, pc)
           IN  /\ N \in Call /\ N.at = at /\ N.doc = doc /\ N.pc = pc /\ Core(c, N)
               /\ Mind(c, N) /\ N.pend = c.pend /\ N.members = c.members /\ N.todo = c.todo
               /\ Meter(c, N)
<1>1. ASSUME NEW N, N = [c EXCEPT !.at = at, !.doc = doc, !.pc = pc]
      PROVE  /\ N \in Call /\ N.at = at /\ N.doc = doc /\ N.pc = pc /\ Core(c, N)
             /\ Mind(c, N) /\ N.pend = c.pend /\ N.members = c.members /\ N.todo = c.todo
             /\ Meter(c, N)
  BY <1>1 DEF Call, Points, Core, Mind, Load, Meter
<1>2. QED  BY <1>1 DEF WithBack

LEMMA PendSet ==
    ASSUME NEW c \in Call, NEW pc \in Points, NEW pend \in SUBSET Invite,
           NEW next \in CustomerRoles
    PROVE  LET N == WithPend(c, pc, pend, next)
           IN  /\ N \in Call /\ N.pc = pc /\ N.pend = pend /\ N.next = next /\ N.doc = c.doc
               /\ Core(c, N) /\ N.seen = c.seen /\ N.found = c.found /\ N.on = c.on
               /\ N.members = c.members /\ N.at = c.at /\ N.todo = c.todo /\ Meter(c, N)
<1>1. ASSUME NEW N, N = [c EXCEPT !.pc = pc, !.pend = pend, !.next = next]
      PROVE  /\ N \in Call /\ N.pc = pc /\ N.pend = pend /\ N.next = next /\ N.doc = c.doc
             /\ Core(c, N) /\ N.seen = c.seen /\ N.found = c.found /\ N.on = c.on
             /\ N.members = c.members /\ N.at = c.at /\ N.todo = c.todo /\ Meter(c, N)
  BY <1>1 DEF Call, Points, Core, Mind, Load, Meter
<1>2. QED  BY <1>1 DEF WithPend

LEMMA LeftSet ==
    ASSUME NEW c \in Call, NEW pend \in SUBSET Invite
    PROVE  LET N == WithLeft(c, pend)
           IN  /\ N \in Call /\ N.pend = pend /\ N.doc = c.doc /\ N.pc = c.pc /\ Core(c, N)
               /\ Mind(c, N) /\ N.members = c.members /\ N.at = c.at /\ N.todo = c.todo
               /\ Meter(c, N)
<1>1. ASSUME NEW N, N = [c EXCEPT !.pend = pend]
      PROVE  /\ N \in Call /\ N.pend = pend /\ N.doc = c.doc /\ N.pc = c.pc /\ Core(c, N)
             /\ Mind(c, N) /\ N.members = c.members /\ N.at = c.at /\ N.todo = c.todo
             /\ Meter(c, N)
  BY <1>1 DEF Call, Points, Core, Mind, Load, Meter
<1>2. QED  BY <1>1 DEF WithLeft

LEMMA InviteSet ==
    ASSUME NEW c \in Call, NEW pc \in Points, NEW invite \in Invite \cup {NoInvite}
    PROVE  LET N == WithInvite(c, pc, invite)
           IN  /\ N \in Call /\ N.pc = pc /\ N.invite = invite /\ N.doc = c.doc
               /\ N.op = c.op /\ N.actor = c.actor /\ N.target = c.target /\ N.team = c.team
               /\ Mind(c, N) /\ Load(c, N) /\ Meter(c, N)
<1>1. ASSUME NEW N, N = [c EXCEPT !.pc = pc, !.invite = invite]
      PROVE  /\ N \in Call /\ N.pc = pc /\ N.invite = invite /\ N.doc = c.doc /\ N.op = c.op
             /\ N.actor = c.actor /\ N.target = c.target /\ N.team = c.team /\ Mind(c, N)
             /\ Load(c, N) /\ Meter(c, N)
  BY <1>1 DEF Call, Points, Core, Mind, Load, Meter
<1>2. QED  BY <1>1 DEF WithInvite

LEMMA CountSet ==
    ASSUME NEW c \in Call, NEW pc \in Points, NEW count \in 0..Limit,
           NEW alone \in BOOLEAN
    PROVE  LET N == WithCount(c, pc, count, alone)
           IN  /\ N \in Call /\ N.pc = pc /\ N.count = count /\ N.alone = alone
               /\ N.doc = c.doc /\ Core(c, N) /\ Mind(c, N) /\ Load(c, N)
<1>1. ASSUME NEW N, N = [c EXCEPT !.pc = pc, !.count = count, !.alone = alone]
      PROVE  /\ N \in Call /\ N.pc = pc /\ N.count = count /\ N.alone = alone
             /\ N.doc = c.doc /\ Core(c, N) /\ Mind(c, N) /\ Load(c, N)
  BY <1>1 DEF Call, Points, Core, Mind, Load, Meter
<1>2. QED  BY <1>1 DEF WithCount

LEMMA AloneSet ==
    ASSUME NEW c \in Call, NEW alone \in BOOLEAN
    PROVE  LET N == WithAlone(c, alone)
           IN  /\ N \in Call /\ N.alone = alone /\ N.doc = c.doc /\ N.pc = c.pc
               /\ Core(c, N) /\ Mind(c, N) /\ Load(c, N) /\ N.count = c.count
<1>1. ASSUME NEW N, N = [c EXCEPT !.alone = alone]
      PROVE  /\ N \in Call /\ N.alone = alone /\ N.doc = c.doc /\ N.pc = c.pc /\ Core(c, N)
             /\ Mind(c, N) /\ Load(c, N) /\ N.count = c.count
  BY <1>1 DEF Call, Points, Core, Mind, Load, Meter
<1>2. QED  BY <1>1 DEF WithAlone

LEMMA NextSet ==
    ASSUME NEW c \in Call, NEW pc \in Points, NEW next \in CustomerRoles
    PROVE  LET N == WithNext(c, pc, next)
           IN  /\ N \in Call /\ N.pc = pc /\ N.next = next /\ N.doc = c.doc /\ Core(c, N)
               /\ N.seen = c.seen /\ N.found = c.found /\ N.on = c.on /\ Load(c, N)
               /\ Meter(c, N)
<1>1. ASSUME NEW N, N = [c EXCEPT !.pc = pc, !.next = next]
      PROVE  /\ N \in Call /\ N.pc = pc /\ N.next = next /\ N.doc = c.doc /\ Core(c, N)
             /\ N.seen = c.seen /\ N.found = c.found /\ N.on = c.on /\ Load(c, N)
             /\ Meter(c, N)
  BY <1>1 DEF Call, Points, Core, Mind, Load, Meter
<1>2. QED  BY <1>1 DEF WithNext

LEMMA TeamSet ==
    ASSUME NEW c \in Call, NEW members \in SUBSET User, NEW todo \in SUBSET User,
           NEW pc \in Points
    PROVE  LET N == WithTeam(c, members, todo, pc)
           IN  /\ N \in Call /\ N.members = members /\ N.todo = todo /\ N.pc = pc
               /\ N.doc = c.doc /\ Core(c, N) /\ Mind(c, N) /\ N.pend = c.pend
               /\ N.at = c.at /\ Meter(c, N)
<1>1. ASSUME NEW N, N = [c EXCEPT !.members = members, !.todo = todo, !.pc = pc]
      PROVE  /\ N \in Call /\ N.members = members /\ N.todo = todo /\ N.pc = pc
             /\ N.doc = c.doc /\ Core(c, N) /\ Mind(c, N) /\ N.pend = c.pend /\ N.at = c.at
             /\ Meter(c, N)
  BY <1>1 DEF Call, Points, Core, Mind, Load, Meter
<1>2. QED  BY <1>1 DEF WithTeam

LEMMA AtSet ==
    ASSUME NEW c \in Call, NEW pc \in Points, NEW at \in User \cup {NoUser},
           NEW todo \in SUBSET User
    PROVE  LET N == WithAt(c, pc, at, todo)
           IN  /\ N \in Call /\ N.pc = pc /\ N.at = at /\ N.todo = todo /\ N.doc = c.doc
               /\ Core(c, N) /\ Mind(c, N) /\ N.pend = c.pend /\ N.members = c.members
               /\ Meter(c, N)
<1>1. ASSUME NEW N, N = [c EXCEPT !.pc = pc, !.at = at, !.todo = todo]
      PROVE  /\ N \in Call /\ N.pc = pc /\ N.at = at /\ N.todo = todo /\ N.doc = c.doc
             /\ Core(c, N) /\ Mind(c, N) /\ N.pend = c.pend /\ N.members = c.members
             /\ Meter(c, N)
  BY <1>1 DEF Call, Points, Core, Mind, Load, Meter
<1>2. QED  BY <1>1 DEF WithAt


(* One invocation goes on, the others do not. *)
Goes(i, N) == N \in Call /\ Shape(N) /\ call' = [call EXCEPT ![i] = N]

LEMMA Moves ==
    ASSUME DirectoryInv, NEW i \in Slot, NEW N, Goes(i, N)
    PROVE  /\ call' \in [Slot -> Call] /\ Shaped' /\ call'[i] = N
           /\ \A j \in Slot \ {i} : call'[j] = call[j]
<1>1. call \in [Slot -> Call]
  BY DEF DirectoryInv, DirectoryTypeOK
<1>2. call' \in [Slot -> Call] /\ call'[i] = N /\ \A j \in Slot \ {i} : call'[j] = call[j]
  BY <1>1 DEF Goes
<1>3. \A j \in Slot : Shape(call'[j])
  <2> SUFFICES ASSUME NEW j \in Slot PROVE Shape(call'[j])
    OBVIOUS
  <2>1. CASE j = i
    BY <1>2, <2>1 DEF Goes
  <2>2. CASE j # i
    BY <1>2, <2>2, CallFields
  <2>3. QED  BY <2>1, <2>2
<1>4. QED  BY <1>2, <1>3 DEF Shaped

LEMMA ReturnGoes ==
    ASSUME DirectoryInv, NEW i \in Slot, Return(i)
    PROVE  Goes(i, Idle)
BY AtRest DEF Return, Goes

(* An invocation goes to another point with what it has. *)
Turns(i, pc, N) ==
    /\ N \in Call /\ N.pc = pc /\ N.doc = call[i].doc
    /\ Core(call[i], N) /\ Mind(call[i], N) /\ Load(call[i], N) /\ Meter(call[i], N)

LEMMA GotoTurns ==
    ASSUME DirectoryInv, NEW i \in Slot, NEW pc \in Points, Goto(i, pc)
    PROVE  \E N \in Call : Turns(i, pc, N) /\ call' = [call EXCEPT ![i] = N]
<1>1. call' = [call EXCEPT ![i] = WithPc(call[i], pc)]
  BY DEF Goto, WithPc, DirectoryInv, DirectoryTypeOK
<1>2. Turns(i, pc, WithPc(call[i], pc))
  BY IsCall, PcSet DEF Turns, Core, Mind, Load, Meter
<1>3. QED  BY <1>1, <1>2 DEF Turns

(* An invocation ends and writes nothing. *)
Ends(i) == Return(i) /\ UNCHANGED <<fixed, tables, history>>

(***************************************************************************)
(* What each action does to its invocation                                 *)
(***************************************************************************)
(* A request as it is asked.                                               *)
Plain(c, op) ==
    /\ c \in Call /\ c.found = FALSE /\ c.pend = {} /\ op \in Ops \ {"inspect"}
    /\ op \in Targeted => c.target \in User
    /\ op \in Teamed => c.team \in Team
    /\ op = "accept" => c.invite \in Invite
    /\ op # "role" => c.next # "ORG_OWNER"

LEMMA RequestIsPlain ==
    ASSUME DirectoryInv, NEW i \in Slot, NEW u \in User \cup {NoUser}, Request(i, u)
    PROVE  \E op \in Ops, c \in Call :
              Plain(c, op) /\ Asks(i, u, op, c) /\ (op \in {"me", "accept"} => u \in User)
<1>1. scope.about \subseteq User /\ scope.roles \subseteq CustomerRoles
  BY DEF DirectoryInv, DirectoryTypeOK, Scope
<1>2. CASE u # NoUser /\ Asks(i, u, "me", Idle)
  BY <1>2, AtRest, IdleFields DEF Plain, Ops, Targeted, Teamed
<1>3. CASE Asks(i, u, "list", Idle)
  BY <1>3, AtRest, IdleFields DEF Plain, Ops, Targeted, Teamed
<1>5. ASSUME NEW v \in scope.about, NEW r \in scope.roles,
             Asks(i, u, "role", [Idle EXCEPT !.target = v, !.next = r])
      PROVE  \E c \in Call : Plain(c, "role") /\ Asks(i, u, "role", c)
  <2> DEFINE c == [Idle EXCEPT !.target = v, !.next = r]
  <2>1. c \in Call /\ c.target = v /\ c.found = FALSE /\ c.pend = {}
    BY <1>1, AtRest DEF Call, Idle
  <2>2. QED  BY <1>1, <1>5, <2>1 DEF Plain, Ops, Targeted, Teamed
<1>6. ASSUME NEW v \in scope.about, NEW on \in BOOLEAN,
             Asks(i, u, "status", [Idle EXCEPT !.target = v, !.on = on])
      PROVE  \E c \in Call : Plain(c, "status") /\ Asks(i, u, "status", c)
  <2> DEFINE c == [Idle EXCEPT !.target = v, !.on = on]
  <2>1. c \in Call /\ c.target = v /\ c.found = FALSE /\ c.pend = {} /\ c.next = "OPERATOR"
    BY <1>1, AtRest DEF Call, Idle
  <2>2. QED  BY <1>1, <1>6, <2>1 DEF Plain, Ops, Targeted, Teamed
<1>7. ASSUME NEW v \in scope.about, NEW g \in Invitable,
             Asks(i, u, "invite", [Idle EXCEPT !.target = v, !.next = DefaultRole(g)])
      PROVE  \E c \in Call : Plain(c, "invite") /\ Asks(i, u, "invite", c)
  <2> DEFINE c == [Idle EXCEPT !.target = v, !.next = DefaultRole(g)]
  <2>1. c \in Call /\ c.target = v /\ c.found = FALSE /\ c.pend = {} /\ c.next = DefaultRole(g)
    BY <1>1, AtRest, Ranks DEF Call, Idle
  <2>2. QED  BY <1>1, <1>7, <2>1, Ranks DEF Plain, Ops, Targeted, Teamed
<1>8. ASSUME NEW v \in scope.about, NEW op \in {"resend", "revoke"},
             Asks(i, u, op, [Idle EXCEPT !.target = v])
      PROVE  \E c \in Call : Plain(c, op) /\ Asks(i, u, op, c)
  <2> DEFINE c == [Idle EXCEPT !.target = v]
  <2>1. c \in Call /\ c.target = v /\ c.found = FALSE /\ c.pend = {} /\ c.next = "OPERATOR"
    BY <1>1, AtRest DEF Call, Idle
  <2>2. QED  BY <1>1, <1>8, <2>1 DEF Plain, Ops, Targeted, Teamed
<1>9. ASSUME NEW n \in Invite, u # NoUser, Asks(i, u, "accept", [Idle EXCEPT !.invite = n])
      PROVE  \E c \in Call : Plain(c, "accept") /\ Asks(i, u, "accept", c)
  <2> DEFINE c == [Idle EXCEPT !.invite = n]
  <2>1. c \in Call /\ c.invite = n /\ c.found = FALSE /\ c.pend = {} /\ c.next = "OPERATOR"
    BY AtRest DEF Call, Idle
  <2>2. QED  BY <1>9, <2>1 DEF Plain, Ops, Targeted, Teamed
<1>10. ASSUME NEW t \in Team, NEW op \in {"newteam", "rename", "delete"},
              Asks(i, u, op, [Idle EXCEPT !.team = t])
       PROVE  \E c \in Call : Plain(c, op) /\ Asks(i, u, op, c)
  <2> DEFINE c == [Idle EXCEPT !.team = t]
  <2>1. c \in Call /\ c.team = t /\ c.found = FALSE /\ c.pend = {} /\ c.next = "OPERATOR"
    BY AtRest DEF Call, Idle
  <2>2. QED  BY <1>10, <2>1 DEF Plain, Ops, Targeted, Teamed
<1>11. ASSUME NEW t \in Team, NEW v \in scope.about, NEW op \in {"addto", "removefrom"},
              Asks(i, u, op, [Idle EXCEPT !.team = t, !.target = v])
       PROVE  \E c \in Call : Plain(c, op) /\ Asks(i, u, op, c)
  <2> DEFINE c == [Idle EXCEPT !.team = t, !.target = v]
  <2>1. c \in Call /\ c.team = t /\ c.target = v /\ c.found = FALSE /\ c.pend = {} /\ c.next = "OPERATOR"
    BY <1>1, AtRest DEF Call, Idle
  <2>2. QED  BY <1>1, <1>11, <2>1 DEF Plain, Ops, Targeted, Teamed
<1>12. QED
  BY <1>2, <1>3, <1>5, <1>6, <1>7, <1>8, <1>9, <1>10, <1>11 DEF Request, Ops

LEMMA FreeIsIdle == ASSUME NEW i \in Slot, Free(i) PROVE call[i].pc = "idle"
BY DEF Free, Busy

(* ... and as it goes on: a token that names a group the role is not       *)
(* reached from first writes the role back.                                *)
Starts(u, op, c, N) ==
    /\ N.op = op /\ N.actor = u /\ N.target = c.target /\ N.next = c.next
    /\ N.found = FALSE /\ N.pend = {} /\ N.pc \in {"backfill", First(op)}
    /\ N.pc = "backfill" => u \in User /\ N.doc = Backfilled(member[u], session[u])
                              /\ session[u] \in Invitable

LEMMA AsksGoes ==
    ASSUME DirectoryInv, NEW i \in Slot, NEW u \in User \cup {NoUser}, NEW op \in Ops, NEW c \in Call,
           Plain(c, op), Asks(i, u, op, c), op \in {"me", "accept"} => u \in User
    PROVE  \E N \in Call : Goes(i, N) /\ Starts(u, op, c, N)
<1>1. PICK todo \in SUBSET User, pc \in {"backfill", First(op)}, doc \in Member \cup {NoMember} :
        /\ call' = [call EXCEPT ![i] = [c EXCEPT !.op = op, !.actor = u, !.todo = todo,
                                                 !.pc = pc, !.doc = doc]]
        /\ pc = "backfill" => u \in User /\ session[u] \in Invitable /\ doc \in Member
                                /\ doc = Backfilled(member[u], session[u])
  <2> DEFINE settled == u = NoUser \/ Resolves(member[u], session[u])
             T == IF First(op) = "list" THEN Listed ELSE {}
             D == IF settled THEN NoMember ELSE Backfilled(member[u], session[u])
             P == IF settled THEN First(op) ELSE "backfill"
  <2>1. ~settled => u \in User /\ session[u] \in Invitable /\ Backfilled(member[u], session[u]) \in Member
    <3>1. u \in User => session[u] \in Invitable
      BY UserFields, DirectoryAssumption DEF Asks
    <3>2. QED  BY <3>1, UserFields, BackfillMakes
  <2>2. T \in SUBSET User
    BY DEF Listed
  <2>3. P \in {"backfill", First(op)} /\ D \in Member \cup {NoMember}
    BY <2>1
  <2>4. P = "backfill" => ~settled
    BY DEF First
  <2>5. call' = [call EXCEPT ![i] = [c EXCEPT !.op = op, !.actor = u, !.todo = T, !.pc = P, !.doc = D]]
    BY DEF Asks
  <2>6. ~settled => D = Backfilled(member[u], session[u])
    OBVIOUS
  <2> HIDE DEF T, P, D, settled
  <2>7. QED  BY <2>1, <2>2, <2>3, <2>4, <2>5, <2>6
<1>2. First(op) \in {"readmember", "limit", "begin", "list"}
  BY DEF First
<1> DEFINE N == [c EXCEPT !.op = op, !.actor = u, !.todo = todo, !.pc = pc, !.doc = doc]
<1>3. N \in Call
  <2>1. pc \in {"backfill", "readmember", "limit", "begin", "list"}
    BY <1>2
  <2>2. QED  BY <2>1 DEF Call
<1>4. /\ N.op = op /\ N.actor = u /\ N.target = c.target /\ N.next = c.next
      /\ N.found = FALSE /\ N.pend = {} /\ N.team = c.team /\ N.invite = c.invite
      /\ N.pc = pc /\ N.doc = doc
  BY DEF Plain, Call
<1>5. call' = [call EXCEPT ![i] = N]
  BY <1>1
<1> HIDE DEF N
<1>6. Belongs(N)
  BY <1>4 DEF Belongs, First, Plain, Ops, Listing, Changing, Teamed
<1>7. Has(N)
  <2>1. N.pc \in {"backfill", "begin", "list", "readmember", "limit"} /\ (N.pc = "readmember" <=> N.op = "me" /\ N.pc # "backfill")
    BY <1>4, <1>2 DEF Before, First, Ops, Plain
  <2>2. N.pc \notin Before => N.op \in {"me", "accept"}
    BY <1>4, <1>2 DEF Before, First, Ops, Plain
  <2>3. N.op \in {"me", "accept"} \/ N.pc = "backfill" => N.actor \in User
    BY <1>1, <1>4
  <2>4. N.pc = "backfill" => N.doc \in Member
    BY <1>1, <1>4
  <2>5. /\ N.op \in Targeted => N.target \in User
        /\ N.op \in Teamed => N.team \in Team
        /\ N.op \in {"accept", "inspect"} => N.invite \in Invite
    BY <1>4 DEF Plain
  <2>6. QED  BY <1>4, <2>1, <2>2, <2>3, <2>4, <2>5 DEF Has, Before
<1>8. Starts(u, op, c, N)
  BY <1>1, <1>4 DEF Starts
<1>9. QED  BY <1>3, <1>5, <1>6, <1>7, <1>8 DEF Goes, Shape

LEMMA RequestGoes ==
    ASSUME DirectoryInv, NEW i \in Slot, NEW u \in User \cup {NoUser}, Request(i, u)
    PROVE  \E op \in Ops \ {"inspect"}, c, N \in Call :
              /\ Asks(i, u, op, c) /\ Goes(i, N) /\ N.op = op /\ N.actor = u
              /\ N.found = FALSE /\ N.pend = {} /\ N.pc \in {"readmember", "limit"} \cup Before
              /\ N.pc # "reconcile" /\ (N.pc = "backfill" \/ N.pc = First(op))
              /\ (op # "role" => N.next # "ORG_OWNER")
              /\ (N.pc = "backfill" => u \in User /\ N.doc = Backfilled(member[u], session[u])
                                          /\ session[u] \in Invitable)
<1>1. PICK op \in Ops, c \in Call :
         Plain(c, op) /\ Asks(i, u, op, c) /\ (op \in {"me", "accept"} => u \in User)
  BY RequestIsPlain
<1>2. PICK N \in Call : Goes(i, N) /\ Starts(u, op, c, N)
  BY <1>1, AsksGoes
<1>3. First(op) \in {"readmember", "limit", "begin", "list"}
  BY DEF First
<1>4. op # "inspect" /\ (op # "role" => N.next # "ORG_OWNER")
  BY <1>1, <1>2 DEF Plain, Starts
<1>5. /\ N.pc \in {"readmember", "limit"} \cup Before /\ N.pc # "reconcile"
      /\ N.pc = "backfill" \/ N.pc = First(op)
  BY <1>2, <1>3 DEF Before, Starts
<1>6. /\ N.op = op /\ N.actor = u /\ N.found = FALSE /\ N.pend = {}
      /\ N.pc = "backfill" => u \in User /\ N.doc = Backfilled(member[u], session[u])
                                /\ session[u] \in Invitable
  BY <1>2 DEF Starts
<1>7. Goes(i, N)
  BY <1>2
<1>8. QED  BY <1>1, <1>4, <1>5, <1>6, <1>7

LEMMA InspectsGoes ==
    ASSUME DirectoryInv, NEW i \in Slot, NEW n \in Invite, Inspects(i, n)
    PROVE  \E N \in Call : /\ Goes(i, N) /\ N.op = "inspect" /\ N.pc = "limit" /\ N.actor = NoUser
                           /\ N.found = FALSE /\ N.pend = {} /\ N.next # "ORG_OWNER"
<1> DEFINE N == [Idle EXCEPT !.op = "inspect", !.pc = "limit", !.invite = n]
<1>1. N \in Call
  BY AtRest DEF Call, Ops
<1>2. /\ N.op = "inspect" /\ N.pc = "limit" /\ N.actor = NoUser /\ N.found = FALSE /\ N.pend = {}
      /\ N.next = "OPERATOR" /\ N.invite = n
  BY DEF Idle
<1>3. call' = [call EXCEPT ![i] = N]
  BY DEF Inspects
<1> HIDE DEF N
<1>4. Shape(N)
  BY <1>2 DEF Shape, Belongs, Has, Targeted, Teamed, Listing, Changing, Before
<1>5. QED  BY <1>1, <1>2, <1>3, <1>4 DEF Goes

LEMMA BackfillsGoes ==
    ASSUME DirectoryInv, NEW i \in Slot, Backfills(i)
    PROVE  /\ call[i].actor \in User /\ call[i].doc \in Member /\ call[i].pc = "backfill"
           /\ Writes(call[i].actor, call[i].doc, "me")
           /\ \E N \in Call : /\ Goes(i, N) /\ N.pc = First(call[i].op)
                              /\ Core(call[i], N) /\ Mind(call[i], N) /\ Load(call[i], N)
<1> DEFINE pc == First(call[i].op)
           N == [call[i] EXCEPT !.pc = pc, !.doc = NoMember]
<1>1. call[i].actor \in User /\ call[i].doc \in Member /\ call[i].pc = "backfill"
  BY CallFields DEF Backfills, Has
<1>2. pc \in {"readmember", "limit", "begin", "list"}
  BY DEF First
<1> HIDE DEF pc
<1>5. call' = [call EXCEPT ![i] = N] /\ pc = First(call[i].op)
  BY DEF pc, Backfills, DirectoryInv, DirectoryTypeOK
<1>3. N = WithDoc(call[i], pc, NoMember)
  BY DEF WithDoc
<1> HIDE DEF N
<1>4. N \in Call /\ N.pc = pc /\ Core(call[i], N) /\ Mind(call[i], N) /\ Load(call[i], N)
  BY <1>2, <1>3, IsCall, DocSet DEF Points, Core, Mind, Load
<1>6. call[i].op \in Ops \ {"inspect"}
  BY CallFields DEF Backfills, Belongs, Call
<1>7. Belongs(N)
  BY <1>4, <1>5, <1>6 DEF Belongs, Core, First, Ops, Listing, Changing, Teamed
<1>8. Has(N)
  <2>1. N.pc \in {"begin", "list", "readmember", "limit"} /\ (N.pc = "readmember" <=> N.op = "me")
    BY <1>4, <1>5, <1>6 DEF Core, First, Ops
  <2>2. N.pc \notin Before => N.op \in {"me", "accept"}
    BY <1>4, <1>5, <1>6 DEF Core, Before, First, Ops
  <2>3. Has(call[i])
    BY CallFields
  <2>4. QED  BY <1>4, <2>1, <2>2, <2>3 DEF Has, Before, Core, Mind
<1>9. QED  BY <1>1, <1>4, <1>5, <1>7, <1>8 DEF Goes, Shape, Backfills

(* The next account of the list is looked at. *)
LEMMA ListsGoes ==
    ASSUME DirectoryInv, NEW i \in Slot, Lists(i)
    PROVE  \E N \in Call, v \in call[i].todo :
              /\ Goes(i, N) /\ v \in User /\ call[i].pc = "list"
              /\ Core(call[i], N) /\ N.next = call[i].next /\ N.on = call[i].on
              /\ N.pend = call[i].pend /\ N.members = call[i].members /\ N.todo = call[i].todo \ {v}
              /\ N.found = (call[i].found \/ (v = call[i].target /\ v \in Listed))
              /\ N.seen = IF v = call[i].target /\ v \in Listed THEN GroupOf(account[v].groups)
                          ELSE call[i].seen
              /\ \/ N.pc = "list" /\ (v \in Listed => member[v] \in Member)
                 \/ N.pc = "reconcile" /\ v \in Listed /\ N.at = v /\ N.doc = Reconciled(v)
<1> DEFINE v == Foremost(call[i].todo)
<1>1. v \in call[i].todo /\ v \in User
  BY CallFields DEF Lists, Foremost
<1> DEFINE hit == v = call[i].target /\ v \in Listed
           off == v \in Listed /\ Reconciled(v) # member[v]
           seen == IF hit THEN GroupOf(account[v].groups) ELSE call[i].seen
           at == IF off THEN v ELSE NoUser
           doc == IF off THEN Reconciled(v) ELSE NoMember
           pc == IF off THEN "reconcile" ELSE call[i].pc
           found == call[i].found \/ hit
           todo == call[i].todo \ {v}
           N == [call[i] EXCEPT !.todo = todo, !.seen = seen, !.found = found, !.at = at,
                                !.doc = doc, !.pc = pc]
<1>2. call[i].pc = "list" /\ call' = [call EXCEPT ![i] = N]
  BY DEF Lists, DirectoryInv, DirectoryTypeOK
<1>3. seen \in Invitable /\ at \in User \cup {NoUser} /\ doc \in Member \cup {NoMember}
        /\ pc \in {"reconcile", "list"}
  BY <1>1, <1>2, CallFields, ReconcileMakes
<1>4. (pc = "reconcile" => v \in Listed /\ at = v /\ doc = Reconciled(v) /\ doc \in Member)
        /\ (pc = "list" /\ v \in Listed => member[v] \in Member)
  BY <1>2, ReconcileMakes
<1>5. found \in BOOLEAN /\ (found => call[i].found \/ v = call[i].target)
  BY CallFields
<1>6. todo \in SUBSET User
  BY CallFields
<1> HIDE DEF seen, at, doc, pc, found, todo
<1> DEFINE A == [call[i] EXCEPT !.todo = todo, !.seen = seen, !.found = found]
<1>7. A = WithFound(call[i], todo, seen, found) /\ N = WithBack(A, at, doc, pc)
  BY DEF WithFound, WithBack
<1> HIDE DEF A, N
<1>12. /\ A \in Call /\ Core(call[i], A) /\ A.next = call[i].next /\ A.on = call[i].on
       /\ A.pend = call[i].pend /\ A.members = call[i].members /\ A.todo = todo
       /\ A.found = found /\ A.seen = seen
  BY <1>3, <1>5, <1>6, <1>7, IsCall, FoundSet DEF Core
<1>8. /\ N \in Call /\ Core(call[i], N) /\ N.next = call[i].next /\ N.on = call[i].on
      /\ N.pend = call[i].pend /\ N.members = call[i].members /\ N.todo = todo
      /\ N.found = found /\ N.seen = seen /\ N.at = at /\ N.doc = doc /\ N.pc = pc
  <2>1. /\ N \in Call /\ N.at = at /\ N.doc = doc /\ N.pc = pc /\ Core(A, N) /\ Mind(A, N)
        /\ N.todo = A.todo /\ N.pend = A.pend /\ N.members = A.members
    <3>1. PICK B \in Call : B = A
      BY <1>12
    <3>2. pc \in Points /\ at \in User \cup {NoUser} /\ doc \in Member \cup {NoMember}
          /\ N = WithBack(B, at, doc, pc)
      BY <1>3, <1>7, <3>1 DEF Points
    <3>3. /\ N \in Call /\ N.at = at /\ N.doc = doc /\ N.pc = pc /\ Core(B, N) /\ Mind(B, N)
          /\ N.todo = B.todo /\ N.pend = B.pend /\ N.members = B.members
      BY <3>2, BackSet
    <3>4. QED  BY <3>1, <3>3
  <2>2. QED  BY <2>1, <1>12 DEF Core, Mind
<1>9. Belongs(N)
  BY <1>2, <1>3, <1>8, CallFields DEF Belongs, Core, Listing
<1>10. Has(N)
  <2>1. Has(call[i]) /\ call[i].op \in Listing
    BY <1>2, CallFields DEF Belongs
  <2>2. N.found => N.target \in User
    BY <1>1, <1>5, <1>8, <2>1 DEF Has, Core
  <2>3. QED  BY <1>1, <1>3, <1>4, <1>8, <2>1, <2>2 DEF Has, Core, Before, Listing
<1>11. QED  BY <1>1, <1>2, <1>3, <1>4, <1>8, <1>9, <1>10 DEF Goes, Shape, seen, found, todo

LEMMA ReconcilesGoes ==
    ASSUME DirectoryInv, NEW i \in Slot, Reconciles(i)
    PROVE  /\ call[i].at \in User /\ call[i].doc \in Member /\ call[i].pc = "reconcile"
           /\ Writes(call[i].at, call[i].doc, "list")
           /\ \E N \in Call : /\ Goes(i, N) /\ N.pc = "list" /\ Core(call[i], N) /\ Mind(call[i], N)
                              /\ N.pend = call[i].pend /\ N.members = call[i].members
                              /\ N.todo = call[i].todo
<1> DEFINE N == WithBack(call[i], NoUser, NoMember, "list")
<1>1. call[i].at \in User /\ call[i].doc \in Member /\ call[i].pc = "reconcile"
  BY CallFields DEF Reconciles, Has
<1>2. call' = [call EXCEPT ![i] = N]
  BY DEF Reconciles, WithBack, DirectoryInv, DirectoryTypeOK
<1>3. /\ N \in Call /\ N.pc = "list" /\ Core(call[i], N) /\ Mind(call[i], N)
      /\ N.pend = call[i].pend /\ N.members = call[i].members /\ N.todo = call[i].todo
  <2>1. PICK c \in Call : c = call[i]
    BY IsCall
  <2>2. N = WithBack(c, NoUser, NoMember, "list") /\ "list" \in Points
    BY <2>1 DEF Points
  <2> HIDE DEF N
  <2>3. /\ N \in Call /\ N.pc = "list" /\ Core(c, N) /\ Mind(c, N)
        /\ N.pend = c.pend /\ N.members = c.members /\ N.todo = c.todo
    BY <2>2, BackSet
  <2>4. QED  BY <2>1, <2>3
<1> HIDE DEF N
<1>4. Shape(N)
  BY <1>1, <1>3, CallFields DEF Shape, Belongs, Has, Core, Mind, Before, Listing
<1>5. QED  BY <1>1, <1>2, <1>3, <1>4 DEF Goes, Reconciles

LEMMA EndsListingGoes == ASSUME DirectoryInv, NEW i \in Slot, EndsListing(i) PROVE Ends(i) /\ Goes(i, Idle)
BY ReturnGoes DEF EndsListing, Ends

(* The change of a role is decided: ownership may go, if others hold it. *)
LEMMA ScansMembersGoes ==
    ASSUME DirectoryInv, NEW i \in Slot, ScansMembers(i)
    PROVE  /\ call[i].op = "role" /\ call[i].pc = "list" /\ call[i].found /\ call[i].target \in User
           /\ \/ Ends(i) /\ Goes(i, Idle)
              \/ \E N \in Call :
                    /\ Goes(i, N) /\ Core(call[i], N) /\ Mind(call[i], N) /\ Load(call[i], N)
                    /\ N.doc.role = N.next /\ N.doc.teams = TeamsOf(call[i].target)
                    /\ ~WouldOrphan(call[i].target, call[i].next)
                    /\ \/ N.pc = "savemember" /\ CoarseOf(N.next) = N.seen
                       \/ N.pc = "addgroup" /\ CoarseOf(N.next) # N.seen
<1>1. call[i].op = "role" /\ call[i].pc = "list" /\ call[i].found /\ call[i].target \in User
  BY CallFields DEF ScansMembers, HasListed, Has
<1>2. CASE WouldOrphan(call[i].target, call[i].next)
  <2>1. Ends(i)
    BY <1>2 DEF ScansMembers, Ends, Return
  <2>2. QED  BY <1>1, <2>1, ReturnGoes DEF Ends
<1>3. CASE ~WouldOrphan(call[i].target, call[i].next)
  <2> DEFINE D == [role |-> call[i].next, status |-> "active", teams |-> TeamsOf(call[i].target)]
             pc == IF CoarseOf(call[i].next) = call[i].seen THEN "savemember" ELSE "addgroup"
             N == WithDoc(call[i], pc, D)
  <2>1. call' = [call EXCEPT ![i] = N]
    BY <1>3 DEF ScansMembers, WithDoc, TeamsOf
  <2>2. TeamsOf(call[i].target) \subseteq Team
    BY <1>1, UserFields, MemberFields DEF TeamsOf
  <2>3. D \in Member /\ D.role = call[i].next /\ D.teams = TeamsOf(call[i].target)
    BY <2>2, CallFields DEF Member
  <2>4. \/ pc = "savemember" /\ CoarseOf(call[i].next) = call[i].seen
        \/ pc = "addgroup" /\ CoarseOf(call[i].next) # call[i].seen
    OBVIOUS
  <2> HIDE DEF D, pc
  <2>5. /\ N \in Call /\ N.pc = pc /\ N.doc = D /\ Core(call[i], N) /\ Mind(call[i], N)
        /\ Load(call[i], N)
    <3>1. call[i] \in Call /\ pc \in Points
      BY <2>4, IsCall DEF Points
    <3>2. QED  BY <2>3, <3>1, DocSet DEF Core, Mind, Load
  <2> HIDE DEF N
  <2>6. Shape(N)
    <3>1. Belongs(N)
      BY <1>1, <2>4, <2>5 DEF Belongs, Core
    <3>2. Has(N)
      BY <1>1, <2>3, <2>4, <2>5 DEF Has, Core, Mind, Teamed, Before
    <3>3. QED  BY <3>1, <3>2 DEF Shape
  <2>7. N.next = call[i].next /\ N.seen = call[i].seen
    BY <2>5 DEF Mind
  <2>8. QED  BY <1>1, <1>3, <2>1, <2>3, <2>4, <2>5, <2>6, <2>7 DEF Goes
<1>4. QED  BY <1>2, <1>3

(* A step within a change of a role. *)
LEMMA RegroupsGoes ==
    ASSUME DirectoryInv, NEW i \in Slot, NEW pc \in {"dropgroup", "rollback", "savemember"}, Goto(i, pc),
           call[i].pc \in {"addgroup", "dropgroup"}
    PROVE  /\ call[i].op = "role" /\ call[i].found /\ call[i].target \in User
           /\ \E N \in Call : Goes(i, N) /\ Turns(i, pc, N)
<1>1. call[i].op = "role" /\ call[i].found /\ call[i].target \in User
  BY CallFields DEF Belongs, Has, Before, Targeted
<1>2. PICK N \in Call : Turns(i, pc, N) /\ call' = [call EXCEPT ![i] = N]
  BY GotoTurns DEF Points
<1>3. Belongs(N)
  BY <1>1, <1>2 DEF Belongs, Turns, Core, Changing
<1>4. Has(N)
  BY <1>1, <1>2, CallFields DEF Has, Turns, Core, Mind, Teamed
<1>5. QED  BY <1>1, <1>2, <1>3, <1>4 DEF Goes, Shape

(* An account is enabled or not, or made. *)
LEMMA SetsEnabledGoes ==
    ASSUME DirectoryInv, NEW i \in Slot, SetsEnabled(i)
    PROVE  /\ call[i].op \in {"status", "revoke"} /\ call[i].pc = "list" /\ call[i].found
           /\ call[i].target \in User
           /\ \E N \in Call :
                 /\ Goes(i, N) /\ Turns(i, N.pc, N)
                 /\ N.pc = IF call[i].op = "status" THEN "readmember" ELSE "pending"
<1>1. /\ call[i].op \in {"status", "revoke"} /\ call[i].pc = "list" /\ call[i].found
      /\ call[i].target \in User
  BY CallFields DEF SetsEnabled, HasListed, Has
<1> DEFINE pc == IF call[i].op = "status" THEN "readmember" ELSE "pending"
<1>2. PICK N \in Call : Turns(i, pc, N) /\ call' = [call EXCEPT ![i] = N]
  BY GotoTurns DEF Points, SetsEnabled
<1>3. pc = IF call[i].op = "status" THEN "readmember" ELSE "pending"
  OBVIOUS
<1> HIDE DEF pc
<1>4. Belongs(N)
  BY <1>1, <1>2, <1>3 DEF Belongs, Turns, Core, Changing
<1>5. Has(N)
  BY <1>1, <1>2, <1>3 DEF Has, Turns, Core, Mind, Teamed
<1>6. N.pc = pc
  BY <1>2 DEF Turns
<1>7. QED  BY <1>1, <1>2, <1>3, <1>4, <1>5, <1>6 DEF Goes, Shape

LEMMA CreatesAccountGoes ==
    ASSUME DirectoryInv, NEW i \in Slot, CreatesAccount(i)
    PROVE  /\ call[i].op = "invite" /\ call[i].pc = "list" /\ call[i].target \in User
           /\ \E N \in Call : Goes(i, N) /\ Turns(i, "grouping", N)
<1>1. call[i].op = "invite" /\ call[i].pc = "list" /\ call[i].target \in User
  BY CallFields DEF CreatesAccount, HasListed, Has, Targeted
<1>2. PICK N \in Call : Turns(i, "grouping", N) /\ call' = [call EXCEPT ![i] = N]
  BY GotoTurns DEF Points, CreatesAccount
<1>3. Belongs(N)
  BY <1>1, <1>2 DEF Belongs, Turns, Core
<1>4. Has(N)
  BY <1>1, <1>2 DEF Has, Turns, Core, Mind, Teamed
<1>5. QED  BY <1>1, <1>2, <1>3, <1>4 DEF Goes, Shape

LEMMA EndsRevokingGoes ==
    ASSUME DirectoryInv, NEW i \in Slot, EndsRevoking(i)
    PROVE  /\ call[i].op \in {"resend", "revoke"} /\ call[i].pc = "revoking" /\ call[i].pend = {}
           /\ call[i].target \in User /\ call[i].found
           /\ \E N \in Call :
                 /\ Goes(i, N) /\ Turns(i, N.pc, N)
                 /\ N.pc = IF call[i].op = "resend" THEN "issue" ELSE "readmember"
<1>1. /\ call[i].op \in {"resend", "revoke"} /\ call[i].pc = "revoking" /\ call[i].pend = {}
      /\ call[i].target \in User /\ call[i].found
  BY CallFields DEF EndsRevoking, Belongs, Has, Before
<1> DEFINE pc == IF call[i].op = "resend" THEN "issue" ELSE "readmember"
<1>2. PICK N \in Call : Turns(i, pc, N) /\ call' = [call EXCEPT ![i] = N]
  BY GotoTurns DEF Points, EndsRevoking
<1>3. pc = IF call[i].op = "resend" THEN "issue" ELSE "readmember"
  OBVIOUS
<1> HIDE DEF pc
<1>4. Belongs(N)
  BY <1>1, <1>2, <1>3 DEF Belongs, Turns, Core, Changing
<1>5. Has(N)
  BY <1>1, <1>2, <1>3 DEF Has, Turns, Core, Mind, Teamed
<1>6. N.pc = pc
  BY <1>2 DEF Turns
<1>7. QED  BY <1>1, <1>2, <1>3, <1>4, <1>5, <1>6 DEF Goes, Shape

LEMMA ClaimsGoes ==
    ASSUME DirectoryInv, NEW i \in Slot, Claims(i)
    PROVE  /\ call[i].op = "accept" /\ call[i].pc = "claim" /\ call[i].invite \in Invite
           /\ call[i].actor \in User
           /\ \E N \in Call : Goes(i, N) /\ Turns(i, "join", N)
<1>1. /\ call[i].op = "accept" /\ call[i].pc = "claim" /\ call[i].invite \in Invite
      /\ call[i].actor \in User
  BY CallFields DEF Claims, Belongs, Has
<1>2. PICK N \in Call : Turns(i, "join", N) /\ call' = [call EXCEPT ![i] = N]
  BY GotoTurns DEF Points, Claims
<1>3. Belongs(N)
  BY <1>1, <1>2 DEF Belongs, Turns, Core
<1>4. Has(N)
  <2>1. ~N.found \/ N.target \in User
    BY <1>2, CallFields DEF Turns, Has, Core, Mind
  <2>2. QED  BY <1>1, <1>2, <2>1 DEF Has, Turns, Core, Mind, Teamed, Targeted
<1>5. QED  BY <1>1, <1>2, <1>3, <1>4 DEF Goes, Shape

(* A request leaves a role as it is, and of the teams only its own. *)
LEMMA ChangedMakes ==
    ASSUME DirectoryInv, NEW i \in Slot, NEW m \in Member
    PROVE  /\ Changed(i, m) \in Member /\ Changed(i, m).role = m.role
           /\ Changed(i, m).teams =
                 CASE call[i].op = "addto" -> m.teams \cup {call[i].team}
                   [] call[i].op \in {"removefrom", "delete"} -> m.teams \ {call[i].team}
                   [] OTHER -> m.teams
<1>1. CASE call[i].op = "addto"
  <2>1. call[i].team \in Team
    BY <1>1, CallFields DEF Has, Teamed
  <2>2. Changed(i, m) = [m EXCEPT !.teams = m.teams \cup {call[i].team}]
    BY <1>1 DEF Changed, Member
  <2>3. QED  BY <1>1, <2>1, <2>2 DEF Member
<1>2. CASE call[i].op \in {"removefrom", "delete"}
  <2>1. Changed(i, m) = [m EXCEPT !.teams = m.teams \ {call[i].team}]
    BY <1>2 DEF Changed, Member
  <2>2. QED  BY <1>2, <2>1 DEF Member
<1>3. CASE call[i].op \in {"status", "revoke"}
  <2>1. PICK st \in {"active", "deactivated"} : Changed(i, m) = [m EXCEPT !.status = st]
    BY <1>3 DEF Changed, Member
  <2>2. QED  BY <1>3, <2>1 DEF Member
<1>4. CASE call[i].op \notin {"status", "revoke", "addto", "removefrom", "delete"}
  BY <1>4 DEF Changed, Member
<1>5. QED  BY <1>1, <1>2, <1>3, <1>4

(* After a membership is written, a deletion and an invitation go on. *)
LEMMA AfterSaveGoes ==
    ASSUME DirectoryInv, NEW i \in Slot, call[i].pc \in {"readmember", "savemember"},
           call' = [call EXCEPT ![i] = AfterSave(i)]
    PROVE  \/ Return(i) /\ Goes(i, Idle) /\ call[i].op \notin {"delete", "invite"}
           \/ \E N \in Call :
                 /\ Goes(i, N) /\ Core(call[i], N) /\ Mind(call[i], N) /\ Load(call[i], N)
                 /\ \/ N.op = "delete" /\ N.pc = "dropteam"
                    \/ N.op = "invite" /\ N.pc = "issue" /\ call[i].pc = "savemember"
<1>1. CASE call[i].op \notin {"delete", "invite"}
  <2>1. Return(i)
    BY <1>1 DEF AfterSave, Return
  <2>2. QED  BY <1>1, <2>1, ReturnGoes
<1>2. CASE call[i].op \in {"delete", "invite"}
  <2> DEFINE pc == IF call[i].op = "delete" THEN "dropteam" ELSE "issue"
  <2>1. PICK c \in Call : c = call[i]
    BY IsCall
  <2>2. pc \in Points /\ NoMember \in Member \cup {NoMember}
        /\ pc = IF call[i].op = "delete" THEN "dropteam" ELSE "issue"
    BY DEF Points
  <2>3. AfterSave(i) = WithDoc(c, pc, NoMember)
    BY <1>2, <2>1 DEF AfterSave, WithDoc
  <2> HIDE DEF pc
  <2> DEFINE N == WithDoc(c, pc, NoMember)
  <2>4. N \in Call /\ N.pc = pc /\ Core(c, N) /\ Mind(c, N) /\ Load(c, N)
    BY <2>2, DocSet
  <2>5. call' = [call EXCEPT ![i] = N]
    BY <2>3
  <2> HIDE DEF N
  <2>6. Belongs(c) /\ Has(c) /\ c.pc \in {"readmember", "savemember"}
        /\ c.op \in {"delete", "invite"}
    BY <1>2, <2>1, CallFields
  <2>7. c.op = "invite" => c.pc = "savemember"
    BY <2>6 DEF Belongs, Changing
  <2>8. Belongs(N)
    BY <2>1, <2>2, <2>4, <2>6 DEF Belongs, Core
  <2>9. Has(N)
    BY <2>1, <2>2, <2>4, <2>6 DEF Has, Core, Mind, Targeted, Teamed
  <2>10. \/ N.op = "delete" /\ N.pc = "dropteam"
         \/ N.op = "invite" /\ N.pc = "issue" /\ call[i].pc = "savemember"
    BY <2>1, <2>2, <2>4, <2>6, <2>7 DEF Core
  <2>11. QED  BY <2>1, <2>4, <2>5, <2>8, <2>9, <2>10 DEF Goes, Shape
<1>3. QED  BY <1>1, <1>2

LEMMA SubjectIs ==
    ASSUME DirectoryInv, NEW i \in Slot, call[i].pc \in {"readmember", "savemember"}
    PROVE  Subject(i) \in User
<1>1. CASE call[i].op = "me"
  BY <1>1, CallFields DEF Has, Subject
<1>2. CASE call[i].op = "delete"
  BY <1>2, CallFields DEF Has, Subject
<1>3. CASE call[i].op \notin {"me", "delete"}
  BY <1>3, CallFields DEF Belongs, Has, Changing, Targeted, Subject
<1>4. QED  BY <1>1, <1>2, <1>3

LEMMA ReadsMemberGoes ==
    ASSUME DirectoryInv, NEW i \in Slot, ReadsMember(i)
    PROVE  /\ call[i].pc = "readmember" /\ call[i].op \in Changing /\ Subject(i) \in User
           /\ \/ /\ \/ member[Subject(i)] = NoMember
                    \/ call[i].op = "addto" /\ call[i].team \in member[Subject(i)].teams
                 /\ \/ Return(i) /\ Goes(i, Idle) /\ call[i].op # "delete"
                    \/ \E N \in Call :
                          /\ Goes(i, N) /\ Core(call[i], N) /\ Mind(call[i], N) /\ Load(call[i], N)
                          /\ N.op = "delete" /\ N.pc = "dropteam"
              \/ /\ member[Subject(i)] \in Member
                 /\ \E N \in Call :
                       /\ Goes(i, N) /\ Core(call[i], N) /\ Mind(call[i], N) /\ Load(call[i], N)
                       /\ N.pc = "savemember" /\ N.doc = Changed(i, member[Subject(i)])
<1> DEFINE m == member[Subject(i)]
<1>1. call[i].pc = "readmember" /\ call[i].op \in Changing /\ Subject(i) \in User
  BY CallFields, SubjectIs DEF ReadsMember, Belongs
<1>2. m \in Member \cup {NoMember}
  BY <1>1, UserFields
<1>3. CASE m = NoMember \/ (call[i].op = "addto" /\ call[i].team \in m.teams)
  <2>1. call' = [call EXCEPT ![i] = AfterSave(i)]
    BY <1>3 DEF ReadsMember
  <2>2. call[i].op # "invite"
    BY <1>1 DEF Changing
  <2>3. CASE Return(i) /\ Goes(i, Idle) /\ call[i].op \notin {"delete", "invite"}
    BY <1>1, <1>3, <2>3
  <2>4. CASE \E N \in Call :
                 /\ Goes(i, N) /\ Core(call[i], N) /\ Mind(call[i], N) /\ Load(call[i], N)
                 /\ \/ N.op = "delete" /\ N.pc = "dropteam"
                    \/ N.op = "invite" /\ N.pc = "issue" /\ call[i].pc = "savemember"
    BY <1>1, <1>3, <2>4
  <2>5. QED  BY <1>1, <2>1, <2>3, <2>4, AfterSaveGoes
<1>4. CASE m # NoMember /\ ~(call[i].op = "addto" /\ call[i].team \in m.teams)
  <2>1. PICK c \in Call : c = call[i]
    BY IsCall
  <2> DEFINE D == Changed(i, m)
             N == WithDoc(c, "savemember", D)
  <2>2. call' = [call EXCEPT ![i] = N]
    BY <1>4, <2>1 DEF ReadsMember, WithDoc
  <2>3. m \in Member /\ D \in Member /\ D = Changed(i, member[Subject(i)]) /\ "savemember" \in Points
    BY <1>2, <1>4, ChangedMakes DEF Points
  <2> HIDE DEF D
  <2>4. N \in Call /\ N.pc = "savemember" /\ N.doc = D /\ Core(c, N) /\ Mind(c, N) /\ Load(c, N)
    BY <2>3, DocSet
  <2> HIDE DEF N
  <2>5. Belongs(c) /\ Has(c) /\ c.pc = "readmember" /\ c.op \in Changing
    BY <1>1, <2>1, CallFields
  <2>6. Belongs(N)
    BY <2>4, <2>5 DEF Belongs, Core, Changing
  <2>7. Has(N)
    BY <2>3, <2>4, <2>5 DEF Has, Core, Mind, Load, Targeted, Teamed, Before
  <2>8. QED  BY <1>1, <2>1, <2>2, <2>3, <2>4, <2>6, <2>7 DEF Goes, Shape
<1>5. QED  BY <1>3, <1>4

LEMMA SavesMemberGoes ==
    ASSUME DirectoryInv, NEW i \in Slot, SavesMember(i) \/ SkipsMember(i)
    PROVE  /\ call[i].pc = "savemember" /\ Subject(i) \in User /\ call[i].doc \in Member
           /\ call[i].op \in Changing \cup {"role", "invite"}
           /\ \/ Return(i) /\ Goes(i, Idle) /\ call[i].op \notin {"delete", "invite"}
              \/ \E N \in Call :
                    /\ Goes(i, N) /\ Core(call[i], N) /\ Mind(call[i], N) /\ Load(call[i], N)
                    /\ \/ N.op = "delete" /\ N.pc = "dropteam"
                       \/ N.op = "invite" /\ N.pc = "issue"
<1>1. call[i].pc = "savemember" /\ call' = [call EXCEPT ![i] = AfterSave(i)]
  BY DEF SavesMember, SkipsMember
<1>2. /\ Subject(i) \in User /\ call[i].doc \in Member
      /\ call[i].op \in Changing \cup {"role", "invite"}
  BY <1>1, SubjectIs, CallFields DEF Has, Belongs
<1>3. QED  BY <1>1, <1>2, AfterSaveGoes

LEMMA Groups1stGoes ==
    ASSUME DirectoryInv, NEW i \in Slot, Groups1st(i)
    PROVE  /\ call[i].op = "invite" /\ call[i].pc = "grouping" /\ call[i].target \in User
           /\ \E N \in Call :
                 /\ Goes(i, N) /\ Core(call[i], N) /\ Mind(call[i], N) /\ Load(call[i], N)
                 /\ N.pc = "savemember" /\ N.doc.role = call[i].next /\ N.doc.teams = {}
<1>1. call[i].op = "invite" /\ call[i].pc = "grouping" /\ call[i].target \in User
  BY CallFields DEF Groups1st, Belongs, Has, Targeted
<1>2. PICK c \in Call : c = call[i]
  BY IsCall
<1> DEFINE D == [role |-> c.next, status |-> "invited", teams |-> {}]
           N == WithDoc(c, "savemember", D)
<1>3. call' = [call EXCEPT ![i] = N]
  BY <1>2 DEF Groups1st, WithDoc, DirectoryInv, DirectoryTypeOK
<1>4. D \in Member /\ D.role = c.next /\ D.teams = {} /\ "savemember" \in Points
  BY <1>2, CallFields DEF Member, Points
<1> HIDE DEF D
<1>5. N \in Call /\ N.pc = "savemember" /\ N.doc = D /\ Core(c, N) /\ Mind(c, N) /\ Load(c, N)
  BY <1>4, DocSet
<1> HIDE DEF N
<1>6. Belongs(N)
  BY <1>1, <1>2, <1>5 DEF Belongs, Core
<1>7. Has(N)
  BY <1>1, <1>2, <1>4, <1>5 DEF Has, Core, Teamed
<1>8. QED  BY <1>1, <1>2, <1>3, <1>4, <1>5, <1>6, <1>7 DEF Goes, Shape

LEMMA IssuesGoes ==
    ASSUME DirectoryInv, NEW i \in Slot, NEW n \in Invite, Issues(i, n)
    PROVE  /\ call[i].op \in {"invite", "resend"} /\ call[i].pc = "issue" /\ call[i].target \in User
           /\ \E N \in Call : /\ Goes(i, N) /\ N.pc = "index" /\ N.op = call[i].op
                              /\ N.actor = call[i].actor /\ N.target = call[i].target
                              /\ N.invite = n /\ Mind(call[i], N) /\ Load(call[i], N)
<1>1. call[i].op \in {"invite", "resend"} /\ call[i].pc = "issue" /\ call[i].target \in User
  BY CallFields DEF Issues, Belongs, Has, Targeted
<1>2. PICK c \in Call : c = call[i]
  BY IsCall
<1> DEFINE N == WithInvite(c, "index", n)
<1>3. call' = [call EXCEPT ![i] = N]
  BY <1>2 DEF Issues, WithInvite, DirectoryInv, DirectoryTypeOK
<1>4. n \in Invite \cup {NoInvite} /\ "index" \in Points
  BY DEF Points
<1>5. /\ N \in Call /\ N.pc = "index" /\ N.invite = n /\ N.op = c.op /\ N.actor = c.actor
      /\ N.target = c.target /\ N.doc = c.doc /\ Mind(c, N) /\ Load(c, N)
  BY <1>4, InviteSet
<1> HIDE DEF N
<1>6. Belongs(N)
  BY <1>1, <1>2, <1>5 DEF Belongs
<1>7. Has(N)
  <2>1. Has(c) /\ c.pc = "issue"
    BY <1>1, <1>2, CallFields
  <2>2. QED  BY <1>1, <1>2, <1>5, <2>1 DEF Has, Mind, Teamed, Before
<1>8. QED  BY <1>1, <1>2, <1>3, <1>5, <1>6, <1>7 DEF Goes, Shape

LEMMA IndexesGoes ==
    ASSUME DirectoryInv, NEW i \in Slot, Indexes(i)
    PROVE  call[i].invite \in Invite /\ Goes(i, Idle)
BY CallFields, ReturnGoes DEF Indexes, Has

LEMMA FindsPendingGoes ==
    ASSUME DirectoryInv, NEW i \in Slot, FindsPending(i)
    PROVE  /\ call[i].op \in {"resend", "revoke"} /\ call[i].pc \in {"list", "pending"}
           /\ call[i].target \in User /\ call[i].found
           /\ \E N \in Call :
                 /\ Goes(i, N) /\ N.pc = "revoking" /\ Core(call[i], N)
                 /\ N.pend = Pending(call[i].target) /\ N.seen = call[i].seen /\ N.found
                 /\ \/ \E n \in Pending(call[i].target) : N.next = invitation[n].role
                    \/ N.next = DefaultRole(call[i].seen)
<1>1. /\ call[i].op \in {"resend", "revoke"} /\ call[i].pc \in {"list", "pending"}
      /\ call[i].target \in User /\ call[i].found
  BY CallFields DEF FindsPending, HasListed, Belongs, Has, Targeted, Before
<1>2. PICK c \in Call : c = call[i]
  BY IsCall
<1> DEFINE P == Pending(call[i].target)
<1>3. PICK r \in CustomerRoles :
        /\ call' = [call EXCEPT ![i] = WithPend(c, "revoking", P, r)]
        /\ (\E n \in P : r = invitation[n].role) \/ r = DefaultRole(call[i].seen)
  <2>1. PICK r \in {invitation[n].role : n \in P} \cup IF P = {} THEN {DefaultRole(call[i].seen)} ELSE {} :
           call' = [call EXCEPT ![i].pc = "revoking", ![i].pend = P, ![i].next = r]
    BY DEF FindsPending
  <2>2. r \in CustomerRoles
    BY CallFields, Ranks DEF Pending, DirectoryInv, DirectoryTypeOK, InviteDoc
  <2>3. call' = [call EXCEPT ![i] = WithPend(c, "revoking", P, r)]
    BY <1>2, <2>1 DEF WithPend, DirectoryInv, DirectoryTypeOK
  <2>4. QED  BY <2>1, <2>2, <2>3
<1> DEFINE N == WithPend(c, "revoking", P, r)
<1>4. P \in SUBSET Invite /\ "revoking" \in Points /\ P = Pending(call[i].target)
  BY DEF Points, Pending
<1> HIDE DEF P
<1>5. /\ N \in Call /\ N.pc = "revoking" /\ N.pend = P /\ N.next = r /\ Core(c, N)
      /\ N.seen = c.seen /\ N.found = c.found /\ N.doc = c.doc
  BY <1>4, PendSet
<1>6. call' = [call EXCEPT ![i] = N]
  BY <1>3
<1> HIDE DEF N
<1>7. Belongs(N)
  BY <1>1, <1>2, <1>5 DEF Belongs, Core
<1>8. Has(N)
  BY <1>1, <1>2, <1>5 DEF Has, Core, Teamed
<1>9. QED  BY <1>1, <1>2, <1>3, <1>4, <1>5, <1>6, <1>7, <1>8 DEF Goes, Shape

LEMMA RevokesGoes ==
    ASSUME DirectoryInv, NEW i \in Slot, NEW n \in Invite, Revokes(i, n)
    PROVE  /\ call[i].pc = "revoking" /\ n \in call[i].pend
           /\ \E N \in Call :
                 /\ Goes(i, N) /\ N.pc = "revoking" /\ Core(call[i], N) /\ Mind(call[i], N)
                 /\ N.pend = call[i].pend \ {n} /\ N.doc = call[i].doc
<1>1. PICK c \in Call : c = call[i]
  BY IsCall
<1>2. call[i].pc = "revoking" /\ n \in call[i].pend /\ Shape(c)
  BY <1>1, CallFields DEF Revokes
<1> DEFINE P == c.pend \ {n}
           N == WithLeft(c, P)
<1>3. call' = [call EXCEPT ![i] = N]
  BY <1>1 DEF Revokes, WithLeft, DirectoryInv, DirectoryTypeOK
<1>4. P \in SUBSET Invite /\ P = call[i].pend \ {n}
  BY <1>1, CallFields
<1> HIDE DEF P
<1>5. /\ N \in Call /\ N.pc = c.pc /\ N.pend = P /\ Core(c, N) /\ Mind(c, N) /\ N.doc = c.doc
      /\ N.at = c.at /\ N.count = c.count
  BY <1>4, LeftSet DEF Meter
<1> HIDE DEF N
<1>6. Belongs(N)
  BY <1>2, <1>5 DEF Belongs, Shape, Core
<1>7. Has(N)
  BY <1>2, <1>5 DEF Has, Shape, Core, Mind
<1>8. QED  BY <1>1, <1>2, <1>3, <1>4, <1>5, <1>6, <1>7 DEF Goes, Shape

(* The limiter: whoever reads the counter, nobody else who has is alone. *)
Alike(c, N) == N.pc = c.pc /\ N.doc = c.doc /\ Core(c, N) /\ Mind(c, N) /\ Load(c, N)

LEMMA ReadsCounterGoes ==
    ASSUME DirectoryInv, NEW i \in Slot, ReadsCounter(i)
    PROVE  /\ call[i].pc = "limit"
           /\ call' \in [Slot -> Call] /\ Shaped'
           /\ \A j \in Slot \ {i} : /\ Alike(call[j], call'[j]) /\ call'[j].count = call[j].count
                                    /\ call'[j].alone = (call[j].alone /\ j \notin Counting)
           /\ \/ call'[i] = Idle
              \/ /\ counter < Limit /\ call'[i].pc = "count" /\ Core(call[i], call'[i])
                 /\ Mind(call[i], call'[i]) /\ Load(call[i], call'[i])
                 /\ call'[i].count = counter /\ call'[i].alone = (Counting = {})
<1>1. call[i].pc = "limit" /\ call[i].op \in {"accept", "inspect"}
  BY CallFields DEF ReadsCounter, Belongs
<1>2. ASSUME NEW j \in Slot \ {i}
      PROVE  /\ call'[j] \in Call /\ Shape(call'[j])
             /\ Alike(call[j], call'[j]) /\ call'[j].count = call[j].count
             /\ call'[j].alone = (call[j].alone /\ j \notin Counting)
  <2>1. PICK c \in Call : c = call[j]
    BY <1>2, IsCall
  <2> DEFINE a == c.alone /\ j \notin Counting
             N == WithAlone(c, a)
  <2>2. call'[j] = N
    BY <1>2, <2>1 DEF ReadsCounter, WithAlone
  <2>3. a \in BOOLEAN /\ a = (call[j].alone /\ j \notin Counting)
    BY <2>1
  <2> HIDE DEF a
  <2>4. /\ N \in Call /\ N.pc = c.pc /\ N.doc = c.doc /\ Core(c, N) /\ Mind(c, N) /\ Load(c, N)
        /\ N.count = c.count /\ N.alone = a
    BY <2>3, AloneSet
  <2> HIDE DEF N
  <2>5. Belongs(c) /\ Has(c)
    BY <1>2, <2>1, CallFields
  <2>6. Belongs(N)
    BY <2>4, <2>5 DEF Belongs, Core
  <2>7. Has(N)
    BY <2>4, <2>5 DEF Has, Core, Mind, Load
  <2>8. QED  BY <2>1, <2>2, <2>3, <2>4, <2>6, <2>7 DEF Alike, Shape
<1>3. /\ call'[i] \in Call /\ Shape(call'[i])
      /\ \/ call'[i] = Idle
         \/ /\ counter < Limit /\ call'[i].pc = "count" /\ Core(call[i], call'[i])
            /\ Mind(call[i], call'[i]) /\ Load(call[i], call'[i])
            /\ call'[i].count = counter /\ call'[i].alone = (Counting = {})
  <2>1. CASE LimitReached(counter)
    BY <2>1, AtRest DEF ReadsCounter
  <2>2. CASE ~LimitReached(counter)
    <3>1. PICK c \in Call : c = call[i]
      BY IsCall
    <3>2. counter \in 0..Limit /\ counter < Limit /\ "count" \in Points
      BY <2>2, DirectoryAssumption DEF LimitReached, Points, DirectoryInv, DirectoryTypeOK
    <3>3. PICK k \in 0..Limit, a \in BOOLEAN : k = counter /\ a = (Counting = {})
      BY <3>2
    <3> DEFINE N == WithCount(c, "count", k, a)
    <3>9. call'[i] = N
      BY <2>2, <3>1, <3>3 DEF ReadsCounter, WithCount
    <3>4. /\ N \in Call /\ N.pc = "count" /\ N.doc = c.doc /\ Core(c, N) /\ Mind(c, N)
          /\ Load(c, N) /\ N.count = k /\ N.alone = a
      BY <3>2, CountSet
    <3> HIDE DEF N
    <3>5. Belongs(c) /\ Has(c) /\ c.pc = "limit" /\ c.op \in {"accept", "inspect"}
      BY <1>1, <3>1, CallFields
    <3>6. Belongs(N)
      BY <3>4, <3>5 DEF Belongs, Core
    <3>7. Has(N)
      BY <3>2, <3>3, <3>4, <3>5 DEF Has, Core, Mind, Load, Targeted, Teamed
    <3>8. QED  BY <3>1, <3>2, <3>3, <3>4, <3>6, <3>7, <3>9 DEF Shape
  <2>3. QED  BY <2>1, <2>2
<1>4. \A j \in Slot : call'[j] \in Call /\ Shape(call'[j])
  BY <1>2, <1>3
<1>5. call' = [j \in Slot |-> call'[j]]
  BY DEF ReadsCounter
<1>6. call' \in [Slot -> Call] /\ Shaped'
  BY <1>4, <1>5 DEF Shaped
<1>7. QED  BY <1>1, <1>2, <1>3, <1>6

LEMMA CountsGoes ==
    ASSUME DirectoryInv, NEW i \in Slot, WritesCounter(i) \/ CounterFails(i)
    PROVE  /\ call[i].pc = "count" /\ call[i].count < Limit
           /\ \E N \in Call :
                 /\ Goes(i, N) /\ N.pc = "lookup" /\ Core(call[i], N) /\ Mind(call[i], N)
                 /\ Load(call[i], N)
<1>1. /\ call[i].pc = "count" /\ call[i].count < Limit /\ call[i].op \in {"accept", "inspect"}
  BY CallFields DEF WritesCounter, CounterFails, Belongs, Has
<1>2. PICK c \in Call : c = call[i]
  BY IsCall
<1> DEFINE N == WithCount(c, "lookup", 0, TRUE)
<1>3. call' = [call EXCEPT ![i] = N]
  BY <1>2 DEF WritesCounter, CounterFails, WithCount, DirectoryInv, DirectoryTypeOK
<1>4. 0 \in 0..Limit /\ TRUE \in BOOLEAN /\ "lookup" \in Points
  BY DirectoryAssumption DEF Points
<1>5. N \in Call /\ N.pc = "lookup" /\ N.doc = c.doc /\ Core(c, N) /\ Mind(c, N) /\ Load(c, N)
  BY <1>4, CountSet
<1> HIDE DEF N
<1>6. Belongs(c) /\ Has(c) /\ c.pc = "count" /\ c.op \in {"accept", "inspect"}
  BY <1>1, <1>2, CallFields
<1>7. Belongs(N)
  BY <1>5, <1>6 DEF Belongs, Core
<1>8. Has(N)
  BY <1>5, <1>6 DEF Has, Core, Mind, Load, Targeted, Teamed
<1>9. QED  BY <1>1, <1>2, <1>3, <1>5, <1>7, <1>8 DEF Goes, Shape

LEMMA LooksUpGoes ==
    ASSUME DirectoryInv, NEW i \in Slot, LooksUp(i)
    PROVE  /\ call[i].pc = "lookup" /\ call[i].op \in {"accept", "inspect"} /\ call[i].invite \in Invite
           /\ \/ Return(i) /\ Goes(i, Idle)
              \/ /\ invitation[call[i].invite].state = "pending"
                 /\ \E N \in Call :
                       /\ Goes(i, N) /\ Core(call[i], N) /\ N.found = call[i].found
                       /\ N.pend = call[i].pend
                       /\ \/ N.pc = "expire" /\ N.next = call[i].next
                          \/ /\ N.pc = "claim" /\ N.op = "accept"
                             /\ N.next = invitation[call[i].invite].role
                             /\ invitation[call[i].invite].email = call[i].actor
<1>1. call[i].pc = "lookup" /\ call[i].op \in {"accept", "inspect"} /\ call[i].invite \in Invite
  BY CallFields DEF LooksUp, Belongs, Has
<1>2. PICK n \in Invite : n = call[i].invite
  BY <1>1
<1>3. PICK c \in Call : c = call[i]
  BY IsCall
<1>4. Belongs(c) /\ Has(c) /\ c.pc = "lookup" /\ c.op \in {"accept", "inspect"} /\ c.invite = n
  BY <1>1, <1>2, <1>3, CallFields
<1> DEFINE pending == n \in linked /\ invitation[n].state = "pending"
<1>5. CASE pending /\ n \in lapsed
  <2> DEFINE N == WithPc(c, "expire")
  <2>1. call' = [call EXCEPT ![i] = N]
    BY <1>2, <1>3, <1>5 DEF LooksUp, WithPc
  <2>2. N \in Call /\ N.pc = "expire" /\ Core(c, N) /\ Mind(c, N) /\ Load(c, N)
    BY PcSet DEF Points
  <2> HIDE DEF N
  <2>3. Belongs(N)
    BY <1>4, <2>2 DEF Belongs, Core
  <2>4. Has(N)
    BY <1>4, <2>2 DEF Has, Core, Mind, Load, Targeted, Teamed
  <2>5. N.found = c.found /\ N.next = c.next /\ N.pend = c.pend
    BY <2>2 DEF Mind, Load
  <2>6. QED  BY <1>1, <1>2, <1>3, <1>5, <2>1, <2>2, <2>3, <2>4, <2>5 DEF Goes, Shape
<1>6. CASE ~(pending /\ n \in lapsed) /\ pending /\ c.op = "accept" /\ invitation[n].email = c.actor
  <2>1. PICK r \in CustomerRoles : r = invitation[n].role
    BY DEF DirectoryInv, DirectoryTypeOK, InviteDoc
  <2> DEFINE N == WithNext(c, "claim", r)
  <2>2. call' = [call EXCEPT ![i] = N]
    BY <1>2, <1>3, <1>6, <2>1 DEF LooksUp, WithNext
  <2>3. "claim" \in Points
    BY DEF Points
  <2>4. /\ N \in Call /\ N.pc = "claim" /\ N.next = r /\ Core(c, N) /\ N.found = c.found
        /\ Load(c, N)
    BY <2>3, NextSet
  <2> HIDE DEF N
  <2>5. Belongs(N)
    BY <1>4, <1>6, <2>4 DEF Belongs, Core
  <2>6. Has(N)
    BY <1>4, <2>4 DEF Has, Core, Load, Targeted, Teamed
  <2>7. N.op = "accept" /\ N.pend = c.pend
    BY <1>6, <2>4 DEF Core, Load
  <2>8. QED  BY <1>1, <1>2, <1>3, <1>6, <2>1, <2>2, <2>4, <2>5, <2>6, <2>7 DEF Goes, Shape
<1>7. CASE ~(pending /\ n \in lapsed) /\ ~(pending /\ c.op = "accept" /\ invitation[n].email = c.actor)
  <2>1. Return(i)
    BY <1>2, <1>3, <1>7 DEF LooksUp, Return
  <2>2. QED  BY <1>1, <2>1, ReturnGoes
<1>8. QED  BY <1>5, <1>6, <1>7

LEMMA ReturnsGo ==
    ASSUME DirectoryInv, NEW i \in Slot,
           \/ RollsBack(i) \/ Expires(i) \/ ClaimRefused(i) \/ Joins(i)
           \/ CreatesTeam(i) \/ DropsTeam(i) \/ Dies(i)
    PROVE  Goes(i, Idle)
<1>1. Return(i)
  BY DEF RollsBack, Expires, ClaimRefused, Joins, CreatesTeam, DropsTeam, Dies
<1>2. QED  BY <1>1, ReturnGoes

LEMMA TeamFields ==
    ASSUME DirectoryInv, NEW t \in Team, team[t] # NoTeam
    PROVE  team[t] \subseteq User
<1>1. team \in [Team -> (SUBSET User) \cup {NoTeam}]
  BY DEF DirectoryInv, DirectoryTypeOK
<1>2. team[t] \in (SUBSET User) \cup {NoTeam}
  BY <1>1
<1>3. QED  BY <1>2

LEMMA ReadsTeamGoes ==
    ASSUME DirectoryInv, NEW i \in Slot, ReadsTeam(i)
    PROVE  /\ call[i].op \in {"addto", "removefrom", "rename", "delete"} /\ call[i].pc = "begin"
           /\ call[i].team \in Team
           /\ \/ Return(i) /\ Goes(i, Idle)
              \/ /\ team[call[i].team] # NoTeam
                 /\ \E N \in Call :
                       /\ Goes(i, N) /\ Core(call[i], N) /\ Mind(call[i], N) /\ N.pend = call[i].pend
                       /\ N.members = team[call[i].team]
                       /\ N.op # "addto" => N.todo = team[call[i].team]
                       /\ N.pc = CASE call[i].op = "addto" -> "list"
                                   [] call[i].op = "delete" -> "dropteam"
                                   [] OTHER -> "saveteam"
<1>1. /\ call[i].op \in {"addto", "removefrom", "rename", "delete"} /\ call[i].pc = "begin"
      /\ call[i].team \in Team
  BY CallFields DEF ReadsTeam, At, Has, Teamed
<1>2. CASE team[call[i].team] = NoTeam
  <2>1. Return(i)
    BY <1>2 DEF ReadsTeam, Return
  <2>2. QED  BY <1>1, <2>1, ReturnGoes
<1>3. CASE team[call[i].team] # NoTeam
  <2>1. PICK c \in Call : c = call[i]
    BY IsCall
  <2> DEFINE T == team[c.team]
             todo == IF c.op = "addto" THEN Listed ELSE T
             pc == CASE c.op = "addto" -> "list"
                     [] c.op = "delete" -> "dropteam"
                     [] OTHER -> "saveteam"
             N == WithTeam(c, T, todo, pc)
  <2>2. call' = [call EXCEPT ![i] = N]
    BY <1>3, <2>1 DEF ReadsTeam, WithTeam
  <2>3. T \in SUBSET User /\ T = team[call[i].team]
    BY <1>1, <1>3, <2>1, TeamFields
  <2>4. todo \in SUBSET User /\ (c.op # "addto" => todo = T)
    BY <2>3 DEF Listed
  <2>5. /\ pc = CASE c.op = "addto" -> "list" [] c.op = "delete" -> "dropteam" [] OTHER -> "saveteam"
        /\ pc \in Points
    BY DEF Points
  <2> HIDE DEF T, todo, pc
  <2>6. /\ N \in Call /\ N.members = T /\ N.todo = todo /\ N.pc = pc /\ Core(c, N) /\ Mind(c, N)
        /\ N.pend = c.pend /\ N.at = c.at
    BY <2>3, <2>4, <2>5, TeamSet
  <2> HIDE DEF N
  <2>7. /\ Belongs(c) /\ Has(c) /\ c.pc = "begin"
        /\ c.op \in {"addto", "removefrom", "rename", "delete"}
    BY <1>1, <2>1, CallFields
  <2>8. /\ c.op = "addto" => pc = "list"
        /\ c.op = "delete" => pc = "dropteam"
        /\ c.op \in {"removefrom", "rename"} => pc = "saveteam"
    BY <2>5
  <2>9. Belongs(N)
    BY <2>6, <2>7, <2>8 DEF Belongs, Core, Listing
  <2>10. Has(N)
    BY <2>6, <2>7, <2>8 DEF Has, Core, Mind, Targeted, Teamed, Before
  <2>11. N.op # "addto" => N.todo = team[call[i].team]
    BY <2>3, <2>4, <2>6 DEF Core
  <2>12. QED
    BY <1>1, <1>3, <2>1, <2>2, <2>3, <2>5, <2>6, <2>9, <2>10, <2>11 DEF Goes, Shape
<1>4. QED  BY <1>2, <1>3

LEMMA SavesTeamGoes ==
    ASSUME DirectoryInv, NEW i \in Slot, SavesTeam(i)
    PROVE  /\ call[i].op \in {"addto", "removefrom", "rename"} /\ call[i].team \in Team
           /\ call[i].pc \in {"saveteam", "list"} /\ (call[i].op = "addto" => call[i].found)
           /\ NewMembers(i) \subseteq User
           /\ \/ Return(i) /\ Goes(i, Idle) /\ call[i].op = "rename"
              \/ /\ call[i].op # "rename"
                 /\ \E N \in Call : Goes(i, N) /\ Turns(i, "readmember", N)
<1>1. /\ call[i].op \in {"addto", "removefrom", "rename"} /\ call[i].team \in Team
      /\ call[i].pc \in {"saveteam", "list"} /\ (call[i].op = "addto" => call[i].found)
  BY CallFields DEF SavesTeam, HasListed, Belongs, Has, Teamed
<1>2. NewMembers(i) \subseteq User
  <2>1. call[i].members \subseteq User /\ (call[i].op = "addto" => call[i].target \in User)
    BY CallFields DEF Has, Targeted
  <2>2. QED  BY <2>1 DEF NewMembers
<1>3. CASE call[i].op = "rename"
  <2>1. Return(i)
    BY <1>3 DEF SavesTeam, Return
  <2>2. QED  BY <1>1, <1>2, <1>3, <2>1, ReturnGoes
<1>4. CASE call[i].op # "rename"
  <2>1. call' = [call EXCEPT ![i] = WithPc(call[i], "readmember")]
    BY <1>4 DEF SavesTeam, WithPc
  <2>2. PICK c \in Call : c = call[i]
    BY IsCall
  <2> DEFINE N == WithPc(c, "readmember")
  <2>3. "readmember" \in Points
    BY DEF Points
  <2>4. /\ N \in Call /\ N.pc = "readmember" /\ N.doc = c.doc /\ Core(c, N) /\ Mind(c, N)
        /\ Load(c, N) /\ Meter(c, N)
    BY <2>3, PcSet
  <2>5. call' = [call EXCEPT ![i] = N]
    BY <2>1, <2>2
  <2> HIDE DEF N
  <2>6. Has(c) /\ c.op \in {"addto", "removefrom"}
    BY <1>1, <1>4, <2>2, CallFields
  <2>7. Belongs(N)
    BY <2>4, <2>6 DEF Belongs, Core, Changing
  <2>8. Has(N)
    BY <2>4, <2>6 DEF Has, Core, Mind, Targeted, Teamed
  <2>9. QED  BY <1>1, <1>2, <1>4, <2>2, <2>4, <2>5, <2>7, <2>8 DEF Goes, Shape, Turns
<1>5. QED  BY <1>3, <1>4

LEMMA DropsMemberGoes ==
    ASSUME DirectoryInv, NEW i \in Slot, DropsMember(i)
    PROVE  /\ call[i].op = "delete" /\ call[i].pc = "dropteam" /\ call[i].team \in Team
           /\ \E N \in Call, v \in call[i].todo :
                 /\ Goes(i, N) /\ Core(call[i], N) /\ Mind(call[i], N) /\ N.pend = call[i].pend
                 /\ N.members = call[i].members /\ N.pc = "readmember"
                 /\ N.at = v /\ N.todo = call[i].todo \ {v}
<1>1. call[i].op = "delete" /\ call[i].pc = "dropteam" /\ call[i].team \in Team
  BY CallFields DEF DropsMember, Belongs, Has, Teamed
<1>2. PICK v \in call[i].todo : v = Foremost(call[i].todo)
  BY DEF DropsMember, Foremost
<1>3. PICK c \in Call : c = call[i]
  BY IsCall
<1> DEFINE todo == c.todo \ {v}
           N == WithAt(c, "readmember", v, todo)
<1>4. call' = [call EXCEPT ![i] = N]
  BY <1>2, <1>3 DEF DropsMember, WithAt, DirectoryInv, DirectoryTypeOK
<1>5. v \in User /\ todo \in SUBSET User /\ "readmember" \in Points /\ todo = call[i].todo \ {v}
  BY <1>2, <1>3, CallFields DEF Points
<1> HIDE DEF todo
<1>6. /\ N \in Call /\ N.pc = "readmember" /\ N.at = v /\ N.todo = todo /\ N.doc = c.doc
      /\ Core(c, N) /\ Mind(c, N) /\ N.pend = c.pend /\ N.members = c.members
  BY <1>5, AtSet
<1> HIDE DEF N
<1>7. Has(c) /\ c.op = "delete" /\ c.pc = "dropteam"
  BY <1>1, <1>3, CallFields
<1>8. Belongs(N)
  BY <1>6, <1>7 DEF Belongs, Core, Changing
<1>9. Has(N)
  BY <1>5, <1>6, <1>7 DEF Has, Core, Mind, Targeted, Teamed, Before
<1>10. QED  BY <1>1, <1>2, <1>3, <1>4, <1>5, <1>6, <1>8, <1>9 DEF Goes, Shape

(***************************************************************************)
(* Each step keeps the types                                               *)
(***************************************************************************)
LEMMA WritesTyped ==
    ASSUME DirectoryInv, NEW u \in User, NEW d \in Member, NEW op, Writes(u, d, op)
    PROVE  member' \in [User -> Member \cup {NoMember}] /\ owned' \in BOOLEAN /\ lost' \subseteq User
BY DEF Writes, DirectoryInv, DirectoryTypeOK

LEMMA GroupsTyped ==
    ASSUME DirectoryInv, NEW u \in User, NEW G \in SUBSET Invitable,
           account' = [account EXCEPT ![u].groups = G]
    PROVE  account' \in [User -> Account]
<1>1. account[u] \in Account /\ account \in [User -> Account]
  BY DEF DirectoryInv, DirectoryTypeOK
<1>2. [account[u] EXCEPT !.groups = G] \in Account
  BY <1>1 DEF Account
<1>3. account' = [account EXCEPT ![u] = [account[u] EXCEPT !.groups = G]]
  BY <1>1
<1>4. QED  BY <1>1, <1>2, <1>3

LEMMA QuietKeeps ==
    ASSUME DirectoryInv, call' \in [Slot -> Call], Shaped', UNCHANGED <<fixed, tables, history>>
    PROVE  DirectoryInv'
BY DEF DirectoryInv, DirectoryTypeOK, fixed, tables, history

LEMMA AccountKeeps ==
    ASSUME DirectoryInv, call' \in [Slot -> Call], Shaped', account' \in [User -> Account],
           UNCHANGED <<fixed, member, invitation, linked, team, counter, history>>
    PROVE  DirectoryInv'
BY DEF DirectoryInv, DirectoryTypeOK, fixed, history

LEMMA MemberKeeps ==
    ASSUME DirectoryInv, call' \in [Slot -> Call], Shaped',
           NEW u \in User, NEW d \in Member, NEW op, Writes(u, d, op),
           UNCHANGED <<fixed, account, invitation, linked, team, counter, asked, joins, contested, admitted>>
    PROVE  DirectoryInv'
BY WritesTyped DEF DirectoryInv, DirectoryTypeOK, fixed

LEMMA InvitationKeeps ==
    ASSUME DirectoryInv, call' \in [Slot -> Call], Shaped', invitation' \in [Invite -> InviteDoc],
           UNCHANGED <<fixed, account, member, linked, team, counter, history>>
    PROVE  DirectoryInv'
BY DEF DirectoryInv, DirectoryTypeOK, fixed, history

LEMMA TeamKeeps ==
    ASSUME DirectoryInv, call' \in [Slot -> Call], Shaped', team' \in [Team -> (SUBSET User) \cup {NoTeam}],
           UNCHANGED <<fixed, account, member, invitation, linked, counter, history>>
    PROVE  DirectoryInv'
BY DEF DirectoryInv, DirectoryTypeOK, fixed, history

LEMMA RestatedTyped ==
    ASSUME DirectoryInv, NEW n \in Invite,
           NEW st \in {"pending", "accepted", "expired", "revoked"},
           invitation' = [invitation EXCEPT ![n].state = st]
    PROVE  /\ invitation' \in [Invite -> InviteDoc]
           /\ invitation'[n].state = st /\ invitation'[n].email = invitation[n].email
           /\ invitation'[n].role = invitation[n].role
           /\ \A m \in Invite \ {n} : invitation'[m] = invitation[m]
<1>1. invitation[n] \in InviteDoc /\ invitation \in [Invite -> InviteDoc]
  BY DEF DirectoryInv, DirectoryTypeOK
<1> DEFINE d == [invitation[n] EXCEPT !.state = st]
<1>2. d \in InviteDoc /\ d.state = st /\ d.email = invitation[n].email /\ d.role = invitation[n].role
  BY <1>1 DEF InviteDoc
<1>3. invitation' = [invitation EXCEPT ![n] = d]
  BY <1>1
<1> HIDE DEF d
<1>4. QED  BY <1>1, <1>2, <1>3

LEMMA SignsInTyped ==
    ASSUME DirectoryInv, NEW u \in User, SignsIn(u)
    PROVE  DirectoryInv'
<1>1. account[u] \in Account /\ account \in [User -> Account]
  BY DEF DirectoryInv, DirectoryTypeOK
<1>2. [account[u] EXCEPT !.state = "confirmed"] \in Account
  BY <1>1 DEF Account
<1>3. account' = [account EXCEPT ![u] = [account[u] EXCEPT !.state = "confirmed"]]
  BY <1>1 DEF SignsIn
<1>4. account' \in [User -> Account]
  BY <1>1, <1>2, <1>3
<1>5. GroupOf(account[u].groups) \in Invitable
  BY UserFields, Strongest DEF SignsIn
<1>6. session' \in [User -> Invitable \cup {"none"}]
  BY <1>5 DEF SignsIn, DirectoryInv, DirectoryTypeOK
<1>7. Shaped'
  BY DEF SignsIn, DirectoryInv, Shaped
<1>8. QED  BY <1>4, <1>6, <1>7 DEF SignsIn, DirectoryInv, DirectoryTypeOK, history

LEMMA LapsesTyped ==
    ASSUME DirectoryInv, NEW n \in Invite, Lapses(n)
    PROVE  DirectoryInv'
<1>1. Shaped'
  BY DEF Lapses, DirectoryInv, Shaped
<1>2. QED  BY <1>1 DEF Lapses, DirectoryInv, DirectoryTypeOK, tables, history

LEMMA RequestTyped ==
    ASSUME DirectoryInv, NEW i \in Slot, NEW u \in User \cup {NoUser}, Request(i, u)
    PROVE  DirectoryInv'
<1>1. PICK op \in Ops, c \in Call :
         Plain(c, op) /\ Asks(i, u, op, c) /\ (op \in {"me", "accept"} => u \in User)
  BY RequestIsPlain
<1>2. call' \in [Slot -> Call] /\ Shaped'
  BY <1>1, AsksGoes, Moves
<1>3. asked' \in Nat /\ contested' \in BOOLEAN
  BY <1>1 DEF Asks, Counted, DirectoryInv, DirectoryTypeOK
<1>4. QED
  BY <1>1, <1>2, <1>3 DEF Asks, DirectoryInv, DirectoryTypeOK, fixed, tables

LEMMA InspectsTyped ==
    ASSUME DirectoryInv, NEW i \in Slot, NEW n \in Invite, Inspects(i, n)
    PROVE  DirectoryInv'
<1>1. call' \in [Slot -> Call] /\ Shaped'
  BY InspectsGoes, Moves
<1>2. asked' \in Nat
  BY DEF Inspects, Counted, DirectoryInv, DirectoryTypeOK
<1>3. QED
  BY <1>1, <1>2 DEF Inspects, DirectoryInv, DirectoryTypeOK, fixed, tables

(* The steps that write nothing but what the invocation knows. *)
Quiet(i) == \/ EndsListing(i) \/ Lists(i) \/ DropsMember(i) \/ ScansMembers(i) \/ DropFails(i)
            \/ ReadsMember(i) \/ SkipsMember(i) \/ FindsPending(i) \/ EndsRevoking(i)
            \/ CounterFails(i) \/ LooksUp(i) \/ ClaimRefused(i) \/ ReadsTeam(i) \/ Dies(i)

LEMMA QuietTyped ==
    ASSUME DirectoryInv, NEW i \in Slot, Quiet(i)
    PROVE  DirectoryInv'
<1>1. UNCHANGED <<fixed, tables, history>>
  BY DEF Quiet, EndsListing, Lists, DropsMember, ScansMembers, DropFails, ReadsMember, SkipsMember,
         FindsPending, EndsRevoking, CounterFails, LooksUp, ClaimRefused, ReadsTeam, Dies
<1>2. \E N : Goes(i, N)
  <2>1. CASE DropFails(i)
    BY <2>1, RegroupsGoes DEF DropFails
  <2>2. CASE ClaimRefused(i) \/ Dies(i)
    BY <2>2, ReturnsGo
  <2>3. CASE EndsListing(i) \/ Lists(i) \/ DropsMember(i) \/ ScansMembers(i)
    BY <2>3, EndsListingGoes, ListsGoes, DropsMemberGoes, ScansMembersGoes
  <2>4. CASE ReadsMember(i) \/ SkipsMember(i) \/ FindsPending(i) \/ EndsRevoking(i)
    BY <2>4, ReadsMemberGoes, SavesMemberGoes, FindsPendingGoes, EndsRevokingGoes
  <2>5. CASE CounterFails(i) \/ LooksUp(i) \/ ReadsTeam(i)
    BY <2>5, CountsGoes, LooksUpGoes, ReadsTeamGoes
  <2>6. QED  BY <2>1, <2>2, <2>3, <2>4, <2>5 DEF Quiet
<1>3. call' \in [Slot -> Call] /\ Shaped'
  BY <1>2, Moves
<1>4. QED  BY <1>1, <1>3, QuietKeeps

LEMMA AddsGroupTyped ==
    ASSUME DirectoryInv, NEW i \in Slot, AddsGroup(i)
    PROVE  DirectoryInv'
<1>1. /\ call[i].pc = "addgroup" /\ Goto(i, "dropgroup")
      /\ account' = [account EXCEPT ![call[i].target].groups =
                        account[call[i].target].groups \cup {CoarseOf(call[i].next)}]
      /\ UNCHANGED <<fixed, member, invitation, linked, team, counter, history>>
  BY DEF AddsGroup, Regroups
<1>2. call[i].target \in User /\ call' \in [Slot -> Call] /\ Shaped'
  BY <1>1, RegroupsGoes, Moves
<1>3. account[call[i].target].groups \cup {CoarseOf(call[i].next)} \in SUBSET Invitable
  BY <1>2, UserFields, CallFields, Ranks
<1>4. QED  BY <1>1, <1>2, <1>3, GroupsTyped, AccountKeeps

LEMMA DropsGroupTyped ==
    ASSUME DirectoryInv, NEW i \in Slot, DropsGroup(i)
    PROVE  DirectoryInv'
<1>1. /\ call[i].pc = "dropgroup" /\ Goto(i, "savemember")
      /\ account' = [account EXCEPT ![call[i].target].groups =
                        account[call[i].target].groups \ {call[i].seen}]
      /\ UNCHANGED <<fixed, member, invitation, linked, team, counter, history>>
  BY DEF DropsGroup, Regroups
<1>2. call[i].target \in User /\ call' \in [Slot -> Call] /\ Shaped'
  BY <1>1, RegroupsGoes, Moves
<1>3. account[call[i].target].groups \ {call[i].seen} \in SUBSET Invitable
  BY <1>2, UserFields
<1>4. QED  BY <1>1, <1>2, <1>3, GroupsTyped, AccountKeeps

LEMMA RollsBackIs ==
    ASSUME DirectoryInv, NEW i \in Slot, RollsBack(i)
    PROVE  /\ call[i].pc = "rollback" /\ call[i].op = "role" /\ call[i].target \in User
           /\ account' = [account EXCEPT ![call[i].target].groups =
                             account[call[i].target].groups \ {CoarseOf(call[i].next)}]
<1>1. call[i].pc = "rollback" /\ call[i].op = "role" /\ call[i].target \in User
  BY CallFields DEF RollsBack, Belongs, Has, Targeted
<1>2. QED  BY <1>1 DEF RollsBack, DirectoryInv, DirectoryTypeOK

LEMMA RollsBackTyped ==
    ASSUME DirectoryInv, NEW i \in Slot, RollsBack(i)
    PROVE  DirectoryInv'
<1>1. account[call[i].target].groups \ {CoarseOf(call[i].next)} \in SUBSET Invitable
  BY RollsBackIs, UserFields
<1>2. call' \in [Slot -> Call] /\ Shaped'
  BY ReturnsGo, Moves
<1>3. UNCHANGED <<fixed, member, invitation, linked, team, counter, history>>
  BY DEF RollsBack
<1>4. QED  BY <1>1, <1>2, <1>3, RollsBackIs, GroupsTyped, AccountKeeps

LEMMA SetsEnabledTyped ==
    ASSUME DirectoryInv, NEW i \in Slot, SetsEnabled(i)
    PROVE  DirectoryInv'
<1>1. call[i].target \in User /\ call' \in [Slot -> Call] /\ Shaped' /\ call[i].on \in BOOLEAN
  BY SetsEnabledGoes, Moves, CallFields
<1>2. PICK u \in User, on \in BOOLEAN : u = call[i].target /\ on = call[i].on
  BY <1>1
<1>3. account[u] \in Account /\ account \in [User -> Account]
  BY DEF DirectoryInv, DirectoryTypeOK
<1>4. [account[u] EXCEPT !.enabled = on] \in Account
  BY <1>3 DEF Account
<1>5. account' = [account EXCEPT ![u] = [account[u] EXCEPT !.enabled = on]]
  BY <1>2, <1>3 DEF SetsEnabled
<1>6. account' \in [User -> Account]
  BY <1>3, <1>4, <1>5
<1>7. QED  BY <1>1, <1>6, AccountKeeps DEF SetsEnabled

LEMMA CreatesAccountTyped ==
    ASSUME DirectoryInv, NEW i \in Slot, CreatesAccount(i)
    PROVE  DirectoryInv'
<1>1. call[i].target \in User /\ call' \in [Slot -> Call] /\ Shaped'
  BY CreatesAccountGoes, Moves
<1>2. PICK u \in User : u = call[i].target
  BY <1>1
<1>3. account[u] \in Account /\ account \in [User -> Account]
  BY DEF DirectoryInv, DirectoryTypeOK
<1>4. [account[u] EXCEPT !.state = "challenged"] \in Account
  BY <1>3 DEF Account
<1>5. account' = [account EXCEPT ![u] = [account[u] EXCEPT !.state = "challenged"]]
  BY <1>2, <1>3 DEF CreatesAccount
<1>6. account' \in [User -> Account]
  BY <1>3, <1>4, <1>5
<1>7. QED  BY <1>1, <1>6, AccountKeeps DEF CreatesAccount

LEMMA Groups1stTyped ==
    ASSUME DirectoryInv, NEW i \in Slot, Groups1st(i)
    PROVE  DirectoryInv'
<1>1. call[i].target \in User /\ call' \in [Slot -> Call] /\ Shaped'
  BY Groups1stGoes, Moves
<1>2. account[call[i].target].groups \cup {CoarseOf(call[i].next)} \in SUBSET Invitable
  BY <1>1, UserFields, CallFields, Ranks
<1>3. account' = [account EXCEPT ![call[i].target].groups =
                     account[call[i].target].groups \cup {CoarseOf(call[i].next)}]
  BY <1>1 DEF Groups1st, DirectoryInv, DirectoryTypeOK
<1>4. QED  BY <1>1, <1>2, <1>3, GroupsTyped, AccountKeeps DEF Groups1st

LEMMA MemberTyped ==
    ASSUME DirectoryInv, NEW i \in Slot, Backfills(i) \/ Reconciles(i) \/ SavesMember(i)
    PROVE  DirectoryInv'
<1>1. CASE Backfills(i)
  <2>1. /\ call[i].actor \in User /\ call[i].doc \in Member /\ call' \in [Slot -> Call] /\ Shaped'
        /\ Writes(call[i].actor, call[i].doc, "me")
    BY <1>1, BackfillsGoes, Moves
  <2>2. QED  BY <1>1, <2>1, MemberKeeps DEF Backfills
<1>2. CASE Reconciles(i)
  <2>1. /\ call[i].at \in User /\ call[i].doc \in Member /\ call' \in [Slot -> Call] /\ Shaped'
        /\ Writes(call[i].at, call[i].doc, "list")
    BY <1>2, ReconcilesGoes, Moves
  <2>2. QED  BY <1>2, <2>1, MemberKeeps DEF Reconciles
<1>3. CASE SavesMember(i)
  <2>1. Subject(i) \in User /\ call[i].doc \in Member /\ call' \in [Slot -> Call] /\ Shaped'
    BY <1>3, SavesMemberGoes, Moves
  <2>2. QED  BY <1>3, <2>1, MemberKeeps DEF SavesMember
<1>4. QED  BY <1>1, <1>2, <1>3

LEMMA JoinsIs ==
    ASSUME DirectoryInv, NEW i \in Slot, Joins(i)
    PROVE  /\ call[i].pc = "join" /\ call[i].op = "accept" /\ call[i].actor \in User
           /\ \E d \in Member : Writes(call[i].actor, d, "accept") /\ d.role = call[i].next
                                /\ d.teams = {}
<1>1. call[i].pc = "join" /\ call[i].op = "accept" /\ call[i].actor \in User
  BY CallFields DEF Joins, Belongs, Has
<1> DEFINE d == [role |-> call[i].next, status |-> "active", teams |-> {}]
<1>2. d \in Member /\ d.role = call[i].next /\ d.teams = {}
  BY CallFields DEF Member
<1>3. Writes(call[i].actor, d, "accept")
  BY DEF Joins
<1> HIDE DEF d
<1>4. QED  BY <1>1, <1>2, <1>3

LEMMA JoinsTyped ==
    ASSUME DirectoryInv, NEW i \in Slot, Joins(i)
    PROVE  DirectoryInv'
<1>1. call' \in [Slot -> Call] /\ Shaped'
  BY ReturnsGo, Moves
<1>2. QED  BY <1>1, JoinsIs, MemberKeeps DEF Joins

LEMMA IssuesIs ==
    ASSUME DirectoryInv, NEW i \in Slot, NEW n \in Invite, Issues(i, n)
    PROVE  /\ invitation[n].state = "none" /\ invitation' \in [Invite -> InviteDoc]
           /\ invitation'[n].state = "pending" /\ invitation'[n].email = call[i].target
           /\ invitation'[n].role = call[i].next
           /\ \A m \in Invite \ {n} : invitation'[m] = invitation[m]
<1> DEFINE d == [state |-> "pending", email |-> call[i].target, role |-> call[i].next]
<1>1. /\ d \in InviteDoc /\ d.state = "pending" /\ d.email = call[i].target /\ d.role = call[i].next
  BY CallFields DEF InviteDoc
<1>2. invitation' = [invitation EXCEPT ![n] = d] /\ invitation[n].state = "none"
  BY DEF Issues
<1> HIDE DEF d
<1>3. QED  BY <1>1, <1>2 DEF DirectoryInv, DirectoryTypeOK

LEMMA InvitationTyped ==
    ASSUME DirectoryInv, NEW i \in Slot, NEW n \in Invite, Issues(i, n) \/ Revokes(i, n)
    PROVE  DirectoryInv'
<1>1. CASE Issues(i, n)
  <2>1. call' \in [Slot -> Call] /\ Shaped'
    BY <1>1, IssuesGoes, Moves
  <2>2. QED  BY <1>1, <2>1, IssuesIs, InvitationKeeps DEF Issues
<1>2. CASE Revokes(i, n)
  <2>1. call' \in [Slot -> Call] /\ Shaped'
    BY <1>2, RevokesGoes, Moves
  <2>2. invitation' \in [Invite -> InviteDoc]
    BY <1>2, RestatedTyped DEF Revokes
  <2>3. QED  BY <1>2, <2>1, <2>2, InvitationKeeps DEF Revokes
<1>3. QED  BY <1>1, <1>2

LEMMA ExpiresTyped ==
    ASSUME DirectoryInv, NEW i \in Slot, Expires(i)
    PROVE  DirectoryInv' /\ call[i].invite \in Invite
<1>1. call' \in [Slot -> Call] /\ Shaped'
  BY ReturnsGo, Moves
<1>2. call[i].invite \in Invite
  BY CallFields DEF Expires, Belongs, Has
<1>3. invitation' \in [Invite -> InviteDoc]
  BY <1>2, RestatedTyped DEF Expires
<1>4. QED  BY <1>1, <1>2, <1>3, InvitationKeeps DEF Expires

LEMMA ClaimsTyped ==
    ASSUME DirectoryInv, NEW i \in Slot, Claims(i)
    PROVE  DirectoryInv'
<1>1. call[i].invite \in Invite /\ call' \in [Slot -> Call] /\ Shaped'
  BY ClaimsGoes, Moves
<1>2. invitation' \in [Invite -> InviteDoc]
  BY <1>1, RestatedTyped DEF Claims
<1>3. joins' \in [Invite -> Nat]
  BY <1>1 DEF Claims, DirectoryInv, DirectoryTypeOK
<1>4. QED  BY <1>1, <1>2, <1>3 DEF Claims, DirectoryInv, DirectoryTypeOK, fixed

LEMMA TeamTyped ==
    ASSUME DirectoryInv, NEW i \in Slot, CreatesTeam(i) \/ SavesTeam(i) \/ DropsTeam(i)
    PROVE  DirectoryInv' /\ call[i].team \in Team
<1>1. team \in [Team -> (SUBSET User) \cup {NoTeam}]
  BY DEF DirectoryInv, DirectoryTypeOK
<1>2. CASE CreatesTeam(i)
  <2>1. call[i].team \in Team /\ call' \in [Slot -> Call] /\ Shaped'
    BY <1>2, ReturnsGo, Moves, CallFields DEF CreatesTeam, At, Has, Teamed
  <2>2. team' \in [Team -> (SUBSET User) \cup {NoTeam}]
    BY <1>1, <1>2 DEF CreatesTeam
  <2>3. QED  BY <1>2, <2>1, <2>2, TeamKeeps DEF CreatesTeam
<1>3. CASE SavesTeam(i)
  <2>1. call[i].team \in Team /\ NewMembers(i) \subseteq User /\ call' \in [Slot -> Call] /\ Shaped'
    BY <1>3, SavesTeamGoes, Moves
  <2>2. team' \in [Team -> (SUBSET User) \cup {NoTeam}]
    BY <1>1, <1>3, <2>1 DEF SavesTeam
  <2>3. QED  BY <1>3, <2>1, <2>2, TeamKeeps DEF SavesTeam
<1>4. CASE DropsTeam(i)
  <2>1. call[i].team \in Team /\ call' \in [Slot -> Call] /\ Shaped'
    BY <1>4, ReturnsGo, Moves, CallFields DEF DropsTeam, Belongs, Has, Teamed
  <2>2. team' \in [Team -> (SUBSET User) \cup {NoTeam}]
    BY <1>1, <1>4 DEF DropsTeam
  <2>3. QED  BY <1>4, <2>1, <2>2, TeamKeeps DEF DropsTeam
<1>5. QED  BY <1>2, <1>3, <1>4

LEMMA IndexesTyped ==
    ASSUME DirectoryInv, NEW i \in Slot, Indexes(i)
    PROVE  DirectoryInv'
<1>1. call' \in [Slot -> Call] /\ Shaped' /\ call[i].invite \in Invite
  BY IndexesGoes, Moves
<1>2. linked' \subseteq Invite
  BY <1>1 DEF Indexes, DirectoryInv, DirectoryTypeOK
<1>3. QED  BY <1>1, <1>2 DEF Indexes, DirectoryInv, DirectoryTypeOK, fixed, history

LEMMA CounterTyped ==
    ASSUME DirectoryInv, NEW i \in Slot, ReadsCounter(i) \/ WritesCounter(i)
    PROVE  DirectoryInv'
<1>1. CASE ReadsCounter(i)
  BY <1>1, ReadsCounterGoes, QuietKeeps DEF ReadsCounter
<1>2. CASE WritesCounter(i)
  <2>1. call' \in [Slot -> Call] /\ Shaped' /\ call[i].count < Limit
    BY <1>2, CountsGoes, Moves
  <2>2. counter' \in 0..Limit
    BY <1>2, <2>1, CallFields, DirectoryAssumption DEF WritesCounter
  <2>3. admitted' \in Nat
    BY <1>2 DEF WritesCounter, DirectoryInv, DirectoryTypeOK
  <2>4. QED
    BY <1>2, <2>1, <2>2, <2>3 DEF WritesCounter, DirectoryInv, DirectoryTypeOK, fixed
<1>3. QED  BY <1>1, <1>2

LEMMA StepTyped == DirectoryInv /\ [Next]_vars => DirectoryInv'
<1> SUFFICES ASSUME DirectoryInv, [Next]_vars PROVE DirectoryInv'
  OBVIOUS
<1>1. CASE \E u \in User : SignsIn(u)
  BY <1>1, SignsInTyped
<1>2. CASE \E n \in Invite : Lapses(n)
  BY <1>2, LapsesTyped
<1>3. CASE \E i \in Slot, u \in User \cup {NoUser} : Request(i, u)
  BY <1>3, RequestTyped
<1>4. CASE \E i \in Slot : Quiet(i)
  BY <1>4, QuietTyped
<1>5. CASE \E i \in Slot : Backfills(i) \/ Reconciles(i) \/ SavesMember(i) \/ Joins(i)
  BY <1>5, MemberTyped, JoinsTyped
<1>6. CASE \E i \in Slot : AddsGroup(i) \/ DropsGroup(i) \/ RollsBack(i)
  BY <1>6, AddsGroupTyped, DropsGroupTyped, RollsBackTyped
<1>7. CASE \E i \in Slot : SetsEnabled(i) \/ CreatesAccount(i) \/ Groups1st(i)
  BY <1>7, SetsEnabledTyped, CreatesAccountTyped, Groups1stTyped
<1>8. CASE \E i \in Slot : Indexes(i) \/ Expires(i) \/ Claims(i)
  BY <1>8, IndexesTyped, ExpiresTyped, ClaimsTyped
<1>9. CASE \E i \in Slot, n \in Invite : Issues(i, n) \/ Revokes(i, n) \/ Inspects(i, n)
  BY <1>9, InvitationTyped, InspectsTyped
<1>10. CASE \E i \in Slot : ReadsCounter(i) \/ WritesCounter(i)
  BY <1>10, CounterTyped
<1>11. CASE \E i \in Slot : CreatesTeam(i) \/ SavesTeam(i) \/ DropsTeam(i)
  BY <1>11, TeamTyped
<1>12. CASE UNCHANGED vars
  BY <1>12 DEF DirectoryInv, DirectoryTypeOK, Shaped, vars
<1>13. QED
  BY <1>1, <1>2, <1>3, <1>4, <1>5, <1>6, <1>7, <1>8, <1>9, <1>10, <1>11, <1>12 DEF Next, Quiet

LEMMA InitTyped == Init => DirectoryInv
<1> SUFFICES ASSUME Init PROVE DirectoryInv
  OBVIOUS
<1>1. scope \in Scope /\ \A u \in User : scope.founders[u] \in CustomerRoles \cup {"none"}
  BY DirectoryAssumption DEF Init, Scope
<1>2. account \in [User -> Account]
  <2> SUFFICES ASSUME NEW u \in User
               PROVE  (IF scope.founders[u] = "none" THEN NoAccount
                       ELSE [state |-> "confirmed", enabled |-> TRUE,
                             groups |-> {CoarseOf(scope.founders[u])}]) \in Account
    BY DEF Init
  <2>1. NoAccount \in Account
    BY DEF NoAccount, Account
  <2>2. CASE scope.founders[u] # "none"
    BY <1>1, <2>2, Ranks DEF Account
  <2>3. QED  BY <2>1, <2>2
<1>3. member \in [User -> Member \cup {NoMember}]
  BY <1>1 DEF Init, Member
<1>4. invitation \in [Invite -> InviteDoc]
  BY DEF Init, NoInvitation, InviteDoc, CustomerRoles
<1>5. call \in [Slot -> Call] /\ Shaped
  BY AtRest DEF Init, Shaped
<1>6. counter \in 0..Limit
  BY DirectoryAssumption DEF Init
<1>7. QED  BY <1>1, <1>2, <1>3, <1>4, <1>5, <1>6 DEF Init, DirectoryInv, DirectoryTypeOK

(* Every request, at whatever point another interrupts it, has at hand     *)
(* what its next step needs: a target where a group is changed, a document *)
(* where one is written, an invitation where one is accepted.              *)
THEOREM DirectoryTyped == Spec => []DirectoryInv
<1>1. QED  BY InitTyped, StepTyped, PTL DEF Spec

(* Accounts, memberships, invitations, teams and requests keep their types. *)
THEOREM DirectoryTypesHold == Spec => []DirectoryTypeOK
<1>1. DirectoryInv => DirectoryTypeOK
  BY DEF DirectoryInv
<1>2. QED  BY <1>1, DirectoryTyped, PTL

(***************************************************************************)
(* What a step leaves alone                                                *)
(***************************************************************************)
Recording(i)  == Backfills(i) \/ Reconciles(i) \/ SavesMember(i) \/ Joins(i)
Regrouping(i) == AddsGroup(i) \/ DropsGroup(i) \/ RollsBack(i)
Entering(i)   == SetsEnabled(i) \/ CreatesAccount(i) \/ Groups1st(i)
Inviting(i)   == Expires(i) \/ Claims(i) \/ \E n \in Invite : Issues(i, n) \/ Revokes(i, n)
TeamWriting(i) == CreatesTeam(i) \/ SavesTeam(i) \/ DropsTeam(i)
Asking(i)     == \/ \E u \in User \cup {NoUser} : Request(i, u)
                 \/ \E n \in Invite : Inspects(i, n)
Counts(i)     == ReadsCounter(i) \/ WritesCounter(i)
Working(i)    == \/ Quiet(i) \/ Recording(i) \/ Regrouping(i) \/ Entering(i) \/ Inviting(i)
                 \/ TeamWriting(i) \/ Indexes(i) \/ Counts(i)

LEMMA StepIs ==
    ASSUME [Next]_vars
    PROVE  \/ UNCHANGED vars
           \/ \E u \in User : SignsIn(u)
           \/ \E n \in Invite : Lapses(n)
           \/ \E i \in Slot : Asking(i) \/ Working(i)
BY DEF Next, Asking, Working, Quiet, Recording, Regrouping, Entering, Inviting, TeamWriting, Counts

LEMMA Leaves ==
    ASSUME NEW i \in Slot
    PROVE  /\ Quiet(i) => UNCHANGED <<fixed, tables, history>>
           /\ Recording(i) => UNCHANGED <<fixed, account, invitation, linked, team, counter, asked,
                                          joins, contested, admitted>>
           /\ Regrouping(i) \/ Entering(i) =>
                 UNCHANGED <<fixed, member, invitation, linked, team, counter, history>>
           /\ Inviting(i) => UNCHANGED <<fixed, account, member, linked, team, counter, asked, owned,
                                         lost, contested, admitted>>
           /\ TeamWriting(i) =>
                 UNCHANGED <<fixed, account, member, invitation, linked, counter, history>>
           /\ Indexes(i) => UNCHANGED <<fixed, account, member, invitation, team, counter, history>>
           /\ Counts(i) => UNCHANGED <<fixed, account, member, invitation, linked, team, asked, joins,
                                       owned, lost, contested>>
           /\ Asking(i) => UNCHANGED <<fixed, tables, joins, owned, lost, admitted>>
<1>1. Quiet(i) => UNCHANGED <<fixed, tables, history>>
  BY DEF Quiet, EndsListing, Lists, DropsMember, ScansMembers, DropFails, ReadsMember, SkipsMember,
         FindsPending, EndsRevoking, CounterFails, LooksUp, ClaimRefused, ReadsTeam, Dies
<1>2. Recording(i) => UNCHANGED <<fixed, account, invitation, linked, team, counter, asked,
                                  joins, contested, admitted>>
  BY DEF Recording, Backfills, Reconciles, SavesMember, Joins
<1>3. Regrouping(i) \/ Entering(i) =>
         UNCHANGED <<fixed, member, invitation, linked, team, counter, history>>
  BY DEF Regrouping, Entering, AddsGroup, DropsGroup, Regroups, RollsBack, SetsEnabled, CreatesAccount,
         Groups1st
<1>4. Inviting(i) => UNCHANGED <<fixed, account, member, linked, team, counter, asked, owned,
                                 lost, contested, admitted>>
  BY DEF Inviting, Expires, Claims, Issues, Revokes, history
<1>5. TeamWriting(i) => UNCHANGED <<fixed, account, member, invitation, linked, counter, history>>
  BY DEF TeamWriting, CreatesTeam, SavesTeam, DropsTeam
<1>6. Indexes(i) => UNCHANGED <<fixed, account, member, invitation, team, counter, history>>
  BY DEF Indexes
<1>7. Counts(i) => UNCHANGED <<fixed, account, member, invitation, linked, team, asked, joins,
                               owned, lost, contested>>
  BY DEF Counts, ReadsCounter, WritesCounter, tables, history
<1>8. Asking(i) => UNCHANGED <<fixed, tables, joins, owned, lost, admitted>>
  <2>1. ASSUME NEW u \in User \cup {NoUser}, Request(i, u)
        PROVE  UNCHANGED <<fixed, tables, joins, owned, lost, admitted>>
    <3>1. PICK op, c : Asks(i, u, op, c)
      BY <2>1 DEF Request
    <3>2. QED  BY <3>1 DEF Asks
  <2>2. QED  BY <2>1 DEF Asking, Inspects
<1>9. QED  BY <1>1, <1>2, <1>3, <1>4, <1>5, <1>6, <1>7, <1>8

LEMMA AlikeSelf == ASSUME NEW c PROVE Alike(c, c)
BY DEF Alike, Core, Mind, Load

(* A step is of one invocation. *)
Others(i) == \A j \in Slot \ {i} : Alike(call[j], call'[j])

LEMMA GoesOthers ==
    ASSUME DirectoryInv, NEW i \in Slot, NEW N, Goes(i, N)
    PROVE  Others(i) /\ call'[i] = N
BY Moves, AlikeSelf DEF Others

LEMMA StepGoes ==
    ASSUME DirectoryInv, NEW i \in Slot, Asking(i) \/ Working(i), ~ReadsCounter(i)
    PROVE  \E N : Goes(i, N) /\ N.pc # "count"
<1>1. CASE Asking(i)
  <2>1. ASSUME NEW u \in User \cup {NoUser}, Request(i, u)
        PROVE  \E N : Goes(i, N) /\ N.pc # "count"
    BY <2>1, RequestGoes DEF Before
  <2>2. ASSUME NEW n \in Invite, Inspects(i, n)
        PROVE  \E N : Goes(i, N) /\ N.pc # "count"
    BY <2>2, InspectsGoes
  <2>3. QED  BY <1>1, <2>1, <2>2 DEF Asking
<1>2. CASE DropFails(i) \/ AddsGroup(i) \/ DropsGroup(i)
  BY <1>2, RegroupsGoes DEF DropFails, AddsGroup, DropsGroup, Regroups, Turns
<1>3. CASE ClaimRefused(i) \/ Dies(i) \/ RollsBack(i) \/ Expires(i) \/ Joins(i)
           \/ CreatesTeam(i) \/ DropsTeam(i)
  BY <1>3, ReturnsGo, IdleFields
<1>4. CASE EndsListing(i) \/ Lists(i) \/ DropsMember(i) \/ ScansMembers(i)
  BY <1>4, EndsListingGoes, ListsGoes, DropsMemberGoes, ScansMembersGoes, IdleFields
<1>5. CASE ReadsMember(i) \/ SavesMember(i) \/ SkipsMember(i)
  BY <1>5, ReadsMemberGoes, SavesMemberGoes, IdleFields
<1>6. CASE FindsPending(i) \/ EndsRevoking(i)
  BY <1>6, FindsPendingGoes, EndsRevokingGoes
<1>7. CASE CounterFails(i) \/ WritesCounter(i) \/ LooksUp(i)
  BY <1>7, CountsGoes, LooksUpGoes, IdleFields
<1>8. CASE ReadsTeam(i) \/ SavesTeam(i)
  BY <1>8, ReadsTeamGoes, SavesTeamGoes, IdleFields DEF Turns
<1>9. CASE Backfills(i) \/ Reconciles(i) \/ Indexes(i) \/ Claims(i)
  <2>1. First(call[i].op) # "count"
    BY DEF First
  <2>2. CASE Backfills(i)
    BY <2>1, <2>2, BackfillsGoes
  <2>3. CASE Reconciles(i) \/ Indexes(i) \/ Claims(i)
    BY <2>3, ReconcilesGoes, IndexesGoes, ClaimsGoes, IdleFields DEF Turns
  <2>4. QED  BY <1>9, <2>2, <2>3
<1>10. CASE SetsEnabled(i) \/ CreatesAccount(i) \/ Groups1st(i)
  BY <1>10, SetsEnabledGoes, CreatesAccountGoes, Groups1stGoes DEF Turns
<1>11. CASE \E n \in Invite : Issues(i, n) \/ Revokes(i, n)
  BY <1>11, IssuesGoes, RevokesGoes
<1>12. QED
  BY <1>1, <1>2, <1>3, <1>4, <1>5, <1>6, <1>7, <1>8, <1>9, <1>10, <1>11
     DEF Working, Quiet, Recording, Regrouping, Entering, Inviting, TeamWriting, Counts

LEMMA StepOthers ==
    ASSUME DirectoryInv, NEW i \in Slot, Asking(i) \/ Working(i)
    PROVE  Others(i)
<1>1. CASE ReadsCounter(i)
  BY <1>1, ReadsCounterGoes DEF Others
<1>2. CASE ~ReadsCounter(i)
  BY <1>2, StepGoes, GoesOthers
<1>3. QED  BY <1>1, <1>2

(***************************************************************************)
(* An invitation admits once                                               *)
(***************************************************************************)
LEMMA AcceptingKept ==
    ASSUME Accepting, UNCHANGED <<invitation, joins>>
    PROVE  Accepting'
BY DEF Accepting

LEMMA AcceptingStep == DirectoryInv /\ Accepting /\ [Next]_vars => Accepting'
<1> SUFFICES ASSUME DirectoryInv, Accepting, [Next]_vars PROVE Accepting'
  OBVIOUS
<1>1. CASE UNCHANGED vars
  BY <1>1, AcceptingKept DEF vars
<1>2. CASE (\E u \in User : SignsIn(u)) \/ \E n \in Invite : Lapses(n)
  BY <1>2, AcceptingKept DEF SignsIn, Lapses, tables, history
<1>3. ASSUME NEW i \in Slot, Asking(i) \/ Working(i)
      PROVE  Accepting'
  <2>1. CASE ~Inviting(i)
    BY <1>3, <2>1, Leaves, AcceptingKept DEF Working, tables, history
  <2>2. CASE Expires(i)
    <3>1. call[i].invite \in Invite
      BY <2>2, ExpiresTyped
    <3>2. PICK n \in Invite : n = call[i].invite
      BY <3>1
    <3>3. invitation' = [invitation EXCEPT ![n].state = "expired"] /\ joins' = joins
      BY <2>2, <3>2 DEF Expires, history
    <3>4. QED  BY <3>3, RestatedTyped DEF Accepting
  <2>3. CASE Claims(i)
    <3>1. PICK n \in Invite : n = call[i].invite
      BY <2>3, ClaimsGoes
    <3>2. /\ invitation' = [invitation EXCEPT ![n].state = "accepted"]
          /\ joins' = [joins EXCEPT ![n] = @ + 1] /\ invitation[n].state = "pending"
      BY <2>3, <3>1 DEF Claims
    <3>3. joins \in [Invite -> Nat]
      BY DEF DirectoryInv, DirectoryTypeOK
    <3>4. joins[n] = 0
      BY <3>2, <3>3 DEF Accepting
    <3>5. joins'[n] = 1 /\ \A m \in Invite \ {n} : joins'[m] = joins[m]
      BY <3>2, <3>3, <3>4
    <3>6. invitation'[n].state = "accepted" /\ \A m \in Invite \ {n} : invitation'[m] = invitation[m]
      BY <3>2, RestatedTyped
    <3>7. ASSUME NEW m \in Invite
          PROVE  joins'[m] <= 1 /\ (joins'[m] = 1 => invitation'[m].state \notin {"pending", "none"})
      <4>1. CASE m = n
        BY <3>5, <3>6, <4>1
      <4>2. CASE m # n
        BY <3>5, <3>6, <4>2 DEF Accepting
      <4>3. QED  BY <4>1, <4>2
    <3>8. QED  BY <3>7 DEF Accepting
  <2>4. ASSUME NEW n \in Invite, Issues(i, n) PROVE Accepting'
    <3>1. joins' = joins
      BY <2>4 DEF Issues, history
    <3>2. joins[n] # 1
      BY <2>4, IssuesIs DEF Accepting
    <3>3. QED  BY <2>4, <3>1, <3>2, IssuesIs DEF Accepting
  <2>5. ASSUME NEW n \in Invite, Revokes(i, n) PROVE Accepting'
    <3>1. joins' = joins /\ invitation' = [invitation EXCEPT ![n].state = "revoked"]
      BY <2>5 DEF Revokes, history
    <3>2. QED  BY <3>1, RestatedTyped DEF Accepting
  <2>6. QED  BY <2>1, <2>2, <2>3, <2>4, <2>5 DEF Inviting
<1>4. QED  BY <1>1, <1>2, <1>3, StepIs

(* An invitation admits nobody twice, however many accept it at once, and  *)
(* whatever revocation, reissue or expiry is written over it meanwhile:    *)
(* what has been accepted is never open again, for no step takes an        *)
(* invitation back to "none" or, once issued, to "pending".                *)
THEOREM AdmitsOnce == Spec => []AcceptedOnce
<1>1. Init => Accepting
  BY DEF Init, Accepting
<1>2. Accepting => AcceptedOnce
  BY DEF Accepting, AcceptedOnce
<1>3. QED  BY <1>1, <1>2, AcceptingStep, DirectoryTyped, PTL DEF Spec

(***************************************************************************)
(* Requests that do not overlap are counted                                *)
(***************************************************************************)
LEMMA LimitingKept ==
    ASSUME DirectoryInv, Limiting, NEW i \in Slot, NEW N, Goes(i, N), N.pc # "count",
           UNCHANGED <<counter, admitted>>
    PROVE  Limiting'
<1>1. /\ call'[i].pc # "count" /\ \A j \in Slot \ {i} : call'[j] = call[j]
  BY Moves
<1>2. Counting' = Counting \ {i}
  BY <1>1 DEF Counting
<1>3. QED  BY <1>1, <1>2 DEF Limiting, Counting

LEMMA ReadsCounterLimits ==
    ASSUME DirectoryInv, Limiting, NEW i \in Slot, ReadsCounter(i)
    PROVE  Limiting'
<1>1. UNCHANGED <<counter, admitted>> /\ i \notin Counting
  BY DEF ReadsCounter, tables, history, Counting
<1>2. \A j \in Slot \ {i} : /\ call'[j].pc = call[j].pc /\ call'[j].count = call[j].count
                            /\ j \in Counting => call'[j].alone = FALSE
  BY ReadsCounterGoes DEF Alike
<1>3. CASE call'[i] = Idle
  <2>1. Counting' = Counting
    BY <1>1, <1>2, <1>3, IdleFields DEF Counting
  <2>2. QED  BY <1>1, <1>2, <2>1 DEF Limiting, Counting
<1>4. CASE call'[i].pc = "count" /\ call'[i].count = counter /\ call'[i].alone = (Counting = {})
  <2>1. Counting' = Counting \cup {i}
    BY <1>1, <1>2, <1>4 DEF Counting
  <2>2. QED  BY <1>1, <1>2, <1>4, <2>1 DEF Limiting, Counting
<1>5. QED  BY <1>3, <1>4, ReadsCounterGoes

LEMMA WritesCounterLimits ==
    ASSUME DirectoryInv, Limiting, NEW i \in Slot, WritesCounter(i)
    PROVE  Limiting'
<1>1. PICK N \in Call : Goes(i, N) /\ N.pc = "lookup"
  BY CountsGoes
<1>2. /\ call'[i].pc # "count" /\ \A j \in Slot \ {i} : call'[j] = call[j]
  BY <1>1, Moves
<1>3. Counting' = Counting \ {i} /\ i \in Counting
  BY <1>2 DEF Counting, WritesCounter
<1>4. call[i].count \in Nat /\ admitted \in Nat /\ admitted <= call[i].count
      /\ (call[i].alone => Counting = {i})
  BY <1>3, CallFields DEF Limiting, DirectoryInv, DirectoryTypeOK
<1>5. counter' = call[i].count + 1 /\ admitted' = admitted + IF call[i].alone THEN 1 ELSE 0
  BY DEF WritesCounter
<1>6. admitted' <= counter'
  BY <1>4, <1>5
<1>7. ASSUME NEW j \in Counting'
      PROVE  admitted' <= call'[j].count /\ (call'[j].alone => Counting' = {j})
  <2>1. j \in Counting /\ j # i /\ j \in Slot /\ call'[j] = call[j]
    BY <1>2, <1>3, <1>7 DEF Counting
  <2>2. admitted' = admitted
    BY <1>4, <1>5, <2>1
  <2>3. QED  BY <1>3, <2>1, <2>2 DEF Limiting
<1>8. QED  BY <1>6, <1>7 DEF Limiting

LEMMA LimitingStep == DirectoryInv /\ Limiting /\ [Next]_vars => Limiting'
<1> SUFFICES ASSUME DirectoryInv, Limiting, [Next]_vars PROVE Limiting'
  OBVIOUS
<1>1. CASE UNCHANGED vars
  BY <1>1 DEF vars, Limiting, Counting
<1>2. CASE (\E u \in User : SignsIn(u)) \/ \E n \in Invite : Lapses(n)
  BY <1>2 DEF SignsIn, Lapses, tables, history, Limiting, Counting
<1>3. ASSUME NEW i \in Slot, Asking(i) \/ Working(i)
      PROVE  Limiting'
  <2>1. CASE Counts(i)
    BY <2>1, ReadsCounterLimits, WritesCounterLimits DEF Counts
  <2>2. CASE ~Counts(i)
    <3>1. PICK N : Goes(i, N) /\ N.pc # "count"
      BY <1>3, <2>2, StepGoes DEF Counts
    <3>2. UNCHANGED <<counter, admitted>>
      BY <1>3, <2>2, Leaves DEF Working, tables, history
    <3>3. QED  BY <3>1, <3>2, LimitingKept
  <2>3. QED  BY <2>1, <2>2
<1>4. QED  BY <1>1, <1>2, <1>3, StepIs

(* Requests that do not overlap are counted one by one: what the limiter   *)
(* has admitted alone is on the counter, which never passes the limit, and *)
(* on every count that some request still has in hand, so that a late      *)
(* write takes none of them back.                                          *)
THEOREM LimitIsKept == Spec => []LimitCounts
<1>1. Init => Limiting
  BY IdleFields DEF Init, Limiting, Counting
<1>2. DirectoryInv /\ Limiting => LimitCounts
  BY DirectoryAssumption DEF DirectoryInv, DirectoryTypeOK, Limiting, LimitCounts
<1>3. QED  BY <1>1, <1>2, LimitingStep, DirectoryTyped, PTL DEF Spec

(***************************************************************************)
(* Who is known has an account                                             *)
(***************************************************************************)
LEMMA RegroupIs ==
    ASSUME DirectoryInv, NEW i \in Slot, Regrouping(i)
    PROVE  /\ call[i].op = "role" /\ call[i].target \in User
           /\ \E G \in SUBSET Invitable : account' = [account EXCEPT ![call[i].target].groups = G]
<1>1. CASE AddsGroup(i)
  <2>1. /\ call[i].pc = "addgroup" /\ Goto(i, "dropgroup")
        /\ account' = [account EXCEPT ![call[i].target].groups =
                          account[call[i].target].groups \cup {CoarseOf(call[i].next)}]
    BY <1>1 DEF AddsGroup, Regroups
  <2>2. call[i].op = "role" /\ call[i].target \in User
    BY <2>1, RegroupsGoes
  <2>3. account[call[i].target].groups \cup {CoarseOf(call[i].next)} \in SUBSET Invitable
    BY <2>2, UserFields, CallFields, Ranks
  <2>4. QED  BY <2>1, <2>2, <2>3
<1>2. CASE DropsGroup(i)
  <2>1. /\ call[i].pc = "dropgroup" /\ Goto(i, "savemember")
        /\ account' = [account EXCEPT ![call[i].target].groups =
                          account[call[i].target].groups \ {call[i].seen}]
    BY <1>2 DEF DropsGroup, Regroups
  <2>2. call[i].op = "role" /\ call[i].target \in User
    BY <2>1, RegroupsGoes
  <2>3. account[call[i].target].groups \ {call[i].seen} \in SUBSET Invitable
    BY <2>2, UserFields
  <2>4. QED  BY <2>1, <2>2, <2>3
<1>3. CASE RollsBack(i)
  <2>1. account[call[i].target].groups \ {CoarseOf(call[i].next)} \in SUBSET Invitable
    BY <1>3, RollsBackIs, UserFields
  <2>2. QED  BY <1>3, <2>1, RollsBackIs
<1>4. QED  BY <1>1, <1>2, <1>3 DEF Regrouping

LEMMA GroupsSet ==
    ASSUME DirectoryInv, NEW u \in User, NEW G, account' = [account EXCEPT ![u].groups = G]
    PROVE  /\ account'[u].groups = G /\ account'[u].state = account[u].state
           /\ \A v \in User \ {u} : account'[v] = account[v]
<1>1. account[u] \in Account /\ account \in [User -> Account]
  BY DEF DirectoryInv, DirectoryTypeOK
<1> DEFINE a == [account[u] EXCEPT !.groups = G]
<1>2. a.groups = G /\ a.state = account[u].state
  BY <1>1 DEF Account
<1>3. account' = [account EXCEPT ![u] = a]
  BY <1>1
<1> HIDE DEF a
<1>4. QED  BY <1>1, <1>2, <1>3

(* An account keeps its groups when it is entered, enabled or confirmed. *)
LEMMA EnteringIs ==
    ASSUME DirectoryInv, NEW i \in Slot, Entering(i)
    PROVE  /\ call[i].target \in User
           /\ \A v \in User : account[v].groups \subseteq account'[v].groups
           /\ \A v \in User \ {call[i].target} : account'[v] = account[v]
           /\ \/ account'[call[i].target].state = account[call[i].target].state
              \/ account'[call[i].target].state = "challenged" /\ account[call[i].target] = NoAccount
           /\ CreatesAccount(i) => account'[call[i].target].state = "challenged"
<1>1. call[i].target \in User
  BY SetsEnabledGoes, CreatesAccountGoes, Groups1stGoes DEF Entering
<1>2. PICK u \in User : u = call[i].target
  BY <1>1
<1>3. account[u] \in Account /\ account \in [User -> Account]
  BY DEF DirectoryInv, DirectoryTypeOK
<1>4. CASE SetsEnabled(i)
  <2> DEFINE a == [account[u] EXCEPT !.enabled = call[i].on]
  <2>1. a.groups = account[u].groups /\ a.state = account[u].state
    BY <1>3 DEF Account
  <2>2. account' = [account EXCEPT ![u] = a]
    BY <1>2, <1>3, <1>4 DEF SetsEnabled
  <2>3. ~CreatesAccount(i)
    BY <1>4 DEF SetsEnabled, CreatesAccount, HasListed
  <2> HIDE DEF a
  <2>4. QED  BY <1>2, <1>3, <2>1, <2>2, <2>3
<1>5. CASE CreatesAccount(i)
  <2> DEFINE a == [account[u] EXCEPT !.state = "challenged"]
  <2>1. a.groups = account[u].groups /\ a.state = "challenged"
    BY <1>3 DEF Account
  <2>2. account' = [account EXCEPT ![u] = a] /\ account[u] = NoAccount
    BY <1>2, <1>3, <1>5 DEF CreatesAccount
  <2> HIDE DEF a
  <2>3. QED  BY <1>2, <1>3, <2>1, <2>2
<1>6. CASE Groups1st(i)
  <2>1. account' = [account EXCEPT ![u].groups = account[u].groups \cup {CoarseOf(call[i].next)}]
    BY <1>2, <1>3, <1>6 DEF Groups1st
  <2>2. ~CreatesAccount(i)
    BY <1>6 DEF Groups1st, CreatesAccount, HasListed
  <2>3. QED  BY <1>2, <2>1, <2>2, GroupsSet
<1>7. QED  BY <1>4, <1>5, <1>6 DEF Entering

LEMMA SignsInIs ==
    ASSUME DirectoryInv, NEW u \in User, SignsIn(u)
    PROVE  /\ Exists(u) /\ account[u].groups # {}
           /\ account'[u].state = "confirmed" /\ account'[u].groups = account[u].groups
           /\ \A v \in User \ {u} : account'[v] = account[v]
           /\ \A v \in User \ {u} : session'[v] = session[v]
<1>1. account[u] \in Account /\ account \in [User -> Account]
      /\ session \in [User -> Invitable \cup {"none"}]
  BY DEF DirectoryInv, DirectoryTypeOK
<1> DEFINE a == [account[u] EXCEPT !.state = "confirmed"]
<1>2. a.groups = account[u].groups /\ a.state = "confirmed"
  BY <1>1 DEF Account
<1>3. account' = [account EXCEPT ![u] = a] /\ Exists(u) /\ account[u].groups # {}
  BY <1>1 DEF SignsIn, Exists
<1> HIDE DEF a
<1>4. QED  BY <1>1, <1>2, <1>3 DEF SignsIn

(* Accounts and invitations do not go away. *)
Grown == /\ \A u \in User : Exists(u) => account'[u].state # "none"
         /\ \A n \in Invite : Issued(n) => /\ invitation'[n].state # "none"
                                           /\ invitation'[n].email = invitation[n].email

LEMMA InvitingIs ==
    ASSUME DirectoryInv, NEW i \in Slot, Inviting(i)
    PROVE  \E n \in Invite :
              /\ invitation'[n].state # "none"
              /\ \A m \in Invite \ {n} : invitation'[m] = invitation[m]
              /\ \/ Issues(i, n)
                 \/ /\ invitation'[n].email = invitation[n].email
                    /\ invitation'[n].role = invitation[n].role /\ invitation'[n].state # "pending"
                    /\ n \in call[i].pend \/ (n = call[i].invite /\ call[i].pc \in {"expire", "claim"})
<1>1. CASE Expires(i)
  <2>1. PICK n \in Invite : n = call[i].invite
    BY <1>1, ExpiresTyped
  <2>2. invitation' = [invitation EXCEPT ![n].state = "expired"] /\ call[i].pc = "expire"
    BY <1>1, <2>1 DEF Expires
  <2>3. QED  BY <2>1, <2>2, RestatedTyped
<1>2. CASE Claims(i)
  <2>1. PICK n \in Invite : n = call[i].invite
    BY <1>2, ClaimsGoes
  <2>2. invitation' = [invitation EXCEPT ![n].state = "accepted"] /\ call[i].pc = "claim"
    BY <1>2, <2>1 DEF Claims
  <2>3. QED  BY <2>1, <2>2, RestatedTyped
<1>3. ASSUME NEW n \in Invite, Issues(i, n)
      PROVE  invitation'[n].state # "none" /\ \A m \in Invite \ {n} : invitation'[m] = invitation[m]
  BY <1>3, IssuesIs
<1>4. ASSUME NEW n \in Invite, Revokes(i, n)
      PROVE  /\ invitation'[n].state # "none" /\ n \in call[i].pend
             /\ \A m \in Invite \ {n} : invitation'[m] = invitation[m]
             /\ invitation'[n].email = invitation[n].email
             /\ invitation'[n].role = invitation[n].role /\ invitation'[n].state # "pending"
  <2>1. invitation' = [invitation EXCEPT ![n].state = "revoked"] /\ n \in call[i].pend
    BY <1>4 DEF Revokes
  <2>2. QED  BY <2>1, RestatedTyped
<1>5. QED  BY <1>1, <1>2, <1>3, <1>4 DEF Inviting

LEMMA StepGrows ==
    ASSUME DirectoryInv, [Next]_vars
    PROVE  Grown
<1>1. CASE UNCHANGED vars
  BY <1>1 DEF vars, Grown, Exists, Issued
<1>2. ASSUME NEW u \in User, SignsIn(u) PROVE Grown
  <2>1. invitation' = invitation
    BY <1>2 DEF SignsIn
  <2>2. QED  BY <1>2, <2>1, SignsInIs DEF Grown, Exists, Issued
<1>3. CASE \E n \in Invite : Lapses(n)
  BY <1>3 DEF Lapses, tables, Grown, Exists, Issued
<1>4. ASSUME NEW i \in Slot, Asking(i) \/ Working(i)
      PROVE  Grown
  <2>1. CASE ~Inviting(i) /\ ~Regrouping(i) /\ ~Entering(i)
    <3>1. UNCHANGED <<account, invitation>>
      BY <1>4, <2>1, Leaves DEF Working, tables
    <3>2. QED  BY <3>1 DEF Grown, Exists, Issued
  <2>2. CASE Inviting(i)
    <3>1. account' = account
      BY <2>2, Leaves
    <3>2. QED  BY <2>2, <3>1, InvitingIs DEF Grown, Exists, Issued, Issues
  <2>3. CASE Regrouping(i)
    <3>1. invitation' = invitation
      BY <2>3, Leaves
    <3>2. PICK u \in User, G \in SUBSET Invitable : account' = [account EXCEPT ![u].groups = G]
      BY <2>3, RegroupIs
    <3>3. QED  BY <3>1, <3>2, GroupsSet DEF Grown, Exists, Issued
  <2>4. CASE Entering(i)
    <3>1. invitation' = invitation
      BY <2>4, Leaves
    <3>2. QED  BY <2>4, <3>1, EnteringIs DEF Grown, Exists, Issued
  <2>5. QED  BY <2>1, <2>2, <2>3, <2>4
<1>5. QED  BY <1>1, <1>2, <1>3, <1>4, StepIs

LEMMA IdleKnown == Known(Idle) /\ Known(Idle)'
BY IdleFields DEF Known

LEMMA KnownStays ==
    ASSUME Grown, NEW c \in Call, Shape(c), Known(c), NEW d, Alike(c, d)
    PROVE  Known(d)'
<1>1. /\ Belongs(c) /\ Has(c) /\ c.pend \subseteq Invite
      /\ d.pc = c.pc /\ d.op = c.op /\ d.actor = c.actor /\ d.target = c.target /\ d.at = c.at
      /\ d.invite = c.invite /\ d.found = c.found /\ d.pend = c.pend
  BY DEF Shape, Alike, Core, Mind, Load, Call
<1>2. d.pc = "savemember" => SubjectOf(c) \in User /\ SubjectOf(d) = SubjectOf(c)
  BY <1>1 DEF Belongs, Has, SubjectOf, Changing, Targeted
<1>3. d.actor \in User => Exists(d.actor)'
  BY <1>1 DEF Known, Grown, Exists
<1>4. d.pc = "reconcile" => Exists(d.at)'
  BY <1>1 DEF Known, Grown, Exists, Has
<1>5. d.found \/ (d.op = "invite" /\ d.pc \notin Before) => Exists(d.target)'
  BY <1>1 DEF Known, Grown, Exists, Has, Targeted
<1>6. d.pc = "savemember" => Exists(SubjectOf(d))'
  BY <1>1, <1>2 DEF Known, Grown, Exists
<1>7. \A n \in d.pend : Issued(n)'
  BY <1>1 DEF Known, Grown, Issued
<1>8. d.pc \in {"expire", "claim"} =>
         Issued(d.invite)' /\ (d.pc = "claim" => invitation'[d.invite].email = d.actor)
  <2>1. d.pc \in {"expire", "claim"} => d.invite \in Invite
    BY <1>1 DEF Belongs, Has
  <2>2. QED  BY <1>1, <2>1 DEF Known, Grown, Issued
<1>9. QED  BY <1>3, <1>4, <1>5, <1>6, <1>7, <1>8 DEF Known

LEMMA KnownGoesOn ==
    ASSUME Grown, NEW c \in Call, Shape(c), Known(c), NEW d,
           d.actor = c.actor, d.op = c.op, d.target = c.target, d.found => c.found, d.pend \subseteq c.pend,
           d.pc \notin {"reconcile", "savemember", "expire", "claim"},
           d.op = "invite" /\ d.pc \notin Before /\ c.pc \in Before => Exists(d.target)'
    PROVE  Known(d)'
<1>1. Has(c) /\ c.pend \subseteq Invite
  BY DEF Shape, Call
<1>2. d.actor \in User => Exists(d.actor)'
  BY DEF Known, Grown, Exists
<1>3. d.found \/ (d.op = "invite" /\ d.pc \notin Before) => Exists(d.target)'
  BY <1>1 DEF Known, Grown, Exists, Has, Targeted
<1>4. \A n \in d.pend : Issued(n)'
  BY <1>1 DEF Known, Grown, Issued
<1>5. QED  BY <1>2, <1>3, <1>4 DEF Known

(* The same for an invocation that goes to a point of its own. *)
LEMMA PassesKnown ==
    ASSUME DirectoryInv, Present, Grown, NEW i \in Slot, NEW N, call'[i] = N, Core(call[i], N),
           N.found => call[i].found, N.pend \subseteq call[i].pend,
           N.pc \notin {"reconcile", "savemember", "expire", "claim"},
           N.op = "invite" /\ N.pc \notin Before /\ call[i].pc \in Before => Exists(N.target)'
    PROVE  Known(call[i])'
<1>1. PICK c \in Call : c = call[i]
  BY IsCall
<1>2. Shape(c) /\ Known(c)
  BY <1>1, CallFields DEF Present
<1>3. Core(c, N) /\ (N.found => c.found) /\ N.pend \subseteq c.pend
      /\ (N.op = "invite" /\ N.pc \notin Before /\ c.pc \in Before => Exists(N.target)')
  BY <1>1
<1>4. Known(N)'
  BY <1>2, <1>3, KnownGoesOn DEF Core
<1>5. QED  BY <1>4

(* ... and one that is about to write a membership.                        *)
LEMMA WritesKnown ==
    ASSUME DirectoryInv, Present, Grown, NEW i \in Slot, NEW N, call'[i] = N, Core(call[i], N),
           N.found = call[i].found, N.pend = call[i].pend, N.pc = "savemember",
           call[i].pc \notin Before \/ N.op # "invite",
           SubjectOf(N) \in User, Exists(SubjectOf(N))
    PROVE  Known(call[i])'
<1>1. PICK c \in Call : c = call[i]
  BY IsCall
<1>2. Has(c) /\ Known(c) /\ c.pend \subseteq Invite
  BY <1>1, CallFields DEF Present
<1>3. /\ N.actor = c.actor /\ N.op = c.op /\ N.target = c.target /\ N.found = c.found
      /\ N.pend = c.pend /\ (c.pc \notin Before \/ N.op # "invite")
  BY <1>1 DEF Core
<1>4. N.actor \in User => Exists(N.actor)'
  BY <1>2, <1>3 DEF Known, Grown, Exists
<1>5. N.found \/ N.op = "invite" => Exists(N.target)'
  BY <1>2, <1>3 DEF Known, Grown, Exists, Has, Targeted
<1>6. \A n \in N.pend : Issued(n)'
  BY <1>2, <1>3 DEF Known, Grown, Issued
<1>7. Exists(SubjectOf(N))'
  BY DEF Grown, Exists
<1>8. Known(N)'
  BY <1>4, <1>5, <1>6, <1>7 DEF Known
<1>9. QED  BY <1>8

LEMMA SubjectSame == \A i : Subject(i) = SubjectOf(call[i])
BY DEF Subject, SubjectOf

LEMMA RecordingIs ==
    ASSUME DirectoryInv, NEW i \in Slot, Recording(i)
    PROVE  \E u \in User, d \in Member, op \in Ops :
              /\ Writes(u, d, op)
              /\ \/ u = call[i].actor
                 \/ u = call[i].at /\ call[i].pc = "reconcile"
                 \/ u = SubjectOf(call[i]) /\ call[i].pc = "savemember"
<1>1. CASE Backfills(i)
  BY <1>1, BackfillsGoes DEF Ops
<1>2. CASE Reconciles(i)
  BY <1>2, ReconcilesGoes DEF Ops
<1>3. CASE SavesMember(i)
  <2>1. call[i].op \in Ops
    BY <1>3, SavesMemberGoes DEF Changing, Ops
  <2>2. QED  BY <1>3, <2>1, SavesMemberGoes, SubjectSame DEF SavesMember
<1>4. CASE Joins(i)
  BY <1>4, JoinsIs DEF Ops
<1>5. QED  BY <1>1, <1>2, <1>3, <1>4 DEF Recording

LEMMA PeopleStay ==
    ASSUME DirectoryInv, Present, [Next]_vars, NEW u \in User
    PROVE  session'[u] # "none" \/ member'[u] # NoMember => Exists(u)'
<1>1. Grown
  BY StepGrows
<1>2. CASE UNCHANGED <<session, member>>
  BY <1>1, <1>2 DEF Present, Grown, Exists
<1>3. ASSUME NEW v \in User, SignsIn(v)
      PROVE  session'[u] # "none" \/ member'[u] # NoMember => Exists(u)'
  <2>1. /\ member' = member /\ account'[v].state = "confirmed"
        /\ \A w \in User \ {v} : session'[w] = session[w]
    BY <1>3, SignsInIs DEF SignsIn
  <2>2. QED  BY <1>1, <2>1 DEF Present, Grown, Exists
<1>4. ASSUME NEW i \in Slot, Recording(i)
      PROVE  session'[u] # "none" \/ member'[u] # NoMember => Exists(u)'
  <2>1. PICK v \in User, d \in Member, op \in Ops :
           /\ Writes(v, d, op)
           /\ \/ v = call[i].actor
              \/ v = call[i].at /\ call[i].pc = "reconcile"
              \/ v = SubjectOf(call[i]) /\ call[i].pc = "savemember"
    BY <1>4, RecordingIs
  <2>2. Known(call[i])
    BY DEF Present
  <2>3. Exists(v)
    BY <2>1, <2>2 DEF Known
  <2>4. session' = session /\ \A w \in User \ {v} : member'[w] = member[w]
    BY <1>4, <2>1, Leaves DEF Writes, fixed, DirectoryInv, DirectoryTypeOK
  <2>5. QED  BY <1>1, <2>3, <2>4 DEF Present, Grown, Exists
<1>5. ASSUME NEW i \in Slot, Asking(i) \/ Working(i), ~Recording(i)
      PROVE  UNCHANGED <<session, member>>
  BY <1>5, Leaves DEF Working, fixed, tables
<1>6. ASSUME NEW i \in Slot, Asking(i) \/ Working(i)
      PROVE  session'[u] # "none" \/ member'[u] # NoMember => Exists(u)'
  BY <1>2, <1>4, <1>5, <1>6
<1>7. CASE UNCHANGED vars \/ \E n \in Invite : Lapses(n)
  BY <1>2, <1>7 DEF vars, Lapses, tables
<1>8. QED
  BY <1>3, <1>6, <1>7, StepIs

LEMMA LettersStay ==
    ASSUME DirectoryInv, Present, [Next]_vars, NEW n \in Invite, Issued(n)'
    PROVE  invitation'[n].email \in User /\ account'[invitation'[n].email].state # "none"
<1>1. Grown
  BY StepGrows
<1>2. CASE invitation'[n] = invitation[n]
  BY <1>1, <1>2 DEF Present, Grown, Exists, Issued
<1>3. ASSUME NEW i \in Slot, Inviting(i), invitation'[n] # invitation[n]
      PROVE  invitation'[n].email \in User /\ account'[invitation'[n].email].state # "none"
  <2>1. PICK m \in Invite :
              /\ \A k \in Invite \ {m} : invitation'[k] = invitation[k]
              /\ \/ Issues(i, m)
                 \/ /\ invitation'[m].email = invitation[m].email
                    /\ m \in call[i].pend \/ (m = call[i].invite /\ call[i].pc \in {"expire", "claim"})
    BY <1>3, InvitingIs
  <2>2. m = n /\ Known(call[i])
    BY <1>3, <2>1 DEF Present
  <2>3. CASE Issues(i, n)
    <3>1. /\ call[i].op \in {"invite", "resend"} /\ call[i].pc = "issue" /\ call[i].target \in User
          /\ invitation'[n].email = call[i].target
      BY <2>3, IssuesGoes, IssuesIs
    <3>2. call[i].found \/ call[i].op = "invite"
      BY <3>1, CallFields DEF Has, Before
    <3>3. Exists(call[i].target)
      BY <2>2, <3>1, <3>2 DEF Known, Before
    <3>4. QED  BY <1>1, <3>1, <3>3 DEF Grown, Exists
  <2>4. CASE ~Issues(i, n)
    <3>1. Issued(n) /\ invitation'[n].email = invitation[n].email
      BY <2>1, <2>2, <2>4 DEF Known
    <3>2. QED  BY <1>1, <3>1 DEF Present, Grown, Exists
  <2>5. QED  BY <2>3, <2>4
<1>4. ASSUME NEW i \in Slot, Asking(i) \/ Working(i), ~Inviting(i)
      PROVE  invitation' = invitation
  BY <1>4, Leaves DEF Working, tables
<1>5. CASE UNCHANGED vars \/ (\E u \in User : SignsIn(u)) \/ \E m \in Invite : Lapses(m)
  BY <1>2, <1>5 DEF vars, SignsIn, Lapses, tables
<1>6. QED
  BY <1>2, <1>3, <1>4, <1>5, StepIs

LEMMA ReturnKnown ==
    ASSUME DirectoryInv, NEW i \in Slot, Goes(i, Idle)
    PROVE  Known(call[i])'
<1>1. call'[i] = Idle
  BY Moves
<1>2. QED  BY <1>1, IdleKnown

LEMMA AskingKnown ==
    ASSUME DirectoryInv, Present, Grown, NEW i \in Slot, Asking(i)
    PROVE  Known(call[i])'
<1>1. ASSUME NEW u \in User \cup {NoUser}, Request(i, u)
      PROVE  Known(call[i])'
  <2>1. PICK op \in Ops \ {"inspect"}, c, N \in Call :
              /\ Asks(i, u, op, c) /\ Goes(i, N) /\ N.op = op /\ N.actor = u
              /\ N.found = FALSE /\ N.pend = {} /\ N.pc \in {"readmember", "limit"} \cup Before
              /\ N.pc # "reconcile" /\ (N.pc = "backfill" \/ N.pc = First(op))
              /\ (op # "role" => N.next # "ORG_OWNER")
              /\ (N.pc = "backfill" => u \in User /\ N.doc = Backfilled(member[u], session[u])
                                          /\ session[u] \in Invitable)
    BY <1>1, RequestGoes
  <2>2. op = "invite" => N.pc \in Before
    BY <2>1 DEF First, Before
  <2>3. u \in User => session[u] # "none"
    BY <2>1, DirectoryAssumption DEF Asks
  <2>4. u \in User => Exists(u)'
    BY <2>3 DEF Present, Grown, Exists
  <2>5. Known(N)'
    BY <2>1, <2>2, <2>4 DEF Known, Before
  <2>6. call'[i] = N
    BY <2>1, Moves
  <2>7. QED  BY <2>5, <2>6
<1>2. ASSUME NEW n \in Invite, Inspects(i, n)
      PROVE  Known(call[i])'
  <2>1. PICK N \in Call : /\ Goes(i, N) /\ N.op = "inspect" /\ N.pc = "limit" /\ N.actor = NoUser
                          /\ N.found = FALSE /\ N.pend = {}
    BY <1>2, InspectsGoes
  <2>2. Known(N)'
    BY <2>1, DirectoryAssumption DEF Known
  <2>3. call'[i] = N
    BY <2>1, Moves
  <2>4. QED  BY <2>2, <2>3
<1>3. QED  BY <1>1, <1>2 DEF Asking

LEMMA ListsKnown ==
    ASSUME DirectoryInv, Present, Grown, NEW i \in Slot, Lists(i)
    PROVE  Known(call[i])'
<1>1. PICK N \in Call, v \in call[i].todo :
             /\ Goes(i, N) /\ v \in User /\ call[i].pc = "list"
             /\ Core(call[i], N) /\ N.pend = call[i].pend
             /\ N.found = (call[i].found \/ (v = call[i].target /\ v \in Listed))
             /\ \/ N.pc = "list" /\ (v \in Listed => member[v] \in Member)
                \/ N.pc = "reconcile" /\ v \in Listed /\ N.at = v
  BY ListsGoes
<1>2. PICK c \in Call : c = call[i]
  BY IsCall
<1>3. Has(c) /\ Known(c) /\ c.pend \subseteq Invite
  BY <1>2, CallFields DEF Present
<1>4. /\ N.actor = c.actor /\ N.op = c.op /\ N.target = c.target /\ N.pend = c.pend
      /\ N.found = (c.found \/ (v = c.target /\ v \in Listed))
  BY <1>1, <1>2 DEF Core
<1>5. v \in Listed => Exists(v)'
  BY <1>1, ReconcileMakes DEF Grown, Exists
<1>6. N.actor \in User => Exists(N.actor)'
  BY <1>3, <1>4 DEF Known, Grown, Exists
<1>7. N.found => Exists(N.target)'
  <2>1. CASE v = c.target /\ v \in Listed
    BY <1>4, <1>5, <2>1
  <2>2. CASE c.found
    BY <1>3, <1>4, <2>2 DEF Known, Has, Grown, Exists
  <2>3. QED  BY <1>4, <2>1, <2>2
<1>8. \A n \in N.pend : Issued(n)'
  BY <1>3, <1>4 DEF Known, Grown, Issued
<1>9. Known(N)'
  BY <1>1, <1>5, <1>6, <1>7, <1>8 DEF Known, Before
<1>10. call'[i] = N
  BY <1>1, Moves
<1>11. QED  BY <1>9, <1>10

LEMMA LooksUpKnown ==
    ASSUME DirectoryInv, Present, Grown, NEW i \in Slot, LooksUp(i)
    PROVE  Known(call[i])'
<1>1. CASE Goes(i, Idle)
  BY <1>1, ReturnKnown
<1>2. CASE ~Goes(i, Idle)
  <2>1. PICK n \in Invite : n = call[i].invite
    BY LooksUpGoes
  <2>2. PICK N \in Call :
             /\ Goes(i, N) /\ Core(call[i], N) /\ N.found = call[i].found
             /\ N.pend = call[i].pend
             /\ \/ N.pc = "expire"
                \/ N.pc = "claim" /\ N.op = "accept" /\ invitation[call[i].invite].email = call[i].actor
    BY <1>2, LooksUpGoes
  <2>3. invitation[n].state = "pending" /\ call[i].op \in {"accept", "inspect"}
    BY <1>2, <2>1, LooksUpGoes
  <2>4. PICK c \in Call : c = call[i]
    BY IsCall
  <2>5. Has(c) /\ Known(c) /\ c.pend \subseteq Invite
    BY <2>4, CallFields DEF Present
  <2>6. /\ N.actor = c.actor /\ N.op = c.op /\ N.target = c.target /\ N.pend = c.pend
        /\ N.found = c.found /\ N.invite = n /\ c.op \in {"accept", "inspect"}
        /\ N.pc = "expire" \/ (N.pc = "claim" /\ invitation[n].email = N.actor)
    BY <2>1, <2>2, <2>3, <2>4 DEF Core
  <2>7. Issued(N.invite)' /\ (N.pc = "claim" => invitation'[N.invite].email = N.actor)
    BY <2>3, <2>6 DEF Grown, Issued
  <2>8. N.actor \in User => Exists(N.actor)'
    BY <2>5, <2>6 DEF Known, Grown, Exists
  <2>9. N.found => Exists(N.target)'
    BY <2>5, <2>6 DEF Known, Has, Grown, Exists
  <2>10. \A m \in N.pend : Issued(m)'
    BY <2>5, <2>6 DEF Known, Grown, Issued
  <2>11. Known(N)'
    BY <2>6, <2>7, <2>8, <2>9, <2>10 DEF Known
  <2>12. call'[i] = N
    BY <2>2, Moves
  <2>13. QED  BY <2>11, <2>12
<1>3. QED  BY <1>1, <1>2

LEMMA FindsPendingKnown ==
    ASSUME DirectoryInv, Present, Grown, NEW i \in Slot, FindsPending(i)
    PROVE  Known(call[i])'
<1>1. PICK N \in Call :
            /\ Goes(i, N) /\ N.pc = "revoking" /\ Core(call[i], N)
            /\ N.pend = Pending(call[i].target) /\ N.found
  BY FindsPendingGoes
<1>2. PICK c \in Call : c = call[i]
  BY IsCall
<1>3. Known(c) /\ c.found /\ c.target \in User
  BY <1>2, FindsPendingGoes DEF Present
<1>4. N.actor = c.actor /\ N.op = c.op /\ N.target = c.target /\ N.pend = Pending(c.target)
  BY <1>1, <1>2 DEF Core
<1>5. N.actor \in User => Exists(N.actor)'
  BY <1>3, <1>4 DEF Known, Grown, Exists
<1>6. Exists(N.target)'
  BY <1>3, <1>4 DEF Known, Grown, Exists
<1>7. \A n \in N.pend : Issued(n)'
  BY <1>4 DEF Pending, Grown, Issued
<1>8. Known(N)'
  BY <1>1, <1>5, <1>6, <1>7 DEF Known
<1>9. call'[i] = N
  BY <1>1, Moves
<1>10. QED  BY <1>8, <1>9

LEMMA ReadsCounterKnown ==
    ASSUME DirectoryInv, Present, Grown, NEW i \in Slot, ReadsCounter(i)
    PROVE  Known(call[i])'
<1>1. CASE call'[i] = Idle
  BY <1>1, IdleKnown
<1>2. CASE call'[i] # Idle
  <2>1. PICK N : N = call'[i]
    OBVIOUS
  <2>2. N.pc = "count" /\ Core(call[i], N) /\ Mind(call[i], N) /\ Load(call[i], N)
    BY <1>2, <2>1, ReadsCounterGoes
  <2>3. call[i].op \in {"accept", "inspect"}
    BY CallFields DEF ReadsCounter, Belongs
  <2>4. N.op # "invite" /\ N.found = call[i].found /\ N.pend = call[i].pend
    BY <2>2, <2>3 DEF Core, Mind, Load
  <2>5. QED  BY <2>1, <2>2, <2>4, PassesKnown
<1>3. QED  BY <1>1, <1>2

LEMMA PassesOn ==
    ASSUME DirectoryInv, Present, Grown, NEW i \in Slot, NEW N \in Call, Goes(i, N), Core(call[i], N),
           N.found = call[i].found, N.pend \subseteq call[i].pend,
           N.pc \notin {"reconcile", "savemember", "expire", "claim"},
           call[i].op # "invite" \/ call[i].pc \notin Before \/ N.pc \in Before
    PROVE  Known(call[i])'
<1>1. call'[i] = N
  BY Moves
<1>2. N.op = "invite" /\ N.pc \notin Before => call[i].pc \notin Before
  BY DEF Core
<1>3. QED  BY <1>1, <1>2, PassesKnown

LEMMA ScansMembersKnown ==
    ASSUME DirectoryInv, Present, Grown, NEW i \in Slot, ScansMembers(i)
    PROVE  Known(call[i])'
<1>1. CASE Goes(i, Idle)
  BY <1>1, ReturnKnown
<1>2. CASE ~Goes(i, Idle)
  <2>1. PICK N \in Call :
                 /\ Goes(i, N) /\ Core(call[i], N) /\ Mind(call[i], N) /\ Load(call[i], N)
                 /\ N.pc \in {"savemember", "addgroup"}
    BY <1>2, ScansMembersGoes
  <2>2. call[i].op = "role" /\ call[i].found /\ call[i].target \in User /\ call'[i] = N
    BY <2>1, ScansMembersGoes, Moves
  <2>3. N.found = call[i].found /\ N.pend = call[i].pend /\ N.op = "role" /\ N.target = call[i].target
    BY <2>1, <2>2 DEF Mind, Load, Core
  <2>4. SubjectOf(N) = N.target /\ Exists(N.target) /\ N.target \in User
    BY <2>2, <2>3 DEF SubjectOf, Present, Known
  <2>5. CASE N.pc = "savemember"
    BY <2>1, <2>2, <2>3, <2>4, <2>5, WritesKnown
  <2>6. CASE N.pc = "addgroup"
    BY <2>1, <2>2, <2>3, <2>6, PassesOn
  <2>7. QED  BY <2>1, <2>5, <2>6
<1>3. QED  BY <1>1, <1>2

LEMMA DropsGroupKnown ==
    ASSUME DirectoryInv, Present, Grown, NEW i \in Slot, DropsGroup(i)
    PROVE  Known(call[i])'
<1>1. PICK N \in Call : Goes(i, N) /\ Turns(i, "savemember", N)
  BY RegroupsGoes DEF DropsGroup, Regroups
<1>2. call[i].op = "role" /\ call[i].found /\ call[i].target \in User /\ call'[i] = N
  BY <1>1, RegroupsGoes, Moves DEF DropsGroup, Regroups
<1>3. /\ N.found = call[i].found /\ N.pend = call[i].pend /\ N.op = "role"
      /\ N.target = call[i].target /\ N.pc = "savemember" /\ Core(call[i], N)
  BY <1>1, <1>2 DEF Turns, Mind, Load, Core
<1>4. SubjectOf(N) = N.target /\ Exists(N.target) /\ N.target \in User
  BY <1>2, <1>3 DEF SubjectOf, Present, Known
<1>5. QED  BY <1>2, <1>3, <1>4, WritesKnown

LEMMA Groups1stKnown ==
    ASSUME DirectoryInv, Present, Grown, NEW i \in Slot, Groups1st(i)
    PROVE  Known(call[i])'
<1>1. PICK N \in Call :
              /\ Goes(i, N) /\ Core(call[i], N) /\ Mind(call[i], N) /\ Load(call[i], N)
              /\ N.pc = "savemember"
  BY Groups1stGoes
<1>2. call[i].op = "invite" /\ call[i].pc = "grouping" /\ call[i].target \in User /\ call'[i] = N
  BY <1>1, Groups1stGoes, Moves
<1>3. /\ N.found = call[i].found /\ N.pend = call[i].pend /\ N.op = "invite"
      /\ N.target = call[i].target
  BY <1>1, <1>2 DEF Mind, Load, Core
<1>4. SubjectOf(N) = N.target /\ Exists(N.target) /\ N.target \in User
  BY <1>2, <1>3 DEF SubjectOf, Present, Known, Before
<1>5. QED  BY <1>1, <1>2, <1>3, <1>4, WritesKnown DEF Before

LEMMA ReadsMemberKnown ==
    ASSUME DirectoryInv, Present, Grown, NEW i \in Slot, ReadsMember(i)
    PROVE  Known(call[i])'
<1>1. CASE Goes(i, Idle)
  BY <1>1, ReturnKnown
<1>2. CASE ~Goes(i, Idle)
  <2>1. PICK N \in Call :
              /\ Goes(i, N) /\ Core(call[i], N) /\ Mind(call[i], N) /\ Load(call[i], N)
              /\ N.pc = "dropteam" \/ (N.pc = "savemember" /\ member[Subject(i)] \in Member)
    BY <1>2, ReadsMemberGoes
  <2>2. /\ call[i].pc = "readmember" /\ call[i].op \in Changing /\ Subject(i) \in User
        /\ call'[i] = N
    BY <2>1, ReadsMemberGoes, Moves
  <2>3. /\ N.found = call[i].found /\ N.pend = call[i].pend /\ call[i].op # "invite"
        /\ N.op = call[i].op
    BY <2>1, <2>2 DEF Mind, Load, Core, Changing
  <2>4. SubjectOf(N) = Subject(i)
    BY <2>1 DEF SubjectOf, Subject, Core, Load
  <2>5. CASE N.pc = "savemember"
    <3>1. member[Subject(i)] # NoMember
      BY <2>1, <2>5, MemberFields
    <3>2. Exists(SubjectOf(N))
      BY <2>2, <2>4, <3>1 DEF Present
    <3>3. QED  BY <2>1, <2>2, <2>3, <2>4, <2>5, <3>2, WritesKnown
  <2>6. CASE N.pc = "dropteam"
    BY <2>1, <2>2, <2>3, <2>6, PassesOn
  <2>7. QED  BY <2>1, <2>5, <2>6
<1>3. QED  BY <1>1, <1>2

LEMMA SavesMemberKnown ==
    ASSUME DirectoryInv, Present, Grown, NEW i \in Slot, SavesMember(i) \/ SkipsMember(i)
    PROVE  Known(call[i])'
<1>1. CASE Goes(i, Idle)
  BY <1>1, ReturnKnown
<1>2. CASE ~Goes(i, Idle)
  <2>1. PICK N \in Call :
              /\ Goes(i, N) /\ Core(call[i], N) /\ Mind(call[i], N) /\ Load(call[i], N)
              /\ N.pc \in {"dropteam", "issue"}
    BY <1>2, SavesMemberGoes
  <2>2. call[i].pc \notin Before /\ N.found = call[i].found /\ N.pend = call[i].pend
    BY <2>1, SavesMemberGoes DEF Mind, Load, Before
  <2>3. QED  BY <2>1, <2>2, PassesOn
<1>3. QED  BY <1>1, <1>2

LEMMA IssuesKnown ==
    ASSUME DirectoryInv, Present, Grown, NEW i \in Slot, NEW n \in Invite, Issues(i, n)
    PROVE  Known(call[i])'
<1>1. PICK N \in Call : /\ Goes(i, N) /\ N.pc = "index" /\ N.op = call[i].op
                        /\ N.actor = call[i].actor /\ N.target = call[i].target
                        /\ N.invite = n /\ Mind(call[i], N) /\ Load(call[i], N)
  BY IssuesGoes
<1>2. PICK c \in Call : c = call[i]
  BY IsCall
<1>3. Shape(c) /\ Known(c) /\ c.pc = "issue"
  BY <1>2, CallFields, IssuesGoes DEF Present
<1>4. /\ N.op = c.op /\ N.actor = c.actor /\ N.target = c.target
      /\ N.found = c.found /\ N.pend = c.pend
  BY <1>1, <1>2 DEF Mind, Load
<1>5. Known(N)'
  BY <1>1, <1>3, <1>4, KnownGoesOn DEF Before
<1>6. call'[i] = N
  BY <1>1, Moves
<1>7. QED  BY <1>5, <1>6

LEMMA CreatesAccountKnown ==
    ASSUME DirectoryInv, Present, Grown, NEW i \in Slot, CreatesAccount(i)
    PROVE  Known(call[i])'
<1>1. PICK N \in Call : Goes(i, N) /\ Turns(i, "grouping", N)
  BY CreatesAccountGoes
<1>2. /\ N.found = call[i].found /\ N.pend = call[i].pend /\ N.target = call[i].target
      /\ N.pc = "grouping" /\ Core(call[i], N)
  BY <1>1 DEF Turns, Mind, Load, Core
<1>3. Exists(N.target)'
  BY <1>2, EnteringIs DEF Entering, Exists
<1>4. call'[i] = N
  BY <1>1, Moves
<1>5. QED  BY <1>2, <1>3, <1>4, PassesKnown

(* Every other step goes on with what is known. *)
LEMMA OthersKnown ==
    ASSUME DirectoryInv, Present, Grown, NEW i \in Slot
    PROVE  /\ Backfills(i) \/ Reconciles(i) \/ DropsMember(i) => Known(call[i])'
           /\ DropFails(i) \/ AddsGroup(i) \/ SetsEnabled(i) => Known(call[i])'
           /\ EndsRevoking(i) \/ (\E n \in Invite : Revokes(i, n)) \/ Claims(i) => Known(call[i])'
           /\ WritesCounter(i) \/ CounterFails(i) => Known(call[i])'
           /\ ReadsTeam(i) \/ SavesTeam(i) => Known(call[i])'
<1>1. ASSUME Backfills(i) PROVE Known(call[i])'
  <2>1. PICK N \in Call : /\ Goes(i, N) /\ N.pc = First(call[i].op)
                          /\ Core(call[i], N) /\ Mind(call[i], N) /\ Load(call[i], N)
    BY <1>1, BackfillsGoes
  <2>2. /\ N.pc \notin {"reconcile", "savemember", "expire", "claim"}
        /\ call[i].op = "invite" => N.pc \in Before
    BY <2>1 DEF First, Before
  <2>3. QED  BY <2>1, <2>2, PassesOn DEF Mind, Load
<1>2. ASSUME Reconciles(i) PROVE Known(call[i])'
  <2>1. PICK N \in Call : /\ Goes(i, N) /\ N.pc = "list" /\ Core(call[i], N) /\ Mind(call[i], N)
                          /\ N.pend = call[i].pend
    BY <1>2, ReconcilesGoes
  <2>2. QED  BY <2>1, PassesOn DEF Mind, Before
<1>3. ASSUME DropsMember(i) PROVE Known(call[i])'
  <2>1. PICK N \in Call : /\ Goes(i, N) /\ Core(call[i], N) /\ Mind(call[i], N)
                          /\ N.pend = call[i].pend /\ N.pc = "readmember"
    BY <1>3, DropsMemberGoes
  <2>2. call[i].op # "invite"
    BY <1>3, DropsMemberGoes
  <2>3. QED  BY <2>1, <2>2, PassesOn DEF Mind
<1>4. ASSUME DropFails(i) \/ AddsGroup(i) PROVE Known(call[i])'
  <2>1. PICK pc \in {"dropgroup", "rollback"}, N \in Call : Goes(i, N) /\ Turns(i, pc, N)
    BY <1>4, RegroupsGoes DEF DropFails, AddsGroup, Regroups
  <2>2. call[i].op # "invite"
    BY <1>4, RegroupsGoes DEF DropFails, AddsGroup, Regroups
  <2>3. QED  BY <2>1, <2>2, PassesOn DEF Turns, Mind, Load
<1>5. ASSUME SetsEnabled(i) PROVE Known(call[i])'
  <2>1. PICK N \in Call : /\ Goes(i, N) /\ Turns(i, N.pc, N)
                          /\ N.pc = IF call[i].op = "status" THEN "readmember" ELSE "pending"
    BY <1>5, SetsEnabledGoes
  <2>2. call[i].op # "invite"
    BY <1>5, SetsEnabledGoes
  <2>3. QED  BY <2>1, <2>2, PassesOn DEF Turns, Mind, Load
<1>6. ASSUME EndsRevoking(i) PROVE Known(call[i])'
  <2>1. PICK N \in Call : /\ Goes(i, N) /\ Turns(i, N.pc, N)
                          /\ N.pc = IF call[i].op = "resend" THEN "issue" ELSE "readmember"
    BY <1>6, EndsRevokingGoes
  <2>2. call[i].op # "invite"
    BY <1>6, EndsRevokingGoes
  <2>3. QED  BY <2>1, <2>2, PassesOn DEF Turns, Mind, Load
<1>7. ASSUME NEW n \in Invite, Revokes(i, n) PROVE Known(call[i])'
  <2>1. PICK N \in Call :
              /\ Goes(i, N) /\ N.pc = "revoking" /\ Core(call[i], N) /\ Mind(call[i], N)
              /\ N.pend = call[i].pend \ {n}
    BY <1>7, RevokesGoes
  <2>2. call[i].pc \notin Before
    BY <1>7, RevokesGoes DEF Before
  <2>3. QED  BY <2>1, <2>2, PassesOn DEF Mind
<1>8. ASSUME Claims(i) PROVE Known(call[i])'
  <2>1. PICK N \in Call : Goes(i, N) /\ Turns(i, "join", N)
    BY <1>8, ClaimsGoes
  <2>2. call[i].op # "invite"
    BY <1>8, ClaimsGoes
  <2>3. QED  BY <2>1, <2>2, PassesOn DEF Turns, Mind, Load
<1>9. ASSUME WritesCounter(i) \/ CounterFails(i) PROVE Known(call[i])'
  <2>1. PICK N \in Call : /\ Goes(i, N) /\ N.pc = "lookup" /\ Core(call[i], N) /\ Mind(call[i], N)
                          /\ Load(call[i], N)
    BY <1>9, CountsGoes
  <2>2. call[i].pc \notin Before
    BY <1>9, CountsGoes DEF Before
  <2>3. QED  BY <2>1, <2>2, PassesOn DEF Mind, Load
<1>10. ASSUME ReadsTeam(i) PROVE Known(call[i])'
  <2>1. CASE Goes(i, Idle)
    BY <2>1, ReturnKnown
  <2>2. CASE ~Goes(i, Idle)
    <3>1. PICK N \in Call :
                /\ Goes(i, N) /\ Core(call[i], N) /\ Mind(call[i], N) /\ N.pend = call[i].pend
                /\ N.pc \in {"list", "dropteam", "saveteam"}
      BY <1>10, <2>2, ReadsTeamGoes
    <3>2. call[i].op # "invite"
      BY <1>10, ReadsTeamGoes
    <3>3. QED  BY <3>1, <3>2, PassesOn DEF Mind
  <2>3. QED  BY <2>1, <2>2
<1>11. ASSUME SavesTeam(i) PROVE Known(call[i])'
  <2>1. CASE Goes(i, Idle)
    BY <2>1, ReturnKnown
  <2>2. CASE ~Goes(i, Idle)
    <3>1. PICK N \in Call : Goes(i, N) /\ Turns(i, "readmember", N)
      BY <1>11, <2>2, SavesTeamGoes
    <3>2. call[i].op # "invite"
      BY <1>11, SavesTeamGoes
    <3>3. QED  BY <3>1, <3>2, PassesOn DEF Turns, Mind, Load
  <2>3. QED  BY <2>1, <2>2
<1>12. QED  BY <1>1, <1>2, <1>3, <1>4, <1>5, <1>6, <1>7, <1>8, <1>9, <1>10, <1>11

LEMMA WorkingKnown ==
    ASSUME DirectoryInv, Present, Grown, NEW i \in Slot, Working(i)
    PROVE  Known(call[i])'
<1>1. Quiet(i) => Known(call[i])'
  BY EndsListingGoes, ReturnsGo, ReturnKnown, ListsKnown, ScansMembersKnown, ReadsMemberKnown,
     SavesMemberKnown, FindsPendingKnown, LooksUpKnown, OthersKnown DEF Quiet
<1>2. Recording(i) \/ Regrouping(i) => Known(call[i])'
  BY ReturnsGo, ReturnKnown, SavesMemberKnown, DropsGroupKnown, OthersKnown DEF Recording, Regrouping
<1>3. Entering(i) \/ Inviting(i) => Known(call[i])'
  BY ReturnsGo, ReturnKnown, CreatesAccountKnown, Groups1stKnown, IssuesKnown, OthersKnown
     DEF Entering, Inviting
<1>4. TeamWriting(i) \/ Indexes(i) \/ Counts(i) => Known(call[i])'
  BY ReturnsGo, ReturnKnown, IndexesGoes, ReadsCounterKnown, OthersKnown DEF TeamWriting, Counts
<1>5. QED  BY <1>1, <1>2, <1>3, <1>4 DEF Working

LEMMA PresentStep == DirectoryInv /\ Present /\ [Next]_vars => Present'
<1> SUFFICES ASSUME DirectoryInv, Present, [Next]_vars PROVE Present'
  OBVIOUS
<1>1. Grown
  BY StepGrows
<1>2. ASSUME NEW j \in Slot, Alike(call[j], call'[j]) PROVE Known(call[j])'
  <2>1. PICK c \in Call : c = call[j]
    BY IsCall
  <2>2. PICK d : d = call'[j]
    OBVIOUS
  <2>3. Shape(c) /\ Known(c) /\ Alike(c, d)
    BY <1>2, <2>1, <2>2, CallFields DEF Present
  <2>4. Known(d)'
    BY <1>1, <2>3, KnownStays
  <2>5. QED  BY <2>2, <2>4
<1>3. ASSUME NEW j \in Slot PROVE Known(call[j])'
  <2>1. CASE call' = call
    BY <1>2, <2>1, AlikeSelf
  <2>2. ASSUME NEW i \in Slot, Asking(i) \/ Working(i) PROVE Known(call[j])'
    <3>1. CASE j = i
      BY <1>1, <2>2, <3>1, AskingKnown, WorkingKnown
    <3>2. CASE j # i
      BY <1>2, <2>2, <3>2, StepOthers DEF Others
    <3>3. QED  BY <3>1, <3>2
  <2>3. CASE UNCHANGED vars \/ (\E u \in User : SignsIn(u)) \/ \E m \in Invite : Lapses(m)
    BY <2>1, <2>3 DEF vars, SignsIn, Lapses
  <2>4. QED  BY <2>2, <2>3, StepIs
<1>4. \A u \in User : session'[u] # "none" \/ member'[u] # NoMember => account'[u].state # "none"
  BY PeopleStay DEF Exists
<1>5. \A n \in Invite : invitation'[n].state # "none" =>
         invitation'[n].email \in User /\ account'[invitation'[n].email].state # "none"
  BY LettersStay DEF Issued
<1>6. (\A u \in User : session[u] # "none" \/ member[u] # NoMember => Exists(u))'
  BY <1>4 DEF Exists
<1>7. (\A n \in Invite : Issued(n) => invitation[n].email \in User /\ Exists(invitation[n].email))'
  BY <1>5 DEF Exists, Issued
<1>8. (\A i \in Slot : Known(call[i]))'
  BY <1>3
<1>9. QED  BY <1>6, <1>7, <1>8 DEF Present

(* Whoever is signed in, is a member or was invited has an account.        *)
THEOREM PresentHolds == Spec => []Present
<1>1. Init => Present
  <2> SUFFICES ASSUME Init PROVE Present
    OBVIOUS
  <2>1. \A u \in User : session[u] = "none" /\ (member[u] # NoMember => Exists(u))
    BY DEF Init, Exists
  <2>2. \A n \in Invite : ~Issued(n)
    BY DEF Init, Issued, NoInvitation
  <2>3. \A i \in Slot : Known(call[i])
    BY IdleKnown DEF Init
  <2>4. QED  BY <2>1, <2>2, <2>3 DEF Present
<1>2. QED  BY <1>1, PresentStep, DirectoryTyped, PTL DEF Spec

(***************************************************************************)
(* One invitation of a person is open                                      *)
(***************************************************************************)
(* Nothing is issued. *)
Shrunk == \A u \in User : \A n \in Invite :
             invitation'[n].state = "pending" /\ invitation'[n].email = u =>
             invitation[n].state = "pending" /\ invitation[n].email = u

LEMMA LinksStay ==
    ASSUME Shrunk, NEW c \in Call, Shape(c), Links(c), NEW d, Alike(c, d)
    PROVE  Links(d)'
<1>1. /\ d.pc = c.pc /\ d.op = c.op /\ d.target = c.target /\ d.pend = c.pend
      /\ Issuing(c) => c.target \in User
  BY DEF Alike, Core, Load, Shape, Has, Targeted, Issuing
<1>2. QED  BY <1>1 DEF Links, Issuing, Clear, Shrunk, Pending

LEMMA LinkingKept ==
    ASSUME DirectoryInv, Linking, NEW i \in Slot, Others(i), Shrunk, contested' = contested,
           NEW N, call'[i] = N, Issuing(N) => Issuing(call[i]), contested \/ Links(N)'
    PROVE  Linking'
<1>1. CASE contested
  BY <1>1 DEF Linking
<1>2. CASE ~contested
  <2>1. ASSUME NEW u \in User, NEW m \in Pending(u)', NEW n \in Pending(u)'
        PROVE  m = n
    BY <1>2, <2>1 DEF Shrunk, Pending, Linking
  <2>2. ASSUME NEW j \in Slot
        PROVE  Links(call[j])' /\ (Issuing(call'[j]) => Issuing(call[j]))
    <3>1. CASE j = i
      BY <1>2, <3>1
    <3>2. CASE j # i
      <4>1. PICK c \in Call : c = call[j]
        BY IsCall
      <4>2. PICK d : d = call'[j]
        OBVIOUS
      <4>3. Shape(c) /\ Links(c) /\ Alike(c, d)
        BY <1>2, <3>2, <4>1, <4>2, CallFields DEF Linking, Others
      <4>4. Links(d)' /\ (Issuing(d) => Issuing(c))
        BY <4>3, LinksStay DEF Alike, Core, Issuing
      <4>5. QED  BY <4>1, <4>2, <4>4
    <3>3. QED  BY <3>1, <3>2
  <2>3. \A j, k \in Slot : Issuing(call'[j]) /\ Issuing(call'[k]) => j = k
    BY <1>2, <2>2 DEF Linking
  <2>4. (\A u \in User : \A m, n \in Pending(u) : m = n)'
    BY <2>1
  <2>5. (\A j, k \in Slot : Issuing(call[j]) /\ Issuing(call[k]) => j = k)'
    BY <2>3 DEF Issuing
  <2>6. (\A j \in Slot : Links(call[j]))'
    BY <2>2
  <2>7. QED  BY <2>4, <2>5, <2>6 DEF Linking
<1>3. QED  BY <1>1, <1>2

LEMMA StepShrinks ==
    ASSUME DirectoryInv, NEW i \in Slot, Asking(i) \/ Working(i), \A n \in Invite : ~Issues(i, n)
    PROVE  Shrunk
<1>1. CASE ~Inviting(i)
  BY <1>1, Leaves DEF Working, tables, Shrunk
<1>2. CASE Inviting(i)
  BY <1>2, InvitingIs DEF Shrunk
<1>3. QED  BY <1>1, <1>2

(* What a request goes on to. *)
Follows(i, N) == Goes(i, N) /\ (N.op = call[i].op \/ N.op = "none")

LEMMA PlainLinks ==
    ASSUME DirectoryInv, NEW i \in Slot, Working(i),
           ~CreatesAccount(i), ~Groups1st(i), ~SavesMember(i), ~SkipsMember(i), ~EndsRevoking(i),
           ~FindsPending(i), ~ReadsCounter(i), \A n \in Invite : ~Issues(i, n) /\ ~Revokes(i, n)
    PROVE  \E N : /\ Follows(i, N)
                  /\ Issuing(N) => N.pc \notin {"grouping", "issue", "savemember", "revoking"}
<1>2. CASE DropFails(i) \/ AddsGroup(i) \/ DropsGroup(i)
  BY <1>2, RegroupsGoes DEF DropFails, AddsGroup, DropsGroup, Regroups, Turns, Follows, Issuing, Core
<1>3. CASE ClaimRefused(i) \/ Dies(i) \/ RollsBack(i) \/ Expires(i) \/ Joins(i)
           \/ CreatesTeam(i) \/ DropsTeam(i)
  BY <1>3, ReturnsGo, IdleFields DEF Follows, Issuing
<1>4. CASE EndsListing(i) \/ Lists(i) \/ DropsMember(i) \/ ScansMembers(i)
  BY <1>4, EndsListingGoes, ListsGoes, DropsMemberGoes, ScansMembersGoes, IdleFields
     DEF Follows, Issuing, Core
<1>5. CASE ReadsMember(i)
  BY <1>5, ReadsMemberGoes, IdleFields DEF Follows, Issuing, Core, Changing
<1>7. CASE CounterFails(i) \/ WritesCounter(i) \/ LooksUp(i)
  BY <1>7, CountsGoes, LooksUpGoes, IdleFields DEF Follows, Issuing, Core
<1>8. CASE ReadsTeam(i) \/ SavesTeam(i)
  BY <1>8, ReadsTeamGoes, SavesTeamGoes, IdleFields DEF Turns, Follows, Issuing, Core
<1>9. CASE Backfills(i) \/ Reconciles(i) \/ Indexes(i) \/ Claims(i)
  <2>1. First(call[i].op) \notin {"grouping", "issue", "savemember", "revoking"}
    BY DEF First
  <2>2. CASE Backfills(i)
    BY <2>1, <2>2, BackfillsGoes DEF Follows, Core
  <2>3. CASE Reconciles(i) \/ Indexes(i) \/ Claims(i)
    BY <2>3, ReconcilesGoes, IndexesGoes, ClaimsGoes, IdleFields DEF Turns, Follows, Issuing, Core
  <2>4. QED  BY <1>9, <2>2, <2>3
<1>10. CASE SetsEnabled(i)
  BY <1>10, SetsEnabledGoes DEF Turns, Follows, Issuing, Core
<1>12. QED
  BY <1>2, <1>3, <1>4, <1>5, <1>7, <1>8, <1>9, <1>10
     DEF Working, Quiet, Recording, Regrouping, Entering, Inviting, TeamWriting, Counts

LEMMA ClearLinks ==
    ASSUME Shrunk, NEW N, N.target \in User, Pending(N.target) = {}, N.pc # "revoking"
    PROVE  Links(N)'
BY DEF Shrunk, Links, Pending

LEMMA IdleLinks == Links(Idle) /\ Links(Idle)'
BY IdleFields DEF Links, Issuing

LEMMA ClearingLinks ==
    ASSUME DirectoryInv, Present, Linking, ~contested, Shrunk, NEW i \in Slot,
           \/ CreatesAccount(i) \/ Groups1st(i) \/ SavesMember(i) \/ SkipsMember(i) \/ EndsRevoking(i)
    PROVE  \E N : Follows(i, N) /\ Links(N)'
<1>1. PICK c \in Call : c = call[i]
  BY IsCall
<1>2. Links(c)
  BY <1>1 DEF Linking
<1>3. CASE CreatesAccount(i)
  <2>1. PICK N \in Call : Goes(i, N) /\ Turns(i, "grouping", N)
    BY <1>3, CreatesAccountGoes
  <2>2. N.op = c.op /\ N.target = c.target /\ N.pc = "grouping" /\ c.target \in User
    BY <1>1, <1>3, <2>1, CreatesAccountGoes DEF Turns, Core
  <2>3. ~Exists(c.target)
    BY <1>1, <1>3 DEF CreatesAccount, Exists, NoAccount
  <2>4. Pending(c.target) = {}
    BY <2>3 DEF Present, Pending, Issued
  <2>5. QED  BY <1>1, <2>1, <2>2, <2>4, ClearLinks DEF Follows
<1>4. CASE Groups1st(i)
  <2>1. PICK N \in Call :
              /\ Goes(i, N) /\ Core(call[i], N) /\ Mind(call[i], N) /\ Load(call[i], N)
              /\ N.pc = "savemember"
    BY <1>4, Groups1stGoes
  <2>2. /\ N.op = c.op /\ N.target = c.target /\ N.pc = "savemember" /\ c.target \in User
        /\ c.op = "invite" /\ c.pc = "grouping"
    BY <1>1, <1>4, <2>1, Groups1stGoes DEF Core
  <2>3. Pending(c.target) = {}
    BY <1>2, <2>2 DEF Links, Issuing, Clear
  <2>4. QED  BY <1>1, <2>1, <2>2, <2>3, ClearLinks DEF Follows
<1>5. CASE SavesMember(i) \/ SkipsMember(i)
  <2>1. CASE Goes(i, Idle)
    BY <2>1, IdleLinks, IdleFields DEF Follows
  <2>2. CASE ~Goes(i, Idle)
    <3>1. PICK N \in Call :
                /\ Goes(i, N) /\ Core(call[i], N) /\ Mind(call[i], N) /\ Load(call[i], N)
                /\ \/ N.op = "delete" /\ N.pc = "dropteam"
                   \/ N.op = "invite" /\ N.pc = "issue"
      BY <1>5, <2>2, SavesMemberGoes
    <3>2. N.op = c.op /\ N.target = c.target /\ c.pc = "savemember"
      BY <1>1, <1>5, <3>1, SavesMemberGoes DEF Core
    <3>3. CASE N.op = "delete"
      BY <1>1, <3>1, <3>2, <3>3 DEF Follows, Links, Issuing
    <3>4. CASE N.op = "invite"
      <4>1. Pending(c.target) = {} /\ c.target \in User /\ N.pc # "revoking"
        BY <1>1, <1>2, <3>1, <3>2, <3>4, CallFields DEF Links, Issuing, Clear, Has, Targeted
      <4>2. QED  BY <1>1, <3>1, <3>2, <4>1, ClearLinks DEF Follows
    <3>5. QED  BY <3>1, <3>3, <3>4
  <2>3. QED  BY <2>1, <2>2
<1>6. CASE EndsRevoking(i)
  <2>1. PICK N \in Call :
              /\ Goes(i, N) /\ Turns(i, N.pc, N)
              /\ N.pc = IF call[i].op = "resend" THEN "issue" ELSE "readmember"
    BY <1>6, EndsRevokingGoes
  <2>2. /\ c.op \in {"resend", "revoke"} /\ c.pc = "revoking" /\ c.pend = {} /\ c.target \in User
        /\ N.op = c.op /\ N.target = c.target
    BY <1>1, <1>6, <2>1, EndsRevokingGoes DEF Turns, Core
  <2>3. CASE c.op = "revoke"
    BY <1>1, <2>1, <2>2, <2>3 DEF Follows, Links, Issuing
  <2>4. CASE c.op = "resend"
    <3>1. Pending(c.target) = {} /\ N.pc # "revoking"
      BY <1>1, <1>2, <2>1, <2>2, <2>4 DEF Links, Issuing
    <3>2. QED  BY <1>1, <2>1, <2>2, <3>1, ClearLinks DEF Follows
  <2>5. QED  BY <2>2, <2>3, <2>4
<1>7. QED  BY <1>3, <1>4, <1>5, <1>6

LEMMA RevokingLinks ==
    ASSUME DirectoryInv, Linking, ~contested, Shrunk, NEW i \in Slot,
           FindsPending(i) \/ \E n \in Invite : Revokes(i, n)
    PROVE  \E N : Follows(i, N) /\ Links(N)'
<1>1. PICK c \in Call : c = call[i]
  BY IsCall
<1>2. Links(c)
  BY <1>1 DEF Linking
<1>3. CASE FindsPending(i)
  <2>1. PICK N \in Call :
              /\ Goes(i, N) /\ N.pc = "revoking" /\ Core(call[i], N)
              /\ N.pend = Pending(call[i].target)
    BY <1>3, FindsPendingGoes
  <2>2. /\ N.op = c.op /\ N.target = c.target /\ N.pend = Pending(c.target) /\ c.target \in User
    BY <1>1, <1>3, <2>1, FindsPendingGoes DEF Core
  <2>3. Links(N)'
    BY <2>1, <2>2 DEF Links, Issuing, Clear, Shrunk, Pending
  <2>4. QED  BY <1>1, <2>1, <2>2, <2>3 DEF Follows
<1>4. ASSUME NEW n \in Invite, Revokes(i, n)
      PROVE  \E N : Follows(i, N) /\ Links(N)'
  <2>1. PICK N \in Call :
              /\ Goes(i, N) /\ N.pc = "revoking" /\ Core(call[i], N) /\ Mind(call[i], N)
              /\ N.pend = call[i].pend \ {n}
    BY <1>4, RevokesGoes
  <2>2. /\ N.op = c.op /\ N.target = c.target /\ N.pend = c.pend \ {n} /\ c.pc = "revoking"
        /\ Issuing(c) => c.target \in User
    BY <1>1, <1>4, <2>1, RevokesGoes, CallFields DEF Core, Has, Targeted, Issuing
  <2>3. invitation'[n].state = "revoked"
    BY <1>4, RestatedTyped DEF Revokes
  <2>4. Issuing(N) => \A m \in Pending(N.target)' : m \in N.pend
    BY <1>2, <2>2, <2>3 DEF Links, Issuing, Shrunk, Pending
  <2>5. Links(N)'
    BY <2>1, <2>4 DEF Links, Issuing, Clear
  <2>6. QED  BY <1>1, <2>1, <2>2, <2>5 DEF Follows
<1>5. QED  BY <1>3, <1>4

LEMMA WorkingLinks ==
    ASSUME DirectoryInv, Present, Linking, NEW i \in Slot, Working(i), \A n \in Invite : ~Issues(i, n)
    PROVE  Linking'
<1>1. Others(i) /\ Shrunk
  BY StepOthers, StepShrinks
<1>2. contested' = contested
  BY Leaves DEF Working, history
<1>3. ASSUME NEW N, Follows(i, N), contested \/ Links(N)'
      PROVE  Linking'
  <2>1. call'[i] = N /\ (Issuing(N) => Issuing(call[i]))
    BY <1>3, Moves DEF Follows, Issuing
  <2>2. QED  BY <1>1, <1>2, <1>3, <2>1, LinkingKept
<1>4. CASE contested
  BY <1>2, <1>4 DEF Linking
<1>5. CASE ~contested
  <2>1. CASE \/ CreatesAccount(i) \/ Groups1st(i) \/ SavesMember(i) \/ SkipsMember(i) \/ EndsRevoking(i)
             \/ FindsPending(i) \/ \E n \in Invite : Revokes(i, n)
    BY <1>1, <1>3, <1>5, <2>1, ClearingLinks, RevokingLinks
  <2>2. CASE ReadsCounter(i)
    <3>1. PICK N : N = call'[i]
      OBVIOUS
    <3>2. N.op \notin {"invite", "resend"}
      BY <2>2, <3>1, ReadsCounterGoes, CallFields, IdleFields DEF ReadsCounter, Belongs, Core
    <3>3. ~Issuing(N) /\ Links(N)'
      BY <3>2 DEF Issuing, Links
    <3>4. QED  BY <1>1, <1>2, <3>1, <3>3, LinkingKept
  <2>3. CASE /\ ~CreatesAccount(i) /\ ~Groups1st(i) /\ ~SavesMember(i) /\ ~SkipsMember(i)
             /\ ~EndsRevoking(i) /\ ~FindsPending(i) /\ ~ReadsCounter(i)
             /\ \A n \in Invite : ~Revokes(i, n)
    <3>1. PICK N : /\ Follows(i, N)
                   /\ Issuing(N) => N.pc \notin {"grouping", "issue", "savemember", "revoking"}
      BY <2>3, PlainLinks
    <3>2. Links(N)'
      BY <3>1 DEF Links, Clear
    <3>3. QED  BY <1>3, <3>1, <3>2
  <2>4. QED  BY <2>1, <2>2, <2>3
<1>6. QED  BY <1>4, <1>5

LEMMA IssuesLinks ==
    ASSUME DirectoryInv, Linking, NEW i \in Slot, NEW n \in Invite, Issues(i, n)
    PROVE  Linking'
<1>1. PICK N \in Call : /\ Goes(i, N) /\ N.pc = "index" /\ N.op = call[i].op
                        /\ N.actor = call[i].actor /\ N.target = call[i].target
                        /\ N.invite = n /\ Mind(call[i], N) /\ Load(call[i], N)
  BY IssuesGoes
<1>2. call'[i] = N /\ \A j \in Slot \ {i} : call'[j] = call[j]
  BY <1>1, Moves
<1>3. PICK c \in Call : c = call[i]
  BY IsCall
<1>4. c.op \in {"invite", "resend"} /\ c.pc = "issue" /\ c.target \in User
  BY <1>3, IssuesGoes
<1>5. /\ invitation'[n].state = "pending" /\ invitation'[n].email = c.target
      /\ \A m \in Invite \ {n} : invitation'[m] = invitation[m]
  BY <1>3, IssuesIs
<1>6. contested' = contested
  BY DEF Issues, history
<1>7. CASE ~contested
  <2>1. Pending(c.target) = {}
    BY <1>3, <1>4, <1>7 DEF Linking, Links, Issuing, Clear
  <2>2. ASSUME NEW u \in User, NEW m \in Pending(u)', NEW k \in Pending(u)'
        PROVE  m = k
    BY <1>4, <1>5, <1>7, <2>1, <2>2 DEF Pending, Linking
  <2>3. ASSUME NEW j \in Slot, j # i PROVE ~Issuing(call[j]) /\ ~Issuing(call'[j])
    BY <1>2, <1>3, <1>4, <1>7, <2>3 DEF Linking, Issuing
  <2>4. ASSUME NEW j \in Slot PROVE Links(call[j])'
    <3>1. Links(N)'
      BY <1>1 DEF Links, Clear
    <3>2. QED  BY <1>2, <2>3, <3>1 DEF Links, Issuing
  <2>5. (\A u \in User : \A m, k \in Pending(u) : m = k)'
    BY <2>2
  <2>6. (\A j, k \in Slot : Issuing(call[j]) /\ Issuing(call[k]) => j = k)'
    BY <2>3 DEF Issuing
  <2>7. (\A j \in Slot : Links(call[j]))'
    BY <2>4
  <2>8. QED  BY <2>5, <2>6, <2>7 DEF Linking
<1>8. QED  BY <1>6, <1>7 DEF Linking

(* What the invocations in flight are when a request comes in. *)
LEMMA RequestRivals ==
    ASSUME DirectoryInv, NEW i \in Slot, NEW u \in User \cup {NoUser}, Request(i, u)
    PROVE  \E N \in Call :
              /\ Goes(i, N) /\ N.found = FALSE /\ call[i].pc = "idle"
              /\ N.pc \in {"readmember", "limit"} \cup Before /\ N.pc # "reconcile"
              /\ contested' = (contested \/ Rivals(N.op) # {})
              /\ (N.op # "role" => N.next # "ORG_OWNER")
              /\ (N.pc = "backfill" => N.doc.role # "ORG_OWNER")
<1>1. PICK op \in Ops \ {"inspect"}, c, N \in Call :
              /\ Asks(i, u, op, c) /\ Goes(i, N) /\ N.op = op /\ N.actor = u
              /\ N.found = FALSE /\ N.pend = {} /\ N.pc \in {"readmember", "limit"} \cup Before
              /\ N.pc # "reconcile" /\ (N.pc = "backfill" \/ N.pc = First(op))
              /\ (op # "role" => N.next # "ORG_OWNER")
              /\ (N.pc = "backfill" => u \in User /\ N.doc = Backfilled(member[u], session[u])
                                          /\ session[u] \in Invitable)
  BY RequestGoes
<1>2. contested' = (contested \/ Rivals(op) # {}) /\ call[i].pc = "idle"
  BY <1>1, FreeIsIdle DEF Asks
<1>3. N.pc = "backfill" => N.doc.role # "ORG_OWNER"
  BY <1>1, UserFields, BackfillMakes
<1>4. QED  BY <1>1, <1>2, <1>3

LEMMA InspectsPlain ==
    ASSUME DirectoryInv, NEW i \in Slot, NEW n \in Invite, Inspects(i, n)
    PROVE  \E N \in Call : /\ Goes(i, N) /\ N.op = "inspect" /\ N.pc = "limit" /\ N.found = FALSE
                           /\ N.next # "ORG_OWNER" /\ contested' = contested
<1>1. PICK N \in Call : /\ Goes(i, N) /\ N.op = "inspect" /\ N.pc = "limit" /\ N.actor = NoUser
                        /\ N.found = FALSE /\ N.pend = {} /\ N.next # "ORG_OWNER"
  BY InspectsGoes
<1>2. contested' = contested
  BY DEF Inspects
<1>3. QED  BY <1>1, <1>2

LEMMA AskingLinks ==
    ASSUME DirectoryInv, Linking, NEW i \in Slot, Asking(i)
    PROVE  Linking'
<1>1. Others(i) /\ Shrunk
  <2>1. invitation' = invitation /\ Others(i)
    BY Leaves, StepOthers DEF tables
  <2>2. QED  BY <2>1 DEF Shrunk
<1>2. ASSUME NEW u \in User \cup {NoUser}, Request(i, u)
      PROVE  Linking'
  <2>1. PICK N \in Call :
              /\ Goes(i, N) /\ N.found = FALSE /\ call[i].pc = "idle"
              /\ N.pc \in {"readmember", "limit"} \cup Before /\ N.pc # "reconcile"
              /\ contested' = (contested \/ Rivals(N.op) # {})
              /\ (N.op # "role" => N.next # "ORG_OWNER")
              /\ (N.pc = "backfill" => N.doc.role # "ORG_OWNER")
    BY <1>2, RequestRivals
  <2>2. CASE contested'
    BY <2>2 DEF Linking
  <2>3. CASE ~contested'
    <3>1. ~contested /\ Rivals(N.op) = {} /\ call'[i] = N /\ \A j \in Slot \ {i} : call'[j] = call[j]
      BY <2>1, <2>3, Moves
    <3>2. Links(N)'
      BY <2>1 DEF Links, Clear, Before
    <3>3. ASSUME NEW j \in Slot PROVE Links(call[j])'
      <4>1. CASE j = i
        BY <3>1, <3>2, <4>1
      <4>2. CASE j # i
        <5>1. PICK c \in Call : c = call[j]
          BY IsCall
        <5>2. Shape(c) /\ Links(c) /\ Alike(c, c)
          BY <3>1, <5>1, CallFields, AlikeSelf DEF Linking
        <5>3. QED  BY <1>1, <3>1, <4>2, <5>1, <5>2, LinksStay
      <4>3. QED  BY <4>1, <4>2
    <3>4. Issuing(N) => \A j \in Slot \ {i} : ~Issuing(call[j])
      BY <3>1 DEF Rivals, Issuing
    <3>5. (\A j, k \in Slot : Issuing(call[j]) /\ Issuing(call[k]) => j = k)'
      BY <3>1, <3>4 DEF Linking, Issuing
    <3>6. (\A v \in User : \A m, k \in Pending(v) : m = k)'
      BY <1>1, <3>1 DEF Linking, Pending, Shrunk
    <3>7. (\A j \in Slot : Links(call[j]))'
      BY <3>3
    <3>8. QED  BY <3>5, <3>6, <3>7 DEF Linking
  <2>4. QED  BY <2>2, <2>3
<1>3. ASSUME NEW n \in Invite, Inspects(i, n)
      PROVE  Linking'
  <2>1. PICK N \in Call : /\ Goes(i, N) /\ N.op = "inspect" /\ N.pc = "limit" /\ N.found = FALSE
                          /\ N.next # "ORG_OWNER" /\ contested' = contested
    BY <1>3, InspectsPlain
  <2>2. call'[i] = N /\ ~Issuing(N) /\ Links(N)'
    BY <2>1, Moves DEF Issuing, Links
  <2>3. QED  BY <1>1, <2>1, <2>2, LinkingKept
<1>4. QED  BY <1>2, <1>3 DEF Asking

LEMMA LinkingStep == DirectoryInv /\ Present /\ Linking /\ [Next]_vars => Linking'
<1> SUFFICES ASSUME DirectoryInv, Present, Linking, [Next]_vars PROVE Linking'
  OBVIOUS
<1>1. CASE UNCHANGED vars \/ (\E u \in User : SignsIn(u)) \/ \E n \in Invite : Lapses(n)
  <2>1. UNCHANGED <<call, invitation, contested>>
    BY <1>1 DEF vars, SignsIn, Lapses, tables, history
  <2>2. QED  BY <2>1 DEF Linking, Links, Issuing, Clear, Pending
<1>2. ASSUME NEW i \in Slot, Asking(i) \/ Working(i)
      PROVE  Linking'
  BY <1>2, AskingLinks, WorkingLinks, IssuesLinks
<1>3. QED  BY <1>1, <1>2, StepIs

LEMMA AtMostOne ==
    ASSUME NEW S, \A m, n \in S : m = n
    PROVE  IsFiniteSet(S) /\ Cardinality(S) <= 1
<1>1. CASE S = {}
  BY <1>1, FS_EmptySet
<1>2. CASE S # {}
  <2>1. PICK m \in S : TRUE
    BY <1>2
  <2>2. S = {m}
    BY <2>1
  <2>3. IsFiniteSet({m}) /\ Cardinality({m}) = 1
    BY FS_Singleton
  <2>4. QED  BY <2>2, <2>3
<1>3. QED  BY <1>1, <1>2

(* Of the invitations of a person at most one is open, unless two reissues *)
(* were in flight together: whoever issues has closed everything that was  *)
(* open when it looked, and nobody else has issued since.                  *)
THEOREM OneIsOpen == Spec => []OneLiveLink
<1>1. Init => Linking
  <2> SUFFICES ASSUME Init PROVE Linking
    OBVIOUS
  <2>1. \A u \in User : Pending(u) = {}
    BY DEF Init, Pending, NoInvitation
  <2>2. \A i \in Slot : ~Issuing(call[i])
    BY IdleFields DEF Init, Issuing
  <2>3. QED  BY <2>1, <2>2 DEF Linking, Links
<1>2. Linking => OneLiveLink
  BY AtMostOne DEF Linking, OneLiveLink
<1>3. QED  BY <1>1, <1>2, LinkingStep, PresentHolds, DirectoryTyped, PTL DEF Spec

(***************************************************************************)
(* Nobody is locked out                                                    *)
(***************************************************************************)
(* Groups are only entered. *)
Wider == \A u \in User : /\ account[u].groups \subseteq account'[u].groups
                         /\ account'[u].state = "confirmed" =>
                               account[u].state = "confirmed" \/ account'[u].groups # {}

LEMMA PlacedStays ==
    ASSUME Wider, NEW c \in Call, Shape(c), Placed(c), NEW d, Alike(c, d)
    PROVE  Placed(d)'
<1>1. /\ d.pc = c.pc /\ d.op = c.op /\ d.target = c.target /\ d.found = c.found
      /\ d.seen = c.seen /\ d.next = c.next
      /\ Changes(c) => c.target \in User
  BY DEF Alike, Core, Mind, Shape, Has, Targeted, Changes
<1>2. QED  BY <1>1 DEF Placed, Changes, Wider

LEMMA GroupingKept ==
    ASSUME DirectoryInv, Grouping, NEW i \in Slot, Others(i), Wider, contested' = contested,
           NEW N, call'[i] = N, Changes(N) => Changes(call[i]), contested \/ Placed(N)'
    PROVE  Grouping'
<1>1. CASE contested
  BY <1>1 DEF Grouping
<1>2. CASE ~contested
  <2>1. (\A u \in User : account[u].state = "confirmed" => account[u].groups # {})'
    BY <1>2 DEF Wider, Grouping
  <2>2. ASSUME NEW j \in Slot
        PROVE  Placed(call[j])' /\ (Changes(call'[j]) => Changes(call[j]))
    <3>1. CASE j = i
      BY <1>2, <3>1
    <3>2. CASE j # i
      <4>1. PICK c \in Call : c = call[j]
        BY IsCall
      <4>2. PICK d : d = call'[j]
        OBVIOUS
      <4>3. Shape(c) /\ Placed(c) /\ Alike(c, d)
        BY <1>2, <3>2, <4>1, <4>2, CallFields DEF Grouping, Others
      <4>4. Placed(d)' /\ (Changes(d) => Changes(c))
        BY <4>3, PlacedStays DEF Alike, Core, Changes
      <4>5. QED  BY <4>1, <4>2, <4>4
    <3>3. QED  BY <3>1, <3>2
  <2>3. \A j, k \in Slot : Changes(call'[j]) /\ Changes(call'[k]) => j = k
    BY <1>2, <2>2 DEF Grouping
  <2>4. (\A j, k \in Slot : Changes(call[j]) /\ Changes(call[k]) => j = k)'
    BY <2>3 DEF Changes
  <2>5. (\A j \in Slot : Placed(call[j]))'
    BY <2>2
  <2>6. QED  BY <2>1, <2>4, <2>5 DEF Grouping
<1>3. QED  BY <1>1, <1>2

LEMMA AddsGroupIs ==
    ASSUME DirectoryInv, NEW i \in Slot, AddsGroup(i)
    PROVE  /\ call[i].target \in User /\ call[i].pc = "addgroup" /\ Goto(i, "dropgroup")
           /\ account'[call[i].target].groups =
                 account[call[i].target].groups \cup {CoarseOf(call[i].next)}
           /\ account'[call[i].target].state = account[call[i].target].state
           /\ \A v \in User \ {call[i].target} : account'[v] = account[v]
<1>1. /\ call[i].pc = "addgroup" /\ Goto(i, "dropgroup")
      /\ account' = [account EXCEPT ![call[i].target].groups =
                        account[call[i].target].groups \cup {CoarseOf(call[i].next)}]
  BY DEF AddsGroup, Regroups
<1>2. call[i].target \in User
  BY <1>1, RegroupsGoes
<1>3. QED  BY <1>1, <1>2, GroupsSet

LEMMA StepWidens ==
    ASSUME DirectoryInv, NEW i \in Slot, Asking(i) \/ Working(i), ~DropsGroup(i), ~RollsBack(i)
    PROVE  Wider
<1>1. CASE ~Regrouping(i) /\ ~Entering(i)
  BY <1>1, Leaves DEF Working, tables, Wider
<1>2. CASE AddsGroup(i)
  BY <1>2, AddsGroupIs DEF Wider
<1>3. CASE Entering(i)
  BY <1>3, EnteringIs DEF Wider
<1>4. QED  BY <1>1, <1>2, <1>3 DEF Regrouping

(* What is no step of a role change leaves one where it was. *)
LEMMA PlainRoles ==
    ASSUME DirectoryInv, NEW i \in Slot, Working(i), ~Lists(i), ~ScansMembers(i), ~AddsGroup(i),
           ~DropsGroup(i), ~DropFails(i), ~ReadsCounter(i)
    PROVE  \E N : /\ Follows(i, N)
                  /\ Changes(N) => /\ Core(call[i], N) /\ Mind(call[i], N)
                                   /\ N.pc \in Before /\ call[i].pc \in Before
<1>1. CASE Backfills(i)
  <2>1. PICK N \in Call : /\ Goes(i, N) /\ N.pc = First(call[i].op)
                          /\ Core(call[i], N) /\ Mind(call[i], N) /\ Load(call[i], N)
    BY <1>1, BackfillsGoes
  <2>2. call[i].op = "role" => N.pc = "list"
    BY <2>1 DEF First
  <2>3. call[i].pc = "backfill"
    BY <1>1, BackfillsGoes
  <2>4. QED  BY <2>1, <2>2, <2>3 DEF Follows, Changes, Core, Before
<1>2. CASE Reconciles(i)
  BY <1>2, ReconcilesGoes DEF Follows, Core, Before
<1>3. CASE ClaimRefused(i) \/ Dies(i) \/ RollsBack(i) \/ Expires(i) \/ Joins(i)
           \/ CreatesTeam(i) \/ DropsTeam(i) \/ EndsListing(i) \/ Indexes(i)
  BY <1>3, ReturnsGo, IdleFields, EndsListingGoes, IndexesGoes DEF Follows, Changes
<1>4. CASE ReadsMember(i) \/ SavesMember(i) \/ SkipsMember(i)
  BY <1>4, ReadsMemberGoes, SavesMemberGoes, IdleFields DEF Follows, Changes, Core, Changing
<1>5. CASE FindsPending(i) \/ EndsRevoking(i) \/ DropsMember(i)
  BY <1>5, FindsPendingGoes, EndsRevokingGoes, DropsMemberGoes DEF Follows, Changes, Core, Turns
<1>6. CASE CounterFails(i) \/ WritesCounter(i)
  <2>1. call[i].op # "role"
    BY <1>6, CountsGoes, CallFields DEF Belongs
  <2>2. QED  BY <1>6, <2>1, CountsGoes DEF Follows, Changes, Core
<1>7. CASE LooksUp(i) \/ Claims(i)
  BY <1>7, LooksUpGoes, ClaimsGoes, IdleFields DEF Follows, Changes, Core, Turns
<1>8. CASE ReadsTeam(i) \/ SavesTeam(i)
  BY <1>8, ReadsTeamGoes, SavesTeamGoes, IdleFields DEF Turns, Follows, Changes, Core
<1>9. CASE SetsEnabled(i) \/ CreatesAccount(i) \/ Groups1st(i)
  BY <1>9, SetsEnabledGoes, CreatesAccountGoes, Groups1stGoes DEF Turns, Follows, Changes, Core
<1>10. CASE \E n \in Invite : Issues(i, n) \/ Revokes(i, n)
  <2>1. ASSUME NEW n \in Invite, Revokes(i, n) PROVE call[i].op # "role"
    BY <2>1, RevokesGoes, CallFields DEF Belongs
  <2>2. QED  BY <1>10, <2>1, IssuesGoes, RevokesGoes DEF Follows, Changes, Core
<1>11. QED
  BY <1>1, <1>2, <1>3, <1>4, <1>5, <1>6, <1>7, <1>8, <1>9, <1>10
     DEF Working, Quiet, Recording, Regrouping, Entering, Inviting, TeamWriting, Counts

LEMMA NarrowingPlaces ==
    ASSUME DirectoryInv, Grouping, ~contested, NEW i \in Slot, Others(i), Changes(call[i]),
           account'[call[i].target].groups # {},
           \A v \in User \ {call[i].target} : account'[v] = account[v],
           NEW N, call'[i] = N, Placed(N)'
    PROVE  Grouping'
<1>1. \A j \in Slot \ {i} : ~Changes(call'[j])
  BY DEF Grouping, Others, Alike, Core, Changes
<1>2. (\A u \in User : account[u].state = "confirmed" => account[u].groups # {})'
  BY DEF Grouping
<1>3. (\A j, k \in Slot : Changes(call[j]) /\ Changes(call[k]) => j = k)'
  BY <1>1 DEF Changes
<1>4. ASSUME NEW j \in Slot PROVE Placed(call[j])'
  BY <1>1 DEF Placed, Changes
<1>5. (\A j \in Slot : Placed(call[j]))'
  BY <1>4
<1>6. QED  BY <1>2, <1>3, <1>5 DEF Grouping

LEMMA DropsGroupPlaces ==
    ASSUME DirectoryInv, Grouping, ~contested, NEW i \in Slot, DropsGroup(i)
    PROVE  Grouping'
<1>1. /\ call[i].pc = "dropgroup" /\ Goto(i, "savemember")
      /\ account' = [account EXCEPT ![call[i].target].groups =
                        account[call[i].target].groups \ {call[i].seen}]
  BY DEF DropsGroup, Regroups
<1>2. PICK N \in Call : Goes(i, N) /\ Turns(i, "savemember", N)
  BY <1>1, RegroupsGoes
<1>3. /\ call[i].op = "role" /\ call[i].target \in User
      /\ N.pc = "savemember" /\ call'[i] = N /\ Others(i)
  BY <1>1, <1>2, RegroupsGoes, GoesOthers DEF Turns
<1>4. /\ account'[call[i].target].groups = account[call[i].target].groups \ {call[i].seen}
      /\ \A v \in User \ {call[i].target} : account'[v] = account[v]
  BY <1>1, <1>3, GroupsSet
<1>5. call[i].seen # CoarseOf(call[i].next) /\ CoarseOf(call[i].next) \in account[call[i].target].groups
  BY <1>1, <1>3 DEF Grouping, Placed, Changes, Moving
<1>6. account'[call[i].target].groups # {}
  BY <1>4, <1>5
<1>7. Placed(N)'
  BY <1>3 DEF Placed, Moving
<1>8. QED  BY <1>3, <1>4, <1>6, <1>7, NarrowingPlaces DEF Changes

LEMMA RollsBackPlaces ==
    ASSUME DirectoryInv, Grouping, ~contested, NEW i \in Slot, RollsBack(i)
    PROVE  Grouping'
<1>1. /\ call[i].pc = "rollback" /\ call[i].op = "role" /\ call[i].target \in User
      /\ account' = [account EXCEPT ![call[i].target].groups =
                        account[call[i].target].groups \ {CoarseOf(call[i].next)}]
  BY RollsBackIs
<1>2. call'[i] = Idle /\ Others(i)
  BY ReturnsGo, GoesOthers
<1>3. /\ account'[call[i].target].groups =
            account[call[i].target].groups \ {CoarseOf(call[i].next)}
      /\ \A v \in User \ {call[i].target} : account'[v] = account[v]
  BY <1>1, GroupsSet
<1>4. call[i].found
  BY <1>1, CallFields DEF Has, Before
<1>5. call[i].seen # CoarseOf(call[i].next) /\ call[i].seen \in account[call[i].target].groups
  BY <1>1, <1>4 DEF Grouping, Placed, Changes, Moving
<1>6. account'[call[i].target].groups # {}
  BY <1>3, <1>5
<1>7. Placed(Idle)'
  BY IdleFields DEF Placed, Changes
<1>8. QED  BY <1>1, <1>2, <1>3, <1>6, <1>7, NarrowingPlaces DEF Changes

LEMMA ListsPlaces ==
    ASSUME DirectoryInv, Grouping, ~contested, Wider, NEW i \in Slot, Lists(i)
    PROVE  \E N : Follows(i, N) /\ Placed(N)'
<1>1. PICK N \in Call, v \in call[i].todo :
               /\ Goes(i, N) /\ v \in User /\ call[i].pc = "list" /\ Core(call[i], N)
               /\ N.found = (call[i].found \/ (v = call[i].target /\ v \in Listed))
               /\ N.seen = IF v = call[i].target /\ v \in Listed THEN GroupOf(account[v].groups)
                           ELSE call[i].seen
               /\ N.pc \in {"list", "reconcile"}
  BY ListsGoes
<1>2. PICK c \in Call : c = call[i]
  BY IsCall
<1>3. /\ Placed(c) /\ N.op = c.op /\ N.target = c.target /\ c.pc = "list"
      /\ Changes(c) => c.target \in User
  BY <1>1, <1>2, CallFields DEF Grouping, Core, Changes, Has, Targeted
<1>4. Changes(c) /\ N.found => N.seen \in account[N.target].groups
  <2>1. CASE v = c.target /\ v \in Listed
    BY <1>1, <1>2, <1>3, <2>1, ReconcileMakes
  <2>2. CASE ~(v = c.target /\ v \in Listed)
    <3>1. N.found = c.found /\ N.seen = c.seen
      BY <1>1, <1>2, <2>2, CallFields
    <3>2. QED  BY <1>3, <3>1 DEF Placed
  <2>3. QED  BY <2>1, <2>2
<1>5. Placed(N)'
  BY <1>1, <1>3, <1>4 DEF Placed, Changes, Wider, Moving
<1>6. QED  BY <1>1, <1>2, <1>3, <1>5 DEF Follows

LEMMA ScansMembersPlaces ==
    ASSUME DirectoryInv, Grouping, ~contested, Wider, NEW i \in Slot, ScansMembers(i)
    PROVE  \E N : Follows(i, N) /\ Placed(N)'
<1>1. CASE Goes(i, Idle)
  BY <1>1, IdleFields DEF Follows, Placed, Changes
<1>2. CASE ~Goes(i, Idle)
  <2>1. PICK N \in Call :
             /\ Goes(i, N) /\ Core(call[i], N) /\ Mind(call[i], N)
             /\ \/ N.pc = "savemember" /\ CoarseOf(N.next) = N.seen
                \/ N.pc = "addgroup" /\ CoarseOf(N.next) # N.seen
    BY <1>2, ScansMembersGoes
  <2>2. PICK c \in Call : c = call[i]
    BY IsCall
  <2>3. /\ Placed(c) /\ N.op = c.op /\ N.target = c.target /\ c.pc = "list" /\ N.seen = c.seen
        /\ N.found = c.found /\ N.next = c.next /\ c.target \in User
    BY <2>1, <2>2, ScansMembersGoes DEF Grouping, Core, Mind
  <2>4. Placed(N)'
    BY <2>1, <2>3 DEF Placed, Changes, Wider, Moving
  <2>5. QED  BY <2>1, <2>2, <2>3, <2>4 DEF Follows
<1>3. QED  BY <1>1, <1>2

LEMMA MovingPlaces ==
    ASSUME DirectoryInv, Grouping, ~contested, Wider, NEW i \in Slot, AddsGroup(i) \/ DropFails(i)
    PROVE  \E N : Follows(i, N) /\ Placed(N)'
<1>1. PICK c \in Call : c = call[i]
  BY IsCall
<1>2. CASE AddsGroup(i)
  <2>1. call[i].pc = "addgroup" /\ Goto(i, "dropgroup")
    BY <1>2, AddsGroupIs
  <2>2. PICK N \in Call : Goes(i, N) /\ Turns(i, "dropgroup", N)
    BY <2>1, RegroupsGoes
  <2>3. /\ Placed(c) /\ N.op = c.op /\ N.target = c.target /\ c.pc = "addgroup" /\ N.seen = c.seen
        /\ N.found = c.found /\ N.next = c.next /\ c.target \in User /\ N.pc = "dropgroup"
    BY <1>1, <1>2, <2>1, <2>2, AddsGroupIs DEF Grouping, Core, Mind, Turns
  <2>4. account'[c.target].groups = account[c.target].groups \cup {CoarseOf(c.next)}
    BY <1>1, <1>2, AddsGroupIs
  <2>5. Placed(N)'
    BY <2>3, <2>4 DEF Placed, Changes, Wider, Moving
  <2>6. QED  BY <1>1, <2>2, <2>3, <2>5 DEF Follows
<1>3. CASE DropFails(i)
  <2>1. call[i].pc = "dropgroup" /\ Goto(i, "rollback")
    BY <1>3 DEF DropFails
  <2>2. PICK N \in Call : Goes(i, N) /\ Turns(i, "rollback", N)
    BY <2>1, RegroupsGoes
  <2>3. /\ Placed(c) /\ N.op = c.op /\ N.target = c.target /\ c.pc = "dropgroup" /\ N.seen = c.seen
        /\ N.found = c.found /\ N.next = c.next /\ c.target \in User /\ N.pc = "rollback"
    BY <1>1, <2>1, <2>2, RegroupsGoes DEF Grouping, Core, Mind, Turns
  <2>4. Placed(N)'
    BY <2>3 DEF Placed, Changes, Wider, Moving
  <2>5. QED  BY <1>1, <2>2, <2>3, <2>4 DEF Follows
<1>4. QED  BY <1>2, <1>3

LEMMA WorkingGroups ==
    ASSUME DirectoryInv, Grouping, NEW i \in Slot, Working(i)
    PROVE  Grouping'
<1>1. Others(i) /\ contested' = contested
  BY StepOthers, Leaves DEF Working, history
<1>2. CASE contested
  BY <1>1, <1>2 DEF Grouping
<1>3. CASE ~contested /\ (DropsGroup(i) \/ RollsBack(i))
  BY <1>3, DropsGroupPlaces, RollsBackPlaces
<1>4. CASE ~contested /\ ~DropsGroup(i) /\ ~RollsBack(i)
  <2>1. Wider
    BY <1>4, StepWidens
  <2>2. ASSUME NEW N, Follows(i, N), Placed(N)'
        PROVE  Grouping'
    <3>1. call'[i] = N /\ (Changes(N) => Changes(call[i]))
      BY <2>2, Moves DEF Follows, Changes
    <3>2. QED  BY <1>1, <2>1, <2>2, <3>1, GroupingKept
  <2>3. CASE Lists(i) \/ ScansMembers(i) \/ AddsGroup(i) \/ DropFails(i)
    BY <1>4, <2>1, <2>2, <2>3, ListsPlaces, ScansMembersPlaces, MovingPlaces
  <2>4. CASE ReadsCounter(i)
    <3>1. PICK N : N = call'[i]
      OBVIOUS
    <3>2. N.op # "role"
      BY <2>4, <3>1, ReadsCounterGoes, CallFields, IdleFields DEF ReadsCounter, Belongs, Core
    <3>3. ~Changes(N) /\ Placed(N)'
      BY <3>2 DEF Changes, Placed
    <3>4. QED  BY <1>1, <2>1, <3>1, <3>3, GroupingKept
  <2>5. CASE ~Lists(i) /\ ~ScansMembers(i) /\ ~AddsGroup(i) /\ ~DropFails(i) /\ ~ReadsCounter(i)
    <3>1. PICK N : /\ Follows(i, N)
                   /\ Changes(N) => /\ Core(call[i], N) /\ Mind(call[i], N)
                                    /\ N.pc \in Before /\ call[i].pc \in Before
      BY <1>4, <2>5, PlainRoles
    <3>2. PICK c \in Call : c = call[i]
      BY IsCall
    <3>3. /\ Placed(c)
          /\ Changes(N) => /\ N.op = c.op /\ N.target = c.target /\ N.seen = c.seen
                           /\ N.found = c.found /\ N.next = c.next /\ c.target \in User
                           /\ N.pc \in Before /\ c.pc \in Before
      BY <1>4, <3>1, <3>2, CallFields DEF Grouping, Core, Mind, Changes, Has, Targeted
    <3>4. Placed(N)'
      BY <2>1, <3>3 DEF Placed, Changes, Wider, Moving, Before
    <3>5. QED  BY <2>2, <3>1, <3>4
  <2>6. QED  BY <2>3, <2>4, <2>5
<1>5. QED  BY <1>2, <1>3, <1>4

LEMMA AskingGroups ==
    ASSUME DirectoryInv, Grouping, NEW i \in Slot, Asking(i)
    PROVE  Grouping'
<1>1. Others(i) /\ Wider
  BY StepOthers, StepWidens, Leaves DEF tables, Wider
<1>2. ASSUME NEW u \in User \cup {NoUser}, Request(i, u)
      PROVE  Grouping'
  <2>1. PICK N \in Call :
              /\ Goes(i, N) /\ N.found = FALSE /\ call[i].pc = "idle"
              /\ N.pc \in {"readmember", "limit"} \cup Before /\ N.pc # "reconcile"
              /\ contested' = (contested \/ Rivals(N.op) # {})
              /\ (N.op # "role" => N.next # "ORG_OWNER")
              /\ (N.pc = "backfill" => N.doc.role # "ORG_OWNER")
    BY <1>2, RequestRivals
  <2>2. CASE contested'
    BY <2>2 DEF Grouping
  <2>3. CASE ~contested'
    <3>1. ~contested /\ Rivals(N.op) = {} /\ call'[i] = N /\ \A j \in Slot \ {i} : call'[j] = call[j]
      BY <2>1, <2>3, Moves
    <3>2. Placed(N)'
      BY <2>1 DEF Placed, Before, Moving
    <3>3. ASSUME NEW j \in Slot PROVE Placed(call[j])'
      <4>1. CASE j = i
        BY <3>1, <3>2, <4>1
      <4>2. CASE j # i
        <5>1. PICK c \in Call : c = call[j]
          BY IsCall
        <5>2. Shape(c) /\ Placed(c) /\ Alike(c, c)
          BY <3>1, <5>1, CallFields, AlikeSelf DEF Grouping
        <5>3. QED  BY <1>1, <3>1, <4>2, <5>1, <5>2, PlacedStays
      <4>3. QED  BY <4>1, <4>2
    <3>4. Changes(N) => \A j \in Slot \ {i} : ~Changes(call[j])
      BY <3>1 DEF Rivals, Changes
    <3>5. (\A j, k \in Slot : Changes(call[j]) /\ Changes(call[k]) => j = k)'
      BY <3>1, <3>4 DEF Grouping, Changes
    <3>6. (\A v \in User : account[v].state = "confirmed" => account[v].groups # {})'
      BY <1>1, <3>1 DEF Grouping, Wider
    <3>7. (\A j \in Slot : Placed(call[j]))'
      BY <3>3
    <3>8. QED  BY <3>5, <3>6, <3>7 DEF Grouping
  <2>4. QED  BY <2>2, <2>3
<1>3. ASSUME NEW n \in Invite, Inspects(i, n)
      PROVE  Grouping'
  <2>1. PICK N \in Call : /\ Goes(i, N) /\ N.op = "inspect" /\ N.pc = "limit" /\ N.found = FALSE
                          /\ N.next # "ORG_OWNER" /\ contested' = contested
    BY <1>3, InspectsPlain
  <2>2. call'[i] = N /\ ~Changes(N) /\ Placed(N)'
    BY <2>1, Moves DEF Changes, Placed
  <2>3. QED  BY <1>1, <2>1, <2>2, GroupingKept
<1>4. QED  BY <1>2, <1>3 DEF Asking

LEMMA GroupingStep == DirectoryInv /\ Grouping /\ [Next]_vars => Grouping'
<1> SUFFICES ASSUME DirectoryInv, Grouping, [Next]_vars PROVE Grouping'
  OBVIOUS
<1>1. CASE UNCHANGED vars \/ \E n \in Invite : Lapses(n)
  <2>1. UNCHANGED <<call, account, contested>>
    BY <1>1 DEF vars, Lapses, tables, history
  <2>2. QED  BY <2>1 DEF Grouping, Placed, Changes
<1>2. ASSUME NEW u \in User, SignsIn(u)
      PROVE  Grouping'
  <2>1. UNCHANGED <<call, contested>>
    BY <1>2 DEF SignsIn, history
  <2>2. \A v \in User : account'[v].groups = account[v].groups
    BY <1>2, SignsInIs
  <2>3. ASSUME ~contested, NEW v \in User, account'[v].state = "confirmed"
        PROVE  account'[v].groups # {}
    BY <1>2, <2>2, <2>3, SignsInIs DEF Grouping
  <2>4. ASSUME ~contested, NEW j \in Slot PROVE Placed(call[j])'
    <3>1. Placed(call[j]) /\ (Changes(call[j]) => call[j].target \in User)
      BY <2>4, CallFields DEF Grouping, Has, Targeted, Changes
    <3>2. QED  BY <2>1, <2>2, <3>1 DEF Placed, Changes
  <2>5. QED  BY <2>1, <2>3, <2>4 DEF Grouping, Changes
<1>3. ASSUME NEW i \in Slot, Asking(i) \/ Working(i)
      PROVE  Grouping'
  BY <1>3, AskingGroups, WorkingGroups
<1>4. QED  BY <1>1, <1>2, <1>3, StepIs

LEMMA GroupingInit == Init => Grouping
<1> SUFFICES ASSUME Init PROVE Grouping
  OBVIOUS
<1>1. \A u \in User : account[u].state = "confirmed" => account[u].groups # {}
  BY DEF Init, NoAccount
<1>2. \A i \in Slot : ~Changes(call[i])
  BY IdleFields DEF Init, Changes
<1>3. QED  BY <1>1, <1>2 DEF Grouping, Placed

(* Whoever could sign in belongs to a group still, unless two role changes *)
(* were in flight together: the old group is left, and the new one taken   *)
(* back, only while the other is held.                                     *)
THEOREM NobodyLockedOut == Spec => []NeverLockedOut
<1>1. Grouping => NeverLockedOut
  BY DEF Grouping, NeverLockedOut
<1>2. QED  BY <1>1, GroupingInit, GroupingStep, DirectoryTyped, PTL DEF Spec

(***************************************************************************)
(* Where ownership comes from                                              *)
(***************************************************************************)
LEMMA OwnersWritten ==
    ASSUME DirectoryInv, NEW u \in User, NEW d \in Member, member' = [member EXCEPT ![u] = d]
    PROVE  Owners' = (Owners \ {u}) \cup (IF d.role = "ORG_OWNER" THEN {u} ELSE {})
<1>1. member'[u] = d /\ d # NoMember /\ \A v \in User \ {u} : member'[v] = member[v]
  BY MemberFields DEF DirectoryInv, DirectoryTypeOK
<1>2. QED  BY <1>1 DEF Owners

LEMMA GivenStays ==
    ASSUME owned => owned', NEW c, Given(c), NEW d, Alike(c, d)
    PROVE  Given(d)'
<1>1. d.pc = c.pc /\ d.op = c.op /\ d.next = c.next /\ d.doc = c.doc
  BY DEF Alike, Core, Mind
<1>2. QED  BY <1>1 DEF Given, Decided, Changes

LEMMA PlainGiven ==
    ASSUME NEW N, N.op # "role" => N.next # "ORG_OWNER",
           N.pc \notin {"backfill", "reconcile", "savemember", "addgroup", "dropgroup"}
    PROVE  Given(N)'
BY DEF Given, Decided

LEMMA IdleGiven == Given(Idle) /\ Given(Idle)'
BY IdleFields DEF Given, Decided, Changes

(* A step that brings no document in. *)
LEMMA PlainDocs ==
    ASSUME DirectoryInv, NEW i \in Slot, Working(i), ~Lists(i), ~ScansMembers(i), ~AddsGroup(i),
           ~DropsGroup(i), ~ReadsMember(i), ~Groups1st(i), ~FindsPending(i), ~LooksUp(i), ~ReadsCounter(i)
    PROVE  \E N : /\ Follows(i, N)
                  /\ \/ N = Idle
                     \/ /\ N.op = call[i].op /\ N.next = call[i].next
                        /\ N.pc \notin {"backfill", "reconcile", "savemember", "addgroup", "dropgroup"}
<1>1. CASE Backfills(i)
  <2>1. PICK N \in Call : /\ Goes(i, N) /\ N.pc = First(call[i].op)
                          /\ Core(call[i], N) /\ Mind(call[i], N) /\ Load(call[i], N)
    BY <1>1, BackfillsGoes
  <2>2. N.pc \notin {"backfill", "reconcile", "savemember", "addgroup", "dropgroup"}
    BY <2>1 DEF First
  <2>3. QED  BY <2>1, <2>2 DEF Follows, Core, Mind
<1>2. CASE Reconciles(i)
  BY <1>2, ReconcilesGoes DEF Follows, Core, Mind
<1>3. CASE ClaimRefused(i) \/ Dies(i) \/ RollsBack(i) \/ Expires(i) \/ Joins(i)
           \/ CreatesTeam(i) \/ DropsTeam(i) \/ EndsListing(i) \/ Indexes(i)
  BY <1>3, ReturnsGo, IdleFields, EndsListingGoes, IndexesGoes DEF Follows
<1>4. CASE SavesMember(i) \/ SkipsMember(i)
  BY <1>4, SavesMemberGoes, IdleFields DEF Follows, Core, Mind
<1>5. CASE EndsRevoking(i) \/ DropsMember(i)
  BY <1>5, EndsRevokingGoes, DropsMemberGoes DEF Follows, Core, Mind, Turns
<1>6. CASE DropFails(i)
  BY <1>6, RegroupsGoes DEF DropFails, Turns, Follows, Core, Mind
<1>7. CASE CounterFails(i) \/ WritesCounter(i)
  BY <1>7, CountsGoes DEF Follows, Core, Mind
<1>8. CASE ReadsTeam(i) \/ SavesTeam(i)
  BY <1>8, ReadsTeamGoes, SavesTeamGoes, IdleFields DEF Turns, Follows, Core, Mind
<1>9. CASE SetsEnabled(i) \/ CreatesAccount(i) \/ Claims(i)
  BY <1>9, SetsEnabledGoes, CreatesAccountGoes, ClaimsGoes DEF Turns, Follows, Core, Mind
<1>10. CASE \E n \in Invite : Issues(i, n) \/ Revokes(i, n)
  BY <1>10, IssuesGoes, RevokesGoes DEF Follows, Core, Mind
<1>11. QED
  BY <1>1, <1>2, <1>3, <1>4, <1>5, <1>6, <1>7, <1>8, <1>9, <1>10
     DEF Working, Quiet, Recording, Regrouping, Entering, Inviting, TeamWriting, Counts

LEMMA ListsGiven ==
    ASSUME DirectoryInv, Granting, owned => owned', NEW i \in Slot, Lists(i)
    PROVE  \E N : Follows(i, N) /\ Given(N)'
<1>1. PICK N \in Call, v \in call[i].todo :
             /\ Goes(i, N) /\ v \in User /\ call[i].pc = "list"
             /\ Core(call[i], N) /\ N.next = call[i].next
             /\ \/ N.pc = "list"
                \/ N.pc = "reconcile" /\ v \in Listed /\ N.doc = Reconciled(v)
  BY ListsGoes
<1>2. N.op = call[i].op /\ (N.op # "role" => N.next # "ORG_OWNER")
  BY <1>1 DEF Granting, Given, Core
<1>3. CASE N.pc = "list"
  BY <1>1, <1>2, <1>3, PlainGiven DEF Follows
<1>4. CASE N.pc = "reconcile"
  <2>1. N.doc.role = "ORG_OWNER" => owned'
    BY <1>1, <1>4, ReconcileMakes DEF Granting
  <2>2. Given(N)'
    BY <1>2, <1>4, <2>1 DEF Given, Decided
  <2>3. QED  BY <1>1, <1>2, <2>2 DEF Follows
<1>5. QED  BY <1>1, <1>3, <1>4

LEMMA ReadsMemberGiven ==
    ASSUME DirectoryInv, Granting, owned => owned', NEW i \in Slot, ReadsMember(i)
    PROVE  \E N : Follows(i, N) /\ Given(N)'
<1>1. CASE Goes(i, Idle)
  BY <1>1, IdleGiven, IdleFields DEF Follows
<1>2. CASE ~Goes(i, Idle)
  <2>1. PICK N \in Call :
              /\ Goes(i, N) /\ Core(call[i], N) /\ Mind(call[i], N)
              /\ \/ N.pc = "dropteam"
                 \/ /\ N.pc = "savemember" /\ N.doc = Changed(i, member[Subject(i)])
                    /\ member[Subject(i)] \in Member
    BY <1>2, ReadsMemberGoes
  <2>2. N.op = call[i].op /\ (N.op # "role" => N.next # "ORG_OWNER")
    BY <2>1 DEF Granting, Given, Core, Mind
  <2>3. CASE N.pc = "dropteam"
    BY <2>1, <2>2, <2>3, PlainGiven DEF Follows
  <2>4. CASE N.pc = "savemember"
    <3>1. Subject(i) \in User /\ call[i].op # "role" /\ member[Subject(i)] \in Member
      BY <2>1, <2>4, ReadsMemberGoes DEF Changing
    <3>2. N.doc.role = member[Subject(i)].role
      BY <2>1, <2>4, <3>1, ChangedMakes
    <3>3. N.doc.role = "ORG_OWNER" => owned'
      BY <3>1, <3>2, MemberFields DEF Granting, Owners
    <3>4. Given(N)'
      BY <2>2, <2>4, <3>1, <3>3 DEF Given, Decided, Changes
    <3>5. QED  BY <2>1, <2>2, <3>4 DEF Follows
  <2>5. QED  BY <2>1, <2>3, <2>4
<1>3. QED  BY <1>1, <1>2

LEMMA DecidingGiven ==
    ASSUME DirectoryInv, Granting, NEW i \in Slot,
           ScansMembers(i) \/ AddsGroup(i) \/ DropsGroup(i) \/ Groups1st(i)
    PROVE  \E N : Follows(i, N) /\ Given(N)'
<1>1. Given(call[i])
  BY DEF Granting
<1>2. CASE ScansMembers(i)
  <2>1. CASE Goes(i, Idle)
    BY <2>1, IdleGiven, IdleFields DEF Follows
  <2>2. CASE ~Goes(i, Idle)
    <3>1. PICK N \in Call :
               /\ Goes(i, N) /\ Core(call[i], N) /\ N.doc.role = N.next
               /\ N.pc \in {"savemember", "addgroup"}
      BY <1>2, <2>2, ScansMembersGoes
    <3>2. N.op = "role" /\ N.op = call[i].op
      BY <1>2, <3>1, ScansMembersGoes DEF Core
    <3>3. Given(N)'
      BY <3>1, <3>2 DEF Given, Decided, Changes
    <3>4. QED  BY <3>1, <3>2, <3>3 DEF Follows
  <2>3. QED  BY <2>1, <2>2
<1>3. CASE AddsGroup(i) \/ DropsGroup(i)
  <2>1. PICK pc \in {"dropgroup", "savemember"} : Goto(i, pc) /\ call[i].pc \in {"addgroup", "dropgroup"}
    BY <1>3 DEF AddsGroup, DropsGroup, Regroups
  <2>2. PICK N \in Call : Goes(i, N) /\ Turns(i, pc, N)
    BY <2>1, RegroupsGoes
  <2>3. call[i].op = "role"
    BY <2>1, RegroupsGoes
  <2>4. N.op = "role" /\ N.next = call[i].next /\ N.doc = call[i].doc /\ N.pc \in {"dropgroup", "savemember"}
    BY <2>2, <2>3 DEF Turns, Core, Mind
  <2>5. Given(N)'
    BY <1>1, <2>1, <2>3, <2>4 DEF Given, Decided, Changes
  <2>6. QED  BY <2>2, <2>3, <2>4, <2>5 DEF Follows
<1>4. CASE Groups1st(i)
  <2>1. PICK N \in Call :
              /\ Goes(i, N) /\ Core(call[i], N) /\ Mind(call[i], N) /\ Load(call[i], N)
              /\ N.pc = "savemember" /\ N.doc.role = call[i].next /\ N.doc.teams = {}
    BY <1>4, Groups1stGoes
  <2>2. call[i].op = "invite" /\ N.op = "invite" /\ N.next = call[i].next
    BY <1>4, <2>1, Groups1stGoes DEF Core, Mind
  <2>3. Given(N)'
    BY <1>1, <2>1, <2>2 DEF Given, Decided, Changes
  <2>4. QED  BY <2>1, <2>2, <2>3 DEF Follows
<1>5. QED  BY <1>2, <1>3, <1>4

LEMMA FindingGiven ==
    ASSUME DirectoryInv, Granting, NEW i \in Slot, FindsPending(i) \/ LooksUp(i)
    PROVE  \E N : Follows(i, N) /\ Given(N)'
<1>1. CASE FindsPending(i)
  <2>1. PICK N \in Call :
              /\ Goes(i, N) /\ N.pc = "revoking" /\ Core(call[i], N)
              /\ \/ \E n \in Pending(call[i].target) : N.next = invitation[n].role
                 \/ N.next = DefaultRole(call[i].seen)
    BY <1>1, FindsPendingGoes
  <2>2. \A n \in Pending(call[i].target) : invitation[n].role # "ORG_OWNER"
    BY DEF Granting, Pending
  <2>3. DefaultRole(call[i].seen) # "ORG_OWNER"
    BY CallFields, Ranks
  <2>4. Given(N)'
    BY <2>1, <2>2, <2>3, PlainGiven
  <2>5. QED  BY <2>1, <2>4 DEF Follows, Core
<1>2. CASE LooksUp(i)
  <2>1. CASE Goes(i, Idle)
    BY <2>1, IdleGiven, IdleFields DEF Follows
  <2>2. CASE ~Goes(i, Idle)
    <3>1. PICK N \in Call :
               /\ Goes(i, N) /\ Core(call[i], N)
               /\ \/ N.pc = "expire" /\ N.next = call[i].next
                  \/ N.pc = "claim" /\ N.next = invitation[call[i].invite].role
      BY <1>2, <2>2, LooksUpGoes
    <3>2. N.op = call[i].op /\ call[i].invite \in Invite /\ Given(call[i])
      BY <1>2, <3>1, LooksUpGoes DEF Core, Granting
    <3>3. N.op # "role" => N.next # "ORG_OWNER"
      BY <3>1, <3>2 DEF Granting, Given
    <3>4. Given(N)'
      BY <3>1, <3>3, PlainGiven
    <3>5. QED  BY <3>1, <3>2, <3>4 DEF Follows
  <2>3. QED  BY <2>1, <2>2
<1>3. QED  BY <1>1, <1>2

LEMMA StepGiven ==
    ASSUME DirectoryInv, Granting, owned => owned', NEW i \in Slot, Asking(i) \/ Working(i)
    PROVE  Given(call[i])'
<1>1. ASSUME NEW N, Follows(i, N), Given(N)' PROVE Given(call[i])'
  <2>1. call'[i] = N
    BY <1>1, Moves DEF Follows
  <2>2. QED  BY <1>1, <2>1
<1>2. ASSUME NEW u \in User \cup {NoUser}, Request(i, u) PROVE Given(call[i])'
  <2>1. PICK N \in Call :
              /\ Goes(i, N) /\ N.found = FALSE /\ call[i].pc = "idle"
              /\ N.pc \in {"readmember", "limit"} \cup Before /\ N.pc # "reconcile"
              /\ contested' = (contested \/ Rivals(N.op) # {})
              /\ (N.op # "role" => N.next # "ORG_OWNER")
              /\ (N.pc = "backfill" => N.doc.role # "ORG_OWNER")
    BY <1>2, RequestRivals
  <2>2. Given(N)'
    BY <2>1 DEF Given, Decided, Before
  <2>3. call'[i] = N
    BY <2>1, Moves
  <2>4. QED  BY <2>2, <2>3
<1>3. ASSUME NEW n \in Invite, Inspects(i, n) PROVE Given(call[i])'
  <2>1. PICK N \in Call : /\ Goes(i, N) /\ N.op = "inspect" /\ N.pc = "limit" /\ N.found = FALSE
                          /\ N.next # "ORG_OWNER" /\ contested' = contested
    BY <1>3, InspectsPlain
  <2>2. Given(N)'
    BY <2>1, PlainGiven
  <2>3. call'[i] = N
    BY <2>1, Moves
  <2>4. QED  BY <2>2, <2>3
<1>4. CASE ReadsCounter(i)
  <2>1. CASE call'[i] = Idle
    BY <2>1, IdleGiven
  <2>2. CASE call'[i] # Idle
    <3>1. PICK N : N = call'[i]
      OBVIOUS
    <3>2. N.pc = "count" /\ N.op = call[i].op /\ N.next = call[i].next
      BY <1>4, <2>2, <3>1, ReadsCounterGoes DEF Core, Mind
    <3>3. Given(N)'
      BY <3>2, PlainGiven DEF Granting, Given
    <3>4. QED  BY <3>1, <3>3
  <2>3. QED  BY <2>1, <2>2
<1>5. CASE \/ Lists(i) \/ ScansMembers(i) \/ AddsGroup(i) \/ DropsGroup(i) \/ ReadsMember(i)
           \/ Groups1st(i) \/ FindsPending(i) \/ LooksUp(i)
  BY <1>1, <1>5, ListsGiven, DecidingGiven, ReadsMemberGiven, FindingGiven
<1>6. CASE /\ Working(i) /\ ~Lists(i) /\ ~ScansMembers(i) /\ ~AddsGroup(i) /\ ~DropsGroup(i)
           /\ ~ReadsMember(i) /\ ~Groups1st(i) /\ ~FindsPending(i) /\ ~LooksUp(i) /\ ~ReadsCounter(i)
  <2>1. PICK N : /\ Follows(i, N)
                 /\ \/ N = Idle
                    \/ /\ N.op = call[i].op /\ N.next = call[i].next
                       /\ N.pc \notin {"backfill", "reconcile", "savemember", "addgroup", "dropgroup"}
    BY <1>6, PlainDocs
  <2>2. CASE N = Idle
    BY <1>1, <2>1, <2>2, IdleGiven
  <2>3. CASE N # Idle
    <3>1. Given(N)'
      BY <2>1, <2>3, PlainGiven DEF Granting, Given
    <3>2. QED  BY <1>1, <2>1, <3>1
  <2>4. QED  BY <2>2, <2>3
<1>7. QED  BY <1>2, <1>3, <1>4, <1>5, <1>6 DEF Asking

(* What is written of a role: by a role change what was decided, by        *)
(* anything else no new ownership.                                         *)
LEMMA RoleWritten ==
    ASSUME DirectoryInv, Granting, NEW i \in Slot, Recording(i)
    PROVE  \E u \in User, d \in Member, op \in Ops :
              /\ Writes(u, d, op)
              /\ op # "role" => (d.role = "ORG_OWNER" => owned)
              /\ op = "role" => /\ Changes(call[i]) /\ Decided(call[i]) /\ Goes(i, Idle)
                                /\ u = call[i].target /\ d.role = call[i].next
<1>1. Given(call[i])
  BY DEF Granting
<1>2. CASE Backfills(i)
  <2>1. /\ call[i].actor \in User /\ call[i].doc \in Member /\ call[i].pc = "backfill"
        /\ Writes(call[i].actor, call[i].doc, "me")
    BY <1>2, BackfillsGoes
  <2>2. call[i].doc.role = "ORG_OWNER" => owned
    BY <1>1, <2>1 DEF Given, Decided
  <2>3. QED  BY <2>1, <2>2 DEF Ops
<1>3. CASE Reconciles(i)
  <2>1. /\ call[i].at \in User /\ call[i].doc \in Member /\ call[i].pc = "reconcile"
        /\ Writes(call[i].at, call[i].doc, "list")
    BY <1>3, ReconcilesGoes
  <2>2. call[i].doc.role = "ORG_OWNER" => owned
    BY <1>1, <2>1 DEF Given, Decided
  <2>3. QED  BY <2>1, <2>2 DEF Ops
<1>4. CASE Joins(i)
  <2>1. call[i].op = "accept" /\ call[i].actor \in User
    BY <1>4, JoinsIs
  <2>2. PICK d \in Member : Writes(call[i].actor, d, "accept") /\ d.role = call[i].next
    BY <1>4, JoinsIs
  <2>3. d.role # "ORG_OWNER"
    BY <1>1, <2>1, <2>2 DEF Given
  <2>4. QED  BY <2>1, <2>2, <2>3 DEF Ops
<1>5. CASE SavesMember(i)
  <2>1. /\ call[i].pc = "savemember" /\ Subject(i) \in User /\ call[i].doc \in Member
        /\ Writes(Subject(i), call[i].doc, call[i].op)
    BY <1>5, SavesMemberGoes DEF SavesMember
  <2>2. CASE call[i].op = "role"
    <3>1. Goes(i, Idle)
      BY <1>5, <2>2, SavesMemberGoes DEF Core
    <3>2. Changes(call[i]) /\ Decided(call[i]) /\ Subject(i) = call[i].target
      BY <2>1, <2>2 DEF Changes, Decided, Subject
    <3>3. call[i].doc.role = call[i].next
      BY <1>1, <3>2 DEF Given
    <3>4. QED  BY <2>1, <2>2, <3>1, <3>2, <3>3 DEF Ops
  <2>3. CASE call[i].op # "role"
    <3>1. call[i].doc.role = "ORG_OWNER" => owned
      BY <1>1, <2>1, <2>3 DEF Given, Decided, Changes
    <3>2. call[i].op \in Ops
      BY <1>5, SavesMemberGoes DEF Changing, Ops
    <3>3. QED  BY <2>1, <2>3, <3>1, <3>2
  <2>4. QED  BY <2>2, <2>3
<1>6. QED  BY <1>2, <1>3, <1>4, <1>5 DEF Recording

LEMMA OwnedGrows ==
    ASSUME DirectoryInv, Granting, [Next]_vars
    PROVE  /\ owned => owned'
           /\ Owners' # {} => owned'
           /\ lost \subseteq lost'
<1>1. CASE UNCHANGED <<member, owned, lost>>
  BY <1>1 DEF Owners, Granting
<1>2. ASSUME NEW i \in Slot, Recording(i)
      PROVE  (owned => owned') /\ (Owners' # {} => owned') /\ lost \subseteq lost'
  <2>1. PICK u \in User, d \in Member, op \in Ops : Writes(u, d, op)
    BY <1>2, RecordingIs
  <2>2. /\ member' = [member EXCEPT ![u] = d] /\ owned' = (owned \/ d.role = "ORG_OWNER")
        /\ lost \subseteq lost'
    BY <2>1 DEF Writes
  <2>3. Owners' = (Owners \ {u}) \cup (IF d.role = "ORG_OWNER" THEN {u} ELSE {})
    BY <2>2, OwnersWritten
  <2>4. QED  BY <2>2, <2>3 DEF Granting
<1>3. ASSUME NEW i \in Slot, Asking(i) \/ Working(i), ~Recording(i)
      PROVE  UNCHANGED <<member, owned, lost>>
  BY <1>3, Leaves DEF Working, tables, history
<1>4. ASSUME NEW i \in Slot, Asking(i) \/ Working(i)
      PROVE  (owned => owned') /\ (Owners' # {} => owned') /\ lost \subseteq lost'
  BY <1>1, <1>2, <1>3, <1>4
<1>5. CASE UNCHANGED vars \/ (\E u \in User : SignsIn(u)) \/ \E m \in Invite : Lapses(m)
  <2>1. UNCHANGED <<member, owned, lost>>
    BY <1>5 DEF vars, SignsIn, Lapses, tables, history
  <2>2. QED  BY <1>1, <2>1
<1>6. QED  BY <1>4, <1>5, StepIs

LEMMA LettersGrantNone ==
    ASSUME DirectoryInv, Granting, [Next]_vars, NEW n \in Invite
    PROVE  invitation'[n].role # "ORG_OWNER"
<1>1. CASE invitation'[n] = invitation[n]
  BY <1>1 DEF Granting
<1>2. ASSUME NEW i \in Slot, Inviting(i), invitation'[n] # invitation[n]
      PROVE  invitation'[n].role # "ORG_OWNER"
  <2>1. PICK m \in Invite :
              /\ invitation'[m].state # "none"
              /\ \A k \in Invite \ {m} : invitation'[k] = invitation[k]
              /\ \/ Issues(i, m)
                 \/ /\ invitation'[m].email = invitation[m].email
                    /\ invitation'[m].role = invitation[m].role /\ invitation'[m].state # "pending"
                    /\ m \in call[i].pend \/ (m = call[i].invite /\ call[i].pc \in {"expire", "claim"})
    BY <1>2, InvitingIs
  <2>2. CASE Issues(i, n)
    <3>1. call[i].op \in {"invite", "resend"} /\ invitation'[n].role = call[i].next
      BY <2>2, IssuesGoes, IssuesIs
    <3>2. QED  BY <3>1 DEF Granting, Given
  <2>3. CASE ~Issues(i, n)
    BY <1>2, <2>1, <2>3 DEF Granting
  <2>4. QED  BY <2>2, <2>3
<1>3. ASSUME NEW i \in Slot, Asking(i) \/ Working(i), ~Inviting(i)
      PROVE  invitation' = invitation
  BY <1>3, Leaves DEF Working, tables
<1>4. CASE UNCHANGED vars \/ (\E u \in User : SignsIn(u)) \/ \E m \in Invite : Lapses(m)
  BY <1>1, <1>4 DEF vars, SignsIn, Lapses, tables
<1>5. QED  BY <1>1, <1>2, <1>3, <1>4, StepIs

LEMMA GrantingStep == DirectoryInv /\ Granting /\ [Next]_vars => Granting'
<1> SUFFICES ASSUME DirectoryInv, Granting, [Next]_vars PROVE Granting'
  OBVIOUS
<1>1. owned => owned'
  BY OwnedGrows
<1>2. ASSUME NEW j \in Slot, Alike(call[j], call'[j]) PROVE Given(call[j])'
  <2>1. PICK d : d = call'[j]
    OBVIOUS
  <2>2. Given(d)'
    BY <1>1, <1>2, <2>1, GivenStays DEF Granting
  <2>3. QED  BY <2>1, <2>2
<1>3. ASSUME NEW j \in Slot PROVE Given(call[j])'
  <2>1. CASE call' = call
    BY <1>2, <2>1, AlikeSelf
  <2>2. ASSUME NEW i \in Slot, Asking(i) \/ Working(i) PROVE Given(call[j])'
    <3>1. CASE j = i
      BY <1>1, <2>2, <3>1, StepGiven
    <3>2. CASE j # i
      BY <1>2, <2>2, <3>2, StepOthers DEF Others
    <3>3. QED  BY <3>1, <3>2
  <2>3. CASE UNCHANGED vars \/ (\E u \in User : SignsIn(u)) \/ \E m \in Invite : Lapses(m)
    BY <2>1, <2>3 DEF vars, SignsIn, Lapses
  <2>4. QED  BY <2>2, <2>3, StepIs
<1>4. (\A i \in Slot : Given(call[i]))'
  BY <1>3
<1>5. (Owners # {} => owned)'
  BY OwnedGrows
<1>6. (\A n \in Invite : invitation[n].role # "ORG_OWNER")'
  BY LettersGrantNone
<1>7. QED  BY <1>4, <1>5, <1>6 DEF Granting

(***************************************************************************)
(* An owner remains                                                        *)
(***************************************************************************)
LEMMA AnotherOwner ==
    ASSUME NEW v, NEW next, next # "ORG_OWNER", ~WouldOrphan(v, next), Owners # {}
    PROVE  \E u \in Owners : u # v
<1>1. CASE v \notin Owners
  BY <1>1
<1>2. CASE v \in Owners
  <2>1. Cardinality(Owners) # 1
    BY <1>2 DEF WouldOrphan
  <2>2. Cardinality({v}) = 1
    BY FS_Singleton
  <2>3. Owners # {v}
    BY <2>1, <2>2
  <2>4. QED  BY <1>2, <2>3
<1>3. QED  BY <1>1, <1>2

LEMMA SafeStays ==
    ASSUME UNCHANGED <<member, owned>>, NEW c, Safe(c), NEW d, Alike(c, d)
    PROVE  Safe(d)'
<1>1. d.pc = c.pc /\ d.op = c.op /\ d.next = c.next /\ d.target = c.target
  BY DEF Alike, Core, Mind
<1>2. QED  BY <1>1 DEF Safe, Decided, Changes, Owners

(* A role change decides once it has read another owner, or gives one.     *)
LEMMA DecidingSafe ==
    ASSUME DirectoryInv, owned => Owners # {}, NEW i \in Slot, Working(i), Safe(call[i]),
           UNCHANGED <<member, owned>>
    PROVE  Safe(call[i])'
<1>1. ASSUME NEW N, Follows(i, N), Decided(N) => Safe(N)' PROVE Safe(call[i])'
  <2>1. call'[i] = N /\ Safe(N)'
    BY <1>1, Moves DEF Follows, Safe
  <2>2. QED  BY <2>1
<1>2. CASE ScansMembers(i)
  <2>1. CASE Goes(i, Idle)
    BY <1>1, <2>1, IdleFields DEF Follows, Decided, Changes
  <2>2. CASE ~Goes(i, Idle)
    <3>1. PICK N \in Call :
               /\ Goes(i, N) /\ Core(call[i], N) /\ Mind(call[i], N)
               /\ ~WouldOrphan(call[i].target, call[i].next)
      BY <1>2, <2>2, ScansMembersGoes
    <3>2. N.op = call[i].op /\ N.next = call[i].next /\ N.target = call[i].target
      BY <3>1 DEF Core, Mind
    <3>3. N.next # "ORG_OWNER" /\ owned => \E u \in Owners : u # N.target
      BY <3>1, <3>2, AnotherOwner
    <3>4. Safe(N)'
      BY <3>3 DEF Safe, Owners
    <3>5. QED  BY <1>1, <3>1, <3>2, <3>4 DEF Follows
  <2>3. QED  BY <2>1, <2>2
<1>3. CASE AddsGroup(i) \/ DropsGroup(i)
  <2>1. PICK pc \in {"dropgroup", "savemember"} : Goto(i, pc) /\ call[i].pc \in {"addgroup", "dropgroup"}
    BY <1>3 DEF AddsGroup, DropsGroup, Regroups
  <2>2. PICK N \in Call : Goes(i, N) /\ Turns(i, pc, N)
    BY <2>1, RegroupsGoes
  <2>3. call[i].op = "role"
    BY <2>1, RegroupsGoes
  <2>4. N.op = "role" /\ N.next = call[i].next /\ N.target = call[i].target
    BY <2>2, <2>3 DEF Turns, Core, Mind
  <2>5. Safe(N)'
    BY <2>1, <2>3, <2>4 DEF Safe, Decided, Changes, Owners
  <2>6. QED  BY <1>1, <2>2, <2>3, <2>4, <2>5 DEF Follows
<1>4. CASE Lists(i)
  <2>1. PICK N \in Call, v \in call[i].todo :
             Goes(i, N) /\ Core(call[i], N) /\ N.pc \in {"list", "reconcile"}
    BY <1>4, ListsGoes
  <2>2. QED  BY <1>1, <2>1 DEF Follows, Core, Decided
<1>5. CASE DropFails(i)
  <2>1. PICK N \in Call : Goes(i, N) /\ Turns(i, "rollback", N)
    BY <1>5, RegroupsGoes DEF DropFails
  <2>2. QED  BY <1>1, <2>1 DEF Follows, Core, Decided, Turns
<1>6. CASE ReadsCounter(i)
  <2>1. PICK N : N = call'[i]
    OBVIOUS
  <2>2. N.op # "role"
    BY <1>6, <2>1, ReadsCounterGoes, CallFields, IdleFields DEF ReadsCounter, Belongs, Core
  <2>3. Safe(N)'
    BY <2>2 DEF Safe, Decided, Changes
  <2>4. QED  BY <2>1, <2>3
<1>7. CASE /\ ~Lists(i) /\ ~ScansMembers(i) /\ ~AddsGroup(i) /\ ~DropsGroup(i) /\ ~DropFails(i)
           /\ ~ReadsCounter(i)
  <2>1. PICK N : /\ Follows(i, N)
                 /\ Changes(N) => /\ Core(call[i], N) /\ Mind(call[i], N)
                                  /\ N.pc \in Before /\ call[i].pc \in Before
    BY <1>7, PlainRoles
  <2>2. ~Decided(N)
    BY <2>1 DEF Decided, Before
  <2>3. QED  BY <1>1, <2>1, <2>2
<1>8. QED  BY <1>2, <1>3, <1>4, <1>5, <1>6, <1>7

LEMMA AskingSafe ==
    ASSUME DirectoryInv, NEW i \in Slot, Asking(i)
    PROVE  Safe(call[i])'
<1>1. ASSUME NEW u \in User \cup {NoUser}, Request(i, u) PROVE Safe(call[i])'
  <2>1. PICK op \in Ops \ {"inspect"}, c, N \in Call :
              /\ Asks(i, u, op, c) /\ Goes(i, N) /\ N.op = op /\ N.actor = u
              /\ N.found = FALSE /\ N.pend = {} /\ N.pc \in {"readmember", "limit"} \cup Before
              /\ N.pc # "reconcile" /\ (N.pc = "backfill" \/ N.pc = First(op))
              /\ (op # "role" => N.next # "ORG_OWNER")
              /\ (N.pc = "backfill" => u \in User /\ N.doc = Backfilled(member[u], session[u])
                                          /\ session[u] \in Invitable)
    BY <1>1, RequestGoes
  <2>2. call'[i] = N
    BY <2>1, Moves
  <2>3. Safe(N)'
    BY <2>1 DEF Safe, Decided, Before
  <2>4. QED  BY <2>2, <2>3
<1>2. ASSUME NEW n \in Invite, Inspects(i, n) PROVE Safe(call[i])'
  <2>1. PICK N \in Call : /\ Goes(i, N) /\ N.op = "inspect" /\ N.pc = "limit" /\ N.found = FALSE
                          /\ N.next # "ORG_OWNER" /\ contested' = contested
    BY <1>2, InspectsPlain
  <2>2. call'[i] = N
    BY <2>1, Moves
  <2>3. Safe(N)'
    BY <2>1 DEF Safe, Decided
  <2>4. QED  BY <2>2, <2>3
<1>3. QED  BY <1>1, <1>2 DEF Asking

LEMMA RecordingSafe ==
    ASSUME DirectoryInv, Granting, Grouping, ~contested, owned => Owners # {},
           \A j \in Slot : Safe(call[j]), NEW i \in Slot, Recording(i), lost' = {}
    PROVE  (owned' => Owners' # {}) /\ \A j \in Slot : Safe(call[j])'
<1>1. PICK u \in User, d \in Member, op \in Ops :
              /\ Writes(u, d, op)
              /\ op # "role" => (d.role = "ORG_OWNER" => owned)
              /\ op = "role" => /\ Changes(call[i]) /\ Decided(call[i]) /\ Goes(i, Idle)
                                /\ u = call[i].target /\ d.role = call[i].next
  BY RoleWritten
<1>2. /\ owned' = (owned \/ d.role = "ORG_OWNER")
      /\ Owners' = (Owners \ {u}) \cup (IF d.role = "ORG_OWNER" THEN {u} ELSE {})
  BY <1>1, OwnersWritten DEF Writes
<1>3. Others(i)
  BY StepOthers DEF Working
<1>4. CASE op # "role"
  <2>1. member[u] = NoMember \/ member[u].role = d.role
    BY <1>1, <1>4 DEF Writes
  <2>2. owned' = owned /\ Owners \subseteq Owners'
    BY <1>1, <1>2, <1>4, <2>1, MemberFields DEF Owners, DirectoryInv, DirectoryTypeOK
  <2>3. ASSUME NEW j \in Slot, Alike(call[j], call'[j]) PROVE Safe(call[j])'
    <3>1. /\ call'[j].op = call[j].op /\ call'[j].pc = call[j].pc
          /\ call'[j].next = call[j].next /\ call'[j].target = call[j].target
      BY <2>3 DEF Alike, Core, Mind
    <3>2. Safe(call[j])
      OBVIOUS
    <3>3. QED  BY <2>2, <3>1, <3>2 DEF Safe, Decided, Changes
  <2>4. Safe(call[i])'
    <3>1. PICK N : /\ Follows(i, N)
                   /\ Changes(N) => /\ Core(call[i], N) /\ Mind(call[i], N)
                                    /\ N.pc \in Before /\ call[i].pc \in Before
      <4>1. /\ ~Lists(i) /\ ~ScansMembers(i) /\ ~AddsGroup(i) /\ ~DropsGroup(i) /\ ~DropFails(i)
            /\ ~ReadsCounter(i)
        BY DEF Recording, Backfills, Reconciles, SavesMember, Joins, Lists, ScansMembers, HasListed,
               AddsGroup, DropsGroup, DropFails, ReadsCounter
      <4>2. QED  BY <4>1, PlainRoles DEF Working
    <3>2. call'[i] = N
      BY <3>1, Moves DEF Follows
    <3>3. Safe(N)'
      BY <3>1 DEF Safe, Decided, Before
    <3>4. QED  BY <3>2, <3>3
  <2>5. \A j \in Slot : Safe(call[j])'
    BY <1>3, <2>3, <2>4 DEF Others
  <2>6. QED  BY <2>2, <2>5
<1>5. CASE op = "role"
  <2>1. /\ Changes(call[i]) /\ Decided(call[i]) /\ call'[i] = Idle
        /\ u = call[i].target /\ d.role = call[i].next
    BY <1>1, <1>5, Moves
  <2>2. owned' => Owners' # {}
    <3>1. CASE d.role = "ORG_OWNER"
      BY <1>2, <3>1
    <3>2. CASE d.role # "ORG_OWNER"
      <4>1. owned => \E v \in Owners : v # u
        BY <2>1, <3>2 DEF Safe
      <4>2. QED  BY <1>2, <3>2, <4>1
    <3>3. QED  BY <3>1, <3>2
  <2>3. ASSUME NEW j \in Slot PROVE Safe(call[j])'
    <3>1. CASE j = i
      <4>1. Safe(Idle)'
        BY IdleFields DEF Safe, Decided, Changes
      <4>2. QED  BY <2>1, <3>1, <4>1
    <3>2. CASE j # i
      <4>1. ~Changes(call[j]) /\ call'[j].op = call[j].op
        BY <1>3, <2>1, <3>2 DEF Grouping, Others, Alike, Core
      <4>2. QED  BY <4>1 DEF Safe, Decided, Changes
    <3>3. QED  BY <3>1, <3>2
  <2>4. QED  BY <2>2, <2>3
<1>6. QED  BY <1>4, <1>5

LEMMA OwningStep == DirectoryInv /\ Grouping /\ Owning /\ [Next]_vars => Owning'
<1> SUFFICES ASSUME DirectoryInv, Grouping, Owning, [Next]_vars PROVE Owning'
  OBVIOUS
<1>1. Granting /\ Granting'
  BY GrantingStep DEF Owning
<1>2. CASE contested' \/ lost' # {}
  BY <1>1, <1>2 DEF Owning
<1>3. CASE ~(contested' \/ lost' # {})
  <2>1. lost = {} /\ lost' = {}
    BY <1>1, <1>3, OwnedGrows
  <2>2. contested => contested'
    <3>1. ASSUME NEW i \in Slot, Asking(i) PROVE contested => contested'
      <4>1. ASSUME NEW u \in User \cup {NoUser}, Request(i, u) PROVE contested => contested'
        BY <4>1, RequestRivals
      <4>2. ASSUME NEW n \in Invite, Inspects(i, n) PROVE contested => contested'
        BY <4>2, InspectsPlain
      <4>3. QED  BY <3>1, <4>1, <4>2 DEF Asking
    <3>2. ASSUME NEW i \in Slot, Working(i) PROVE contested => contested'
      BY <3>2, Leaves DEF Working, history
    <3>3. CASE UNCHANGED vars \/ (\E u \in User : SignsIn(u)) \/ \E m \in Invite : Lapses(m)
      BY <3>3 DEF vars, SignsIn, Lapses, history
    <3>4. QED  BY <3>1, <3>2, <3>3, StepIs
  <2>3. ~contested /\ (owned => Owners # {}) /\ \A j \in Slot : Safe(call[j])
    BY <1>3, <2>1, <2>2 DEF Owning
  <2>4. ASSUME UNCHANGED <<member, owned>>, NEW j \in Slot, Alike(call[j], call'[j])
        PROVE  Safe(call[j])'
    <3>1. PICK d : d = call'[j]
      OBVIOUS
    <3>2. Safe(d)'
      BY <2>3, <2>4, <3>1, SafeStays
    <3>3. QED  BY <3>1, <3>2
  <2>5. ASSUME NEW i \in Slot, Asking(i) \/ Working(i), ~Recording(i)
        PROVE  (owned' => Owners' # {}) /\ \A j \in Slot : Safe(call[j])'
    <3>1. UNCHANGED <<member, owned>>
      BY <2>5, Leaves DEF Working, tables, history
    <3>2. owned' => Owners' # {}
      BY <2>3, <3>1 DEF Owners
    <3>3. ASSUME NEW j \in Slot PROVE Safe(call[j])'
      <4>1. CASE j = i
        BY <2>3, <2>5, <3>1, <4>1, DecidingSafe, AskingSafe
      <4>2. CASE j # i
        BY <2>4, <2>5, <3>1, <4>2, StepOthers DEF Others
      <4>3. QED  BY <4>1, <4>2
    <3>4. QED  BY <3>2, <3>3
  <2>6. ASSUME (owned' => Owners' # {}) /\ \A j \in Slot : Safe(call[j])'
        PROVE  Owning'
    <3>1. (owned => Owners # {})' /\ (\A j \in Slot : Safe(call[j]))'
      BY <2>6
    <3>2. QED  BY <1>1, <3>1 DEF Owning
  <2>7. ASSUME NEW i \in Slot, Asking(i) \/ Working(i)
        PROVE  Owning'
    <3>1. CASE Recording(i)
      BY <1>1, <2>1, <2>3, <2>6, <3>1, RecordingSafe
    <3>2. CASE ~Recording(i)
      BY <2>5, <2>6, <2>7, <3>2
    <3>3. QED  BY <3>1, <3>2
  <2>8. CASE UNCHANGED vars \/ (\E u \in User : SignsIn(u)) \/ \E m \in Invite : Lapses(m)
    <3>1. UNCHANGED <<call, member, owned>>
      BY <2>8 DEF vars, SignsIn, Lapses, tables, history
    <3>2. \A j \in Slot : Safe(call[j])'
      BY <2>4, <3>1, AlikeSelf
    <3>3. owned' => Owners' # {}
      BY <2>3, <3>1 DEF Owners
    <3>4. QED  BY <2>6, <3>2, <3>3
  <2>9. QED  BY <2>7, <2>8, StepIs
<1>4. QED  BY <1>2, <1>3

(* An organization that has had an owner has one, unless two role changes  *)
(* were in flight together or some request that is no role change wrote    *)
(* over a role: whoever takes ownership away has read another owner, and   *)
(* only a role change writes ownership away or into being.                 *)
THEOREM AnOwnerRemains == Spec => []OwnersKept
<1>1. Init => Owning
  <2> SUFFICES ASSUME Init PROVE Owning
    OBVIOUS
  <2>1. owned = (Owners # {})
    BY DEF Init
  <2>2. \A n \in Invite : invitation[n].role # "ORG_OWNER"
    BY DEF Init, NoInvitation
  <2>3. \A i \in Slot : Given(call[i]) /\ Safe(call[i])
    BY IdleGiven, IdleFields DEF Init, Safe, Decided, Changes
  <2>4. QED  BY <2>1, <2>2, <2>3 DEF Owning, Granting
<1>2. Owning => OwnersKept
  BY DEF Owning, OwnersKept
<1>3. QED  BY <1>1, <1>2, GroupingInit, GroupingStep, OwningStep, DirectoryTyped, PTL DEF Spec

(***************************************************************************)
(* The matrix tells what is decided                                        *)
(***************************************************************************)
LEMMA NothingInternal == OwnerGrants \cap InternalPermissions = {}
BY DEF OwnerGrants, ReadOnly, InternalPermissions

LEMMA GrantsAreOwners == \A r \in CustomerRoles : RoleGrants(r) \subseteq OwnerGrants
<1>1. RoleGrants("ORG_OWNER") \subseteq OwnerGrants /\ RoleGrants("ORG_ADMIN") \subseteq OwnerGrants
  BY DEF RoleGrants
<1>2. RoleGrants("WORKFLOW_BUILDER") \subseteq OwnerGrants
  BY DEF RoleGrants, OwnerGrants
<1>3. RoleGrants("OPERATOR") \subseteq OwnerGrants
  BY DEF RoleGrants, OwnerGrants
<1>4. RoleGrants("APPROVER") \subseteq OwnerGrants
  BY DEF RoleGrants, OwnerGrants
<1>5. RoleGrants("VIEWER") \subseteq OwnerGrants
  BY DEF RoleGrants, OwnerGrants
<1>6. QED  BY <1>1, <1>2, <1>3, <1>4, <1>5 DEF CustomerRoles

LEMMA StaffSeesAll == "run:read_all" \in StaffGrants
BY DEF StaffGrants, OwnerGrants

LEMMA CoarseIsGroup == \A r \in CustomerRoles : CoarseOf(r) \in Groups
BY Ranks DEF Invitable, Groups

(* What the decision function says of a customer, for a record of the      *)
(* organization that any group may start.                                  *)
LEMMA CustomerCan ==
    ASSUME NEW p, p.staff = FALSE, p.org = "org", p.role \in CustomerRoles, NEW q, NEW owner
    PROVE  Can(p, q, [org |-> "org", owner |-> owner, assigned |-> Groups]) <=>
              /\ q \in RoleGrants(p.role)
              /\ Narrowed(RoleGrants(p.role), q) /\ owner # {} => p.user \in owner
<1>1. q \in RoleGrants(p.role) => q \notin InternalPermissions
  BY GrantsAreOwners, NothingInternal
<1>2. CoarseOf(p.role) \in Groups
  BY CoarseIsGroup
<1>3. QED  BY <1>1, <1>2 DEF Can, AllowedByGrant

LEMMA CustomerMatrix ==
    ASSUME NEW r \in CustomerRoles, NEW q
    PROVE  /\ Matrix(r, q) # "no" <=> q \in RoleGrants(r)
           /\ Matrix(r, q) = "yes" <=> q \in RoleGrants(r) /\ ~Narrowed(RoleGrants(r), q)
<1>1. r # "STAFF_ADMIN"
  BY DEF CustomerRoles
<1>2. QED  BY <1>1 DEF Matrix

LEMMA StaffMatrix ==
    ASSUME NEW q
    PROVE  /\ Matrix("STAFF_ADMIN", q) # "no" <=> q \in StaffGrants
           /\ Matrix("STAFF_ADMIN", q) = "yes" <=> q \in StaffGrants
BY StaffSeesAll DEF Matrix, Narrowed

LEMMA CustomerPrincipal ==
    ASSUME DirectoryInv, NEW u \in User, session[u] # "none"
    PROVE  LET p == Principal(u)
           IN  p.user = u /\ p.staff = FALSE /\ p.org = "org" /\ p.role \in CustomerRoles
<1>1. PICK g : g = session[u]
  OBVIOUS
<1>2. PICK stored : stored = IF member[u] = NoMember THEN DefaultRole(session[u]) ELSE member[u].role
  OBVIOUS
<1>3. g \in Invitable /\ u # NoUser
  BY <1>1, UserFields, DirectoryAssumption
<1>4. stored \in CustomerRoles
  BY <1>1, <1>2, <1>3, UserFields, MemberFields, Ranks
<1>5. GroupOf({g}) = g /\ g # "SUPER_ADMIN"
  BY <1>3 DEF GroupOf, Invitable
<1>6. Principal(u) = PrincipalOf(u, "org", {g}, stored)
  BY <1>1, <1>2, <1>3 DEF Principal
<1>7. PICK role : role = IF Reachable(stored, g) THEN stored ELSE DefaultRole(g)
  OBVIOUS
<1>8. role \in CustomerRoles
  BY <1>3, <1>4, <1>7, Ranks
<1>9. (g = "SUPER_ADMIN") = FALSE
  BY <1>5
<1>10. Principal(u) = [user |-> u, org |-> "org", group |-> g, staff |-> FALSE, role |-> role]
  <2>1. Principal(u) = [user |-> u, org |-> "org", group |-> g, staff |-> g = "SUPER_ADMIN", role |-> role]
    BY <1>5, <1>6, <1>7 DEF PrincipalOf
  <2>2. QED  BY <1>9, <2>1
<1>11. QED  BY <1>8, <1>10

LEMMA MatrixTells == DirectoryInv => MatrixTellsDecision
<1> SUFFICES ASSUME DirectoryInv, NEW u \in {v \in User : session[v] # "none"} \cup {NoUser}
             PROVE  LET p == Principal(u)
                    IN  /\ \A q \in AllPermissions :
                              /\ Matrix(p.role, q) # "no" <=> Can(p, q, Record({u}))
                              /\ Matrix(p.role, q) = "yes" <=> Can(p, q, Record({NoUser}))
                        /\ VisibleSections(p) =
                              {s \in DOMAIN SectionPermission : Matrix(p.role, SectionPermission[s]) # "no"}
  BY DEF MatrixTellsDecision
<1>1. CASE u = NoUser
  <2>1. PICK p : p = Principal(u)
    OBVIOUS
  <2>2. p.staff = TRUE /\ p.role = "STAFF_ADMIN"
    BY <1>1, <2>1 DEF Principal
  <2>3. \A q, r : Can(p, q, r) <=> q \in StaffGrants
    BY <2>2 DEF Can
  <2>4. \A q : /\ Matrix(p.role, q) # "no" <=> q \in StaffGrants
               /\ Matrix(p.role, q) = "yes" <=> q \in StaffGrants
    BY <2>2, StaffMatrix
  <2>5. VisibleSections(p) =
           {s \in DOMAIN SectionPermission : Matrix(p.role, SectionPermission[s]) # "no"}
    BY <2>3, <2>4 DEF VisibleSections
  <2>6. \A q \in AllPermissions : /\ Matrix(p.role, q) # "no" <=> Can(p, q, Record({u}))
                                  /\ Matrix(p.role, q) = "yes" <=> Can(p, q, Record({NoUser}))
    BY <2>3, <2>4
  <2>7. QED  BY <2>1, <2>5, <2>6
<1>2. CASE u # NoUser
  <2>1. PICK p : p = Principal(u)
    OBVIOUS
  <2>2. p.user = u /\ p.staff = FALSE /\ p.org = "org" /\ p.role \in CustomerRoles
    BY <1>2, <2>1, CustomerPrincipal
  <2>3. \A q : /\ Can(p, q, Record({u})) <=> q \in RoleGrants(p.role)
               /\ Can(p, q, Record({NoUser})) <=>
                     q \in RoleGrants(p.role) /\ ~Narrowed(RoleGrants(p.role), q)
               /\ Can(p, q, Whole(p.org)) <=> q \in RoleGrants(p.role)
    BY <1>2, <2>2, CustomerCan DEF Record, Whole
  <2>4. \A q : /\ Matrix(p.role, q) # "no" <=> q \in RoleGrants(p.role)
               /\ Matrix(p.role, q) = "yes" <=>
                     q \in RoleGrants(p.role) /\ ~Narrowed(RoleGrants(p.role), q)
    BY <2>2, CustomerMatrix
  <2>5. VisibleSections(p) =
           {s \in DOMAIN SectionPermission : Matrix(p.role, SectionPermission[s]) # "no"}
    BY <2>3, <2>4 DEF VisibleSections
  <2>6. \A q \in AllPermissions : /\ Matrix(p.role, q) # "no" <=> Can(p, q, Record({u}))
                                  /\ Matrix(p.role, q) = "yes" <=> Can(p, q, Record({NoUser}))
    BY <2>3, <2>4
  <2>7. QED  BY <2>1, <2>5, <2>6
<1>3. QED  BY <1>1, <1>2

(* Whoever is signed in, whatever group the token names and whatever role  *)
(* is stored: the matrix and the menu tell what the decision function      *)
(* decides.                                                                *)
THEOREM MatrixIsDecision == Spec => []MatrixTellsDecision
<1>1. QED  BY MatrixTells, DirectoryTyped, PTL

(***************************************************************************)
(* The two records of a team                                               *)
(***************************************************************************)
Sorting == {"addto", "removefrom", "delete"}
Drafts  == {"backfill", "reconcile", "addgroup", "dropgroup", "savemember"}

(* Requests that do not touch teams have nothing to do about them. *)
LEMMA Restful ==
    ASSUME NEW N, N.op \notin Sorting, N.pc \notin Drafts \cup {"grouping", "join", "saveteam"}
    PROVE  AtWork(N) /\ AtWork(N)'
BY DEF Sorting, Drafts, AtWork, Carries, Adds, Removes, Deletes, Closing

LEMMA IdleWorks == AtWork(Idle) /\ AtWork(Idle)'
BY IdleFields, Restful DEF Sorting, Drafts

LEMMA Undiffering ==
    ASSUME NEW c, c.op \notin Sorting \/ c.pc \notin {"readmember", "savemember", "dropteam"}
    PROVE  \A u, t : ~Differs(c, u, t)
BY DEF Sorting, Differs, Settling, Closing

LEMMA JoinsGrow ==
    ASSUME DirectoryInv, [Next]_vars, NEW n \in Invite, joins[n] > 0
    PROVE  joins'[n] > 0
<1>1. CASE joins' = joins
  BY <1>1
<1>2. ASSUME NEW i \in Slot, Claims(i) PROVE joins'[n] > 0
  <2>1. PICK m \in Invite : m = call[i].invite
    BY <1>2, ClaimsGoes
  <2>2. joins' = [joins EXCEPT ![m] = @ + 1] /\ joins \in [Invite -> Nat]
    BY <1>2, <2>1 DEF Claims, DirectoryInv, DirectoryTypeOK
  <2>3. CASE n = m
    <3>1. joins[n] \in Nat /\ joins'[n] = joins[n] + 1
      BY <2>2, <2>3
    <3>2. QED  BY <3>1
  <2>4. CASE n # m
    BY <2>2, <2>4
  <2>5. QED  BY <2>3, <2>4
<1>3. ASSUME NEW i \in Slot, Asking(i) \/ Working(i), ~Claims(i) PROVE joins' = joins
  <2>1. CASE ~Inviting(i)
    BY <1>3, <2>1, Leaves DEF Working, history
  <2>2. CASE Inviting(i)
    BY <1>3, <2>2 DEF Inviting, Expires, Issues, Revokes, history
  <2>3. QED  BY <2>1, <2>2
<1>4. CASE UNCHANGED vars \/ (\E u \in User : SignsIn(u)) \/ \E m \in Invite : Lapses(m)
  BY <1>1, <1>4 DEF vars, SignsIn, Lapses, history
<1>5. QED  BY <1>1, <1>2, <1>3, <1>4, StepIs

LEMMA JoinedStays ==
    ASSUME DirectoryInv, Accepting, [Next]_vars, NEW u, Joined(u)
    PROVE  Joined(u)'
<1>1. PICK n \in Invite : joins[n] > 0 /\ invitation[n].email = u
  BY DEF Joined
<1>2. joins[n] \in Nat
  BY DEF DirectoryInv, DirectoryTypeOK
<1>3. joins[n] = 1
  BY <1>1, <1>2 DEF Accepting
<1>4. Issued(n)
  BY <1>3 DEF Accepting, Issued
<1>5. invitation'[n].email = u
  BY <1>1, <1>4, StepGrows DEF Grown
<1>6. joins'[n] > 0
  BY <1>1, JoinsGrow
<1>7. QED  BY <1>5, <1>6 DEF Joined

(* While memberships and teams stay, so does what was known of them. *)
LEMMA WorkStays ==
    ASSUME UNCHANGED <<member, team>>, \A u : Joined(u) => Joined(u)', NEW c, AtWork(c)
    PROVE  AtWork(c)'
<1>1. Carries(c)'
  <2>1. DocTeams(c)' = DocTeams(c)
    BY DEF DocTeams, TeamsOf
  <2>2. QED  BY <2>1 DEF AtWork, Carries
<1>2. Adds(c)' /\ Removes(c)'
  BY DEF AtWork, Adds, Removes, MembersOf
<1>3. Deletes(c)'
  BY DEF AtWork, Deletes, MembersOf, TeamsOf
<1>4. QED  BY <1>1, <1>2, <1>3 DEF AtWork

(* Who works alone. *)
LEMMA WorksAlone ==
    ASSUME DirectoryInv, Teaming, Solo, NEW i \in Slot, i \in Busy \/ Busy = {}
    PROVE  /\ AtWork(call[i])
           /\ \A j \in Slot \ {i} : call[j].pc = "idle" /\ call[j].op = "none"
           /\ \A u \in User, t \in Team : Settled(u, t) \/ Differs(call[i], u, t)
<1>1. \A j \in Slot \ {i} : call[j].pc = "idle" /\ call[j].op = "none"
  <2>1. \A j \in Slot \ {i} : j \notin Busy
    BY DEF Teaming
  <2>2. QED  BY <2>1, CallFields DEF Busy, Belongs
<1>2. \A j \in Slot \ {i}, u \in User, t \in Team : ~Differs(call[j], u, t)
  BY <1>1, Undiffering
<1>3. QED  BY <1>1, <1>2 DEF Teaming

LEMMA TeamingKept ==
    ASSUME DirectoryInv, Teaming, Solo, NEW i \in Slot, i \in Busy \/ Busy = {}, Others(i),
           NEW N, call'[i] = N, AtWork(N)',
           \A u \in User, t \in Team : Settled(u, t)' \/ Differs(N, u, t)'
    PROVE  Teaming'
<1>1. \A j \in Slot \ {i} : call'[j].pc = "idle" /\ call'[j].op = "none"
  BY WorksAlone DEF Others, Alike, Core
<1>2. (\A j, k \in Busy : j = k)'
  BY <1>1 DEF Busy
<1>3. ASSUME NEW j \in Slot PROVE AtWork(call[j])'
  <2>1. CASE j = i
    BY <2>1
  <2>2. CASE j # i
    <3>1. PICK d : d = call'[j]
      OBVIOUS
    <3>2. AtWork(d)'
      BY <1>1, <2>2, <3>1, Restful DEF Sorting, Drafts
    <3>3. QED  BY <3>1, <3>2
  <2>3. QED  BY <2>1, <2>2
<1>4. (\A j \in Slot : AtWork(call[j]))'
  BY <1>3
<1>5. ASSUME NEW u \in User, NEW t \in Team
      PROVE  (Settled(u, t) \/ \E j \in Slot : Differs(call[j], u, t))'
  <2>1. Differs(N, u, t)' => Differs(call[i], u, t)'
    OBVIOUS
  <2>2. QED  BY <2>1
<1>6. (\A u \in User, t \in Team : Settled(u, t) \/ \E j \in Slot : Differs(call[j], u, t))'
  BY <1>5
<1>7. QED  BY <1>2, <1>4, <1>6 DEF Teaming

(* An invocation goes on and leaves the records as they were. *)
Continues(i, N) ==
    /\ call'[i] = N /\ AtWork(N)
    /\ \A u \in User, t \in Team : Differs(call[i], u, t) => Settled(u, t) \/ Differs(N, u, t)

LEMMA TeamingContinues ==
    ASSUME DirectoryInv, Teaming, Solo, NEW i \in Slot, i \in Busy \/ Busy = {}, Others(i),
           UNCHANGED <<member, team>>, \A u : Joined(u) => Joined(u)', NEW N, Continues(i, N)
    PROVE  Teaming'
<1>1. AtWork(N)'
  BY WorkStays DEF Continues
<1>2. \A u \in User, t \in Team : Settled(u, t) => Settled(u, t)'
  BY DEF Settled, Agree, TeamsOf, MembersOf
<1>3. \A u \in User, t \in Team : Differs(N, u, t) => Differs(N, u, t)'
  BY DEF Differs, MembersOf
<1>4. \A u \in User, t \in Team : Settled(u, t) \/ Differs(N, u, t)
  BY WorksAlone DEF Continues
<1>5. QED  BY <1>1, <1>2, <1>3, <1>4, TeamingKept DEF Continues

LEMMA ContinuesAside ==
    ASSUME DirectoryInv, NEW i \in Slot, NEW N, call'[i] = N, AtWork(N),
           call[i].op \notin Sorting \/ call[i].pc \notin {"readmember", "savemember", "dropteam"}
    PROVE  Continues(i, N)
BY Undiffering DEF Continues

LEMMA EndsAside ==
    ASSUME DirectoryInv, NEW i \in Slot,
           EndsListing(i) \/ ClaimRefused(i) \/ Expires(i) \/ RollsBack(i) \/ Indexes(i)
    PROVE  Continues(i, Idle)
<1>1. call[i].pc \notin {"readmember", "savemember", "dropteam"}
  BY DEF EndsListing, ClaimRefused, Expires, RollsBack, Indexes
<1>2. call'[i] = Idle
  BY ReturnsGo, EndsListingGoes, IndexesGoes, Moves
<1>3. QED  BY <1>1, <1>2, IdleWorks, ContinuesAside

LEMMA ListsWorks ==
    ASSUME DirectoryInv, NEW i \in Slot, Lists(i), AtWork(call[i])
    PROVE  \E N : Continues(i, N)
<1>1. PICK N \in Call, v \in call[i].todo :
              /\ Goes(i, N) /\ v \in User /\ call[i].pc = "list"
              /\ Core(call[i], N) /\ N.next = call[i].next /\ N.on = call[i].on
              /\ N.pend = call[i].pend /\ N.members = call[i].members /\ N.todo = call[i].todo \ {v}
              /\ N.found = (call[i].found \/ (v = call[i].target /\ v \in Listed))
              /\ N.seen = IF v = call[i].target /\ v \in Listed THEN GroupOf(account[v].groups)
                          ELSE call[i].seen
              /\ \/ N.pc = "list" /\ (v \in Listed => member[v] \in Member)
                 \/ N.pc = "reconcile" /\ v \in Listed /\ N.at = v /\ N.doc = Reconciled(v)
  BY ListsGoes
<1>2. PICK c \in Call : c = call[i]
  BY IsCall
<1>3. Carries(N)
  <2>1. CASE N.pc = "list"
    BY <2>1 DEF Carries
  <2>2. CASE N.pc = "reconcile"
    <3>1. N.doc.teams = TeamsOf(N.at)
      BY <1>1, <2>2, ReconcileMakes
    <3>2. DocTeams(N) = TeamsOf(N.at)
      BY <2>2 DEF DocTeams
    <3>3. QED  BY <2>2, <3>1, <3>2 DEF Carries
  <2>3. QED  BY <1>1, <2>1, <2>2
<1>4. Adds(N)
  <2> SUFFICES ASSUME N.op = "addto"
               PROVE  /\ N.found /\ (N.pc = "reconcile" => N.at # N.target) => member[N.target] # NoMember
                      /\ N.pc \in {"list", "reconcile"} => team[N.team] = N.members
                      /\ ~Settling(N)
    BY DEF Adds
  <2>1. ~Settling(N)
    BY <1>1 DEF Settling
  <2>2. c.op = "addto" /\ N.team = c.team /\ N.target = c.target /\ N.members = c.members /\ c.pc = "list"
    BY <1>1, <1>2 DEF Core
  <2>3. Adds(c)
    BY <1>2 DEF AtWork
  <2>4. team[N.team] = N.members
    BY <2>2, <2>3 DEF Adds
  <2>5. c.found => member[N.target] # NoMember
    BY <2>2, <2>3 DEF Adds
  <2>6. N.found /\ (N.pc = "reconcile" => N.at # N.target) => member[N.target] # NoMember
    <3>1. CASE c.found
      BY <2>5, <3>1
    <3>2. CASE ~c.found
      BY <1>1, <1>2, <2>2, <3>2, MemberFields
    <3>3. QED  BY <3>1, <3>2
  <2>7. QED  BY <2>1, <2>4, <2>6
<1>5. Removes(N) /\ Deletes(N)
  BY <1>1 DEF Removes, Deletes, Settling, Closing
<1>6. AtWork(N) /\ call'[i] = N
  BY <1>1, <1>3, <1>4, <1>5, Moves DEF AtWork
<1>7. QED  BY <1>1, <1>6, ContinuesAside

(* Role changes keep the teams of the membership they write. *)
LEMMA DraftWorks ==
    ASSUME NEW N, N.op = "role", N.pc \in {"addgroup", "dropgroup", "savemember"},
           N.doc.teams = TeamsOf(N.target)
    PROVE  AtWork(N)
<1>1. DocTeams(N) = TeamsOf(N.target)
  BY DEF DocTeams, SubjectOf
<1>2. QED  BY <1>1 DEF AtWork, Carries, Adds, Removes, Deletes, Closing

LEMMA RolesWork ==
    ASSUME DirectoryInv, NEW i \in Slot, AtWork(call[i]), ScansMembers(i) \/ AddsGroup(i) \/ DropsGroup(i)
    PROVE  \E N : Continues(i, N)
<1>1. CASE ScansMembers(i)
  <2>1. call[i].op = "role" /\ call[i].pc = "list"
    BY <1>1, ScansMembersGoes
  <2>2. CASE Goes(i, Idle)
    BY <2>1, <2>2, IdleWorks, ContinuesAside, Moves
  <2>3. CASE ~Goes(i, Idle)
    <3>1. PICK N \in Call :
                    /\ Goes(i, N) /\ Core(call[i], N)
                    /\ N.doc.teams = TeamsOf(call[i].target) /\ N.pc \in {"savemember", "addgroup"}
      BY <1>1, <2>3, ScansMembersGoes
    <3>2. AtWork(N) /\ call'[i] = N
      BY <2>1, <3>1, DraftWorks, Moves DEF Core
    <3>3. QED  BY <2>1, <3>2, ContinuesAside
  <2>4. QED  BY <2>2, <2>3
<1>2. CASE AddsGroup(i) \/ DropsGroup(i)
  <2>1. PICK pc \in {"dropgroup", "savemember"} : Goto(i, pc) /\ call[i].pc \in {"addgroup", "dropgroup"}
    BY <1>2 DEF AddsGroup, DropsGroup, Regroups
  <2>2. call[i].op = "role"
    BY <2>1, RegroupsGoes
  <2>3. PICK N \in Call : Goes(i, N) /\ Turns(i, pc, N)
    BY <2>1, RegroupsGoes
  <2>4. call[i].doc.teams = TeamsOf(call[i].target)
    BY <2>1, <2>2 DEF AtWork, Carries, DocTeams, SubjectOf
  <2>5. AtWork(N) /\ call'[i] = N
    BY <2>1, <2>2, <2>3, <2>4, DraftWorks, Moves DEF Turns, Core
  <2>6. QED  BY <2>1, <2>5, ContinuesAside
<1>3. QED  BY <1>1, <1>2

LEMMA PeopleWork ==
    ASSUME DirectoryInv, Present, NEW i \in Slot,
           \/ SetsEnabled(i) \/ EndsRevoking(i) \/ FindsPending(i) \/ CreatesAccount(i)
           \/ \E n \in Invite : Issues(i, n) \/ Revokes(i, n)
           \/ WritesCounter(i) \/ LooksUp(i)
    PROVE  \E N : Continues(i, N)
<1>1. ASSUME NEW N, Goes(i, N), N.op = call[i].op, call[i].op \notin Sorting,
             N.pc \notin Drafts \cup {"grouping", "join", "saveteam"}
      PROVE  \E M : Continues(i, M)
  <2>1. AtWork(N) /\ call'[i] = N
    BY <1>1, Restful, Moves
  <2>2. QED  BY <1>1, <2>1, ContinuesAside
<1>2. CASE SetsEnabled(i)
  BY <1>1, <1>2, SetsEnabledGoes DEF Turns, Core, Sorting, Drafts
<1>3. CASE EndsRevoking(i)
  BY <1>1, <1>3, EndsRevokingGoes DEF Turns, Core, Sorting, Drafts
<1>4. CASE FindsPending(i)
  BY <1>1, <1>4, FindsPendingGoes DEF Core, Sorting, Drafts
<1>5. ASSUME NEW n \in Invite, Issues(i, n) PROVE \E N : Continues(i, N)
  BY <1>1, <1>5, IssuesGoes DEF Sorting, Drafts
<1>6. ASSUME NEW n \in Invite, Revokes(i, n) PROVE \E N : Continues(i, N)
  <2>1. call[i].op \in {"resend", "revoke"}
    BY <1>6, RevokesGoes, CallFields DEF Belongs
  <2>2. QED  BY <1>1, <1>6, <2>1, RevokesGoes DEF Core, Sorting, Drafts
<1>7. CASE WritesCounter(i)
  <2>1. call[i].op \in {"accept", "inspect"}
    BY <1>7, CountsGoes, CallFields DEF Belongs
  <2>2. QED  BY <1>1, <1>7, <2>1, CountsGoes DEF Core, Sorting, Drafts
<1>8. CASE LooksUp(i)
  <2>1. call[i].op \in {"accept", "inspect"}
    BY <1>8, LooksUpGoes
  <2>2. CASE Goes(i, Idle)
    BY <2>1, <2>2, IdleWorks, ContinuesAside, Moves DEF Sorting
  <2>3. CASE ~Goes(i, Idle)
    <3>1. PICK N \in Call : Goes(i, N) /\ Core(call[i], N) /\ N.pc \in {"expire", "claim"}
      BY <1>8, <2>3, LooksUpGoes
    <3>2. QED  BY <1>1, <2>1, <3>1 DEF Core, Sorting, Drafts
  <2>4. QED  BY <2>2, <2>3
<1>9. CASE CreatesAccount(i)
  <2>1. call[i].op = "invite" /\ call[i].target \in User
    BY <1>9, CreatesAccountGoes
  <2>2. PICK N \in Call : Goes(i, N) /\ Turns(i, "grouping", N)
    BY <1>9, CreatesAccountGoes
  <2>3. account[call[i].target].state = "none"
    BY <1>9 DEF CreatesAccount, NoAccount
  <2>4. member[call[i].target] = NoMember
    BY <2>1, <2>3 DEF Present, Exists
  <2>5. AtWork(N) /\ call'[i] = N
    BY <2>1, <2>2, <2>4, Moves DEF Turns, Core, AtWork, Carries, Adds, Removes, Deletes, Closing
  <2>6. QED  BY <2>1, <2>5, ContinuesAside DEF Sorting
<1>10. QED  BY <1>2, <1>3, <1>4, <1>5, <1>6, <1>7, <1>8, <1>9


LEMMA Groups1stWorks ==
    ASSUME DirectoryInv, NEW i \in Slot, Groups1st(i), AtWork(call[i])
    PROVE  \E N : Continues(i, N)
<1>1. call[i].op = "invite" /\ call[i].pc = "grouping" /\ call[i].target \in User
  BY Groups1stGoes
<1>2. PICK N \in Call :
              /\ Goes(i, N) /\ Core(call[i], N) /\ Mind(call[i], N) /\ Load(call[i], N)
              /\ N.pc = "savemember" /\ N.doc.role = call[i].next /\ N.doc.teams = {}
  BY Groups1stGoes
<1>3. member[call[i].target] = NoMember
  BY <1>1 DEF AtWork, Carries
<1>4. N.op = "invite" /\ N.target = call[i].target
  BY <1>1, <1>2 DEF Core
<1>5. DocTeams(N) = {}
  BY <1>2, <1>3, <1>4 DEF DocTeams, SubjectOf, TeamsOf
<1>6. AtWork(N) /\ call'[i] = N
  BY <1>2, <1>4, <1>5, Moves DEF AtWork, Carries, Adds, Removes, Deletes, Closing
<1>7. QED  BY <1>1, <1>6, ContinuesAside

LEMMA CounterWorks ==
    ASSUME DirectoryInv, NEW i \in Slot, ReadsCounter(i)
    PROVE  \E N : Continues(i, N)
<1>1. call[i].pc = "limit" /\ call[i].op \in {"accept", "inspect"}
  BY ReadsCounterGoes, CallFields DEF Belongs
<1>2. CASE call'[i] = Idle
  BY <1>1, <1>2, IdleWorks, ContinuesAside
<1>3. CASE call'[i] # Idle
  <2>1. PICK N : N = call'[i]
    OBVIOUS
  <2>2. N.pc = "count" /\ N.op = call[i].op
    BY <1>3, <2>1, ReadsCounterGoes DEF Core
  <2>3. AtWork(N)
    BY <1>1, <2>2, Restful DEF Sorting, Drafts
  <2>4. QED  BY <1>1, <2>1, <2>3, ContinuesAside
<1>4. QED  BY <1>2, <1>3

(* Whoever leaves a membership unwritten leaves a settled one. *)
LEMMA ReadsMemberWorks ==
    ASSUME DirectoryInv, NEW i \in Slot, AtWork(call[i]), ReadsMember(i)
    PROVE  \E N : Continues(i, N)
<1>1. PICK c \in Call : c = call[i]
  BY IsCall
<1>2. c.pc = "readmember" /\ c.op \in Changing /\ SubjectOf(c) \in User
  BY <1>1, ReadsMemberGoes, SubjectSame
<1>3. AtWork(c) /\ Settling(c) /\ Carries(c) /\ Adds(c) /\ Removes(c) /\ Deletes(c)
  BY <1>1, <1>2 DEF AtWork, Settling
<1>4. member[SubjectOf(c)] \in Member \cup {NoMember}
  BY <1>2, UserFields
<1>5. ASSUME \/ member[SubjectOf(c)] = NoMember
             \/ c.op = "addto" /\ c.team \in member[SubjectOf(c)].teams,
             c.op # "delete", NEW u \in User, NEW t \in Team, Differs(c, u, t)
      PROVE  Settled(u, t)
  <2>1. c.op \in {"addto", "removefrom"} /\ u = c.target /\ t = c.team /\ SubjectOf(c) = u
    BY <1>5 DEF Differs, Closing, SubjectOf
  <2>2. CASE c.op = "addto"
    <3>1. member[u] # NoMember /\ u \in MembersOf(t)
      BY <1>3, <2>1, <2>2 DEF Adds
    <3>2. t \in TeamsOf(u)
      BY <1>5, <2>1, <3>1 DEF TeamsOf
    <3>3. QED  BY <3>1, <3>2 DEF Settled, Agree
  <2>3. CASE c.op = "removefrom"
    <3>1. u \notin MembersOf(t) /\ t \notin TeamsOf(u)
      BY <1>3, <1>5, <2>1, <2>3 DEF Removes, TeamsOf
    <3>2. QED  BY <3>1 DEF Settled, Agree
  <2>4. QED  BY <2>1, <2>2, <2>3
<1>6. ASSUME member[SubjectOf(c)] = NoMember, NEW N \in Call,
             Goes(i, N), Core(c, N), Load(c, N), N.op = "delete", N.pc = "dropteam"
      PROVE  Continues(i, N)
  <2>1. /\ N.team = c.team /\ N.todo = c.todo /\ c.op = "delete" /\ SubjectOf(c) = c.at
        /\ ~Settling(N) /\ Closing(N) /\ Closing(c)
    BY <1>3, <1>6 DEF Core, Load, SubjectOf, Settling, Closing
  <2>2. TeamsOf(c.at) = {}
    BY <1>6, <2>1 DEF TeamsOf
  <2>3. Deletes(N)
    BY <1>3, <2>1, <2>2 DEF Deletes
  <2>4. AtWork(N) /\ call'[i] = N
    BY <1>6, <2>1, <2>3, Moves DEF AtWork, Carries, Adds, Removes
  <2>5. \A u \in User, t \in Team : Differs(c, u, t) => Differs(N, u, t)
    BY <2>1 DEF Differs
  <2>6. QED  BY <1>1, <2>4, <2>5 DEF Continues
<1>7. ASSUME member[SubjectOf(c)] \in Member, NEW N \in Call, Goes(i, N), Core(c, N), Mind(c, N), Load(c, N),
             N.pc = "savemember", N.doc = Changed(i, member[SubjectOf(c)])
      PROVE  Continues(i, N)
  <2>1. /\ N.op = c.op /\ N.team = c.team /\ N.todo = c.todo /\ N.target = c.target /\ N.at = c.at
        /\ N.found = c.found /\ SubjectOf(N) = SubjectOf(c) /\ Settling(N)
    BY <1>7 DEF Core, Mind, Load, SubjectOf, Settling
  <2>2. TeamsOf(SubjectOf(c)) = member[SubjectOf(c)].teams
    BY <1>7, MemberFields DEF TeamsOf
  <2>3. N.doc.teams = CASE c.op = "addto" -> TeamsOf(SubjectOf(c)) \cup {c.team}
                        [] c.op \in {"removefrom", "delete"} -> TeamsOf(SubjectOf(c)) \ {c.team}
                        [] OTHER -> TeamsOf(SubjectOf(c))
    <3>1. PICK m \in Member : m = member[SubjectOf(c)]
      BY <1>7
    <3>2. Changed(i, m).teams = CASE c.op = "addto" -> m.teams \cup {c.team}
                                  [] c.op \in {"removefrom", "delete"} -> m.teams \ {c.team}
                                  [] OTHER -> m.teams
      BY <1>1, ChangedMakes
    <3>3. N.doc = Changed(i, m) /\ m.teams = TeamsOf(SubjectOf(c))
      BY <1>7, <2>2, <3>1
    <3>4. QED  BY <3>2, <3>3
  <2>4. N.doc.teams = DocTeams(N)
    BY <1>7, <2>1, <2>3 DEF DocTeams
  <2>5. Carries(N)
    BY <1>7, <2>4 DEF Carries
  <2>6. Adds(N) /\ Removes(N)
    BY <1>2, <1>3, <1>7, <2>1 DEF Adds, Removes
  <2>7. Deletes(N)
    BY <1>3, <2>1 DEF Deletes, Closing
  <2>8. \A u \in User, t \in Team : Differs(c, u, t) => Differs(N, u, t)
    BY <1>3, <2>1 DEF Differs, Closing
  <2>9. AtWork(N) /\ call'[i] = N
    BY <1>7, <2>5, <2>6, <2>7, Moves DEF AtWork
  <2>10. QED  BY <1>1, <2>8, <2>9 DEF Continues
<1>8. CASE member[SubjectOf(c)] \in Member /\ \E N \in Call :
                /\ Goes(i, N) /\ Core(c, N) /\ Mind(c, N) /\ Load(c, N)
                /\ N.pc = "savemember" /\ N.doc = Changed(i, member[SubjectOf(c)])
  BY <1>7, <1>8
<1>9. CASE ~(member[SubjectOf(c)] \in Member /\ \E N \in Call :
                /\ Goes(i, N) /\ Core(c, N) /\ Mind(c, N) /\ Load(c, N)
                /\ N.pc = "savemember" /\ N.doc = Changed(i, member[SubjectOf(c)]))
  <2>1. /\ \/ member[SubjectOf(c)] = NoMember
           \/ c.op = "addto" /\ c.team \in member[SubjectOf(c)].teams
        /\ \/ Goes(i, Idle) /\ c.op # "delete"
           \/ \E N \in Call :
                 /\ Goes(i, N) /\ Core(c, N) /\ Mind(c, N) /\ Load(c, N)
                 /\ N.op = "delete" /\ N.pc = "dropteam"
    BY <1>1, <1>9, ReadsMemberGoes, SubjectSame
  <2>2. CASE Goes(i, Idle) /\ c.op # "delete"
    <3>1. call'[i] = Idle
      BY <2>2, Moves
    <3>2. QED  BY <1>1, <1>5, <2>1, <2>2, <3>1, IdleWorks DEF Continues
  <2>3. CASE ~(Goes(i, Idle) /\ c.op # "delete")
    <3>1. PICK N \in Call :
                 /\ Goes(i, N) /\ Core(c, N) /\ Mind(c, N) /\ Load(c, N)
                 /\ N.op = "delete" /\ N.pc = "dropteam"
      BY <2>1, <2>3
    <3>2. c.op = "delete"
      BY <3>1 DEF Core
    <3>3. QED  BY <1>6, <2>1, <3>1, <3>2
  <2>4. QED  BY <2>2, <2>3
<1>10. QED  BY <1>8, <1>9

LEMMA TeamsWork ==
    ASSUME DirectoryInv, NEW i \in Slot, AtWork(call[i]), ReadsTeam(i) \/ DropsMember(i)
    PROVE  \E N : Continues(i, N)
<1>1. PICK c \in Call : c = call[i] /\ AtWork(c)
  BY IsCall
<1>2. CASE ReadsTeam(i)
  <2>1. c.op \in {"addto", "removefrom", "rename", "delete"} /\ c.pc = "begin" /\ c.team \in Team
    BY <1>1, <1>2, ReadsTeamGoes
  <2>2. CASE Goes(i, Idle)
    BY <1>1, <2>1, <2>2, IdleWorks, ContinuesAside, Moves
  <2>3. CASE ~Goes(i, Idle)
    <3>1. PICK N \in Call :
                 /\ Goes(i, N) /\ Core(c, N) /\ Mind(c, N)
                 /\ N.members = team[c.team] /\ (N.op # "addto" => N.todo = team[c.team])
                 /\ N.pc = CASE c.op = "addto" -> "list"
                             [] c.op = "delete" -> "dropteam"
                             [] OTHER -> "saveteam"
      BY <1>1, <1>2, <2>3, ReadsTeamGoes
    <3>2. /\ N.op = c.op /\ N.team = c.team /\ N.target = c.target /\ N.found = c.found
          /\ N.pc \in {"list", "dropteam", "saveteam"}
      BY <2>1, <3>1 DEF Core, Mind
    <3>3. ~Settling(N) /\ Carries(N) /\ Removes(N)
      BY <3>1, <3>2 DEF Settling, Carries, Removes
    <3>4. Adds(N)
      BY <1>1, <2>1, <3>1, <3>2, <3>3 DEF AtWork, Adds
    <3>5. Deletes(N)
      BY <3>1, <3>2, <3>3 DEF Deletes, Closing, MembersOf
    <3>6. AtWork(N) /\ call'[i] = N
      BY <3>1, <3>3, <3>4, <3>5, Moves DEF AtWork
    <3>7. QED  BY <1>1, <2>1, <3>6, ContinuesAside
  <2>4. QED  BY <2>2, <2>3
<1>3. CASE DropsMember(i)
  <2>1. c.op = "delete" /\ c.pc = "dropteam" /\ c.team \in Team
    BY <1>1, <1>3, DropsMemberGoes
  <2>2. PICK N \in Call, v \in c.todo :
                 /\ Goes(i, N) /\ Core(c, N) /\ N.pc = "readmember"
                 /\ N.at = v /\ N.todo = c.todo \ {v}
    BY <1>1, <1>3, DropsMemberGoes
  <2>3. N.op = "delete" /\ N.team = c.team /\ Settling(N) /\ Closing(N) /\ ~Settling(c) /\ Closing(c)
    BY <2>1, <2>2 DEF Core, Settling, Closing
  <2>4. Deletes(N)
    BY <1>1, <2>2, <2>3 DEF AtWork, Deletes
  <2>5. AtWork(N) /\ call'[i] = N
    BY <2>2, <2>3, <2>4, Moves DEF AtWork, Carries, Adds, Removes
  <2>6. \A u \in User, t \in Team : Differs(c, u, t) => Differs(N, u, t)
    BY <2>1, <2>2, <2>3 DEF Differs
  <2>7. QED  BY <1>1, <2>5, <2>6 DEF Continues
<1>4. QED  BY <1>2, <1>3

(* All that leaves both records as they are. *)
LEMMA StepContinues ==
    ASSUME DirectoryInv, Present, Teaming, Solo, NEW i \in Slot, i \in Busy, Working(i),
           ~Recording(i), ~TeamWriting(i), ~Claims(i)
    PROVE  \E N : Continues(i, N)
<1>1. AtWork(call[i])
  BY DEF Teaming
<1>2. CASE EndsListing(i) \/ ClaimRefused(i) \/ Expires(i) \/ RollsBack(i) \/ Indexes(i)
  BY <1>2, EndsAside
<1>3. CASE SkipsMember(i)
  <2>1. call[i].op = "me"
    BY <1>3 DEF Solo, SkipsMember
  <2>2. Goes(i, Idle)
    BY <1>3, <2>1, SavesMemberGoes DEF Core
  <2>3. QED  BY <2>1, <2>2, IdleWorks, ContinuesAside, Moves DEF Sorting
<1>4. CASE Lists(i) \/ ScansMembers(i) \/ AddsGroup(i) \/ DropsGroup(i) \/ ReadsMember(i)
           \/ ReadsTeam(i) \/ DropsMember(i)
  BY <1>1, <1>4, ListsWorks, RolesWork, ReadsMemberWorks, TeamsWork
<1>5. CASE \/ SetsEnabled(i) \/ EndsRevoking(i) \/ FindsPending(i) \/ CreatesAccount(i)
           \/ \E n \in Invite : Issues(i, n) \/ Revokes(i, n)
           \/ WritesCounter(i) \/ LooksUp(i)
  BY <1>5, PeopleWork
<1>6. CASE Groups1st(i) \/ ReadsCounter(i)
  BY <1>1, <1>6, Groups1stWorks, CounterWorks
<1>7. ~DropFails(i) /\ ~CounterFails(i) /\ ~Dies(i)
  BY DEF Solo, DropFails, CounterFails, Dies
<1>8. QED
  BY <1>2, <1>3, <1>4, <1>5, <1>6, <1>7
     DEF Working, Quiet, Recording, Regrouping, Entering, Inviting, TeamWriting, Counts

(* What a written membership changes: that person's teams. *)
LEMMA Written ==
    ASSUME DirectoryInv, NEW u \in User, NEW d \in Member, NEW op, Writes(u, d, op)
    PROVE  /\ TeamsOf(u)' = d.teams
           /\ \A v \in User \ {u} : TeamsOf(v)' = TeamsOf(v)
           /\ \A v \in User : member[v] # NoMember => member'[v] # NoMember
           /\ member'[u] # NoMember
<1>1. member'[u] = d /\ \A v \in User \ {u} : member'[v] = member[v]
  BY DEF Writes, DirectoryInv, DirectoryTypeOK
<1>2. QED  BY <1>1, MemberFields DEF TeamsOf

(* A membership written with the teams it had disturbs nothing. *)
LEMMA WrittenAlike ==
    ASSUME DirectoryInv, Teaming, Solo, NEW i \in Slot, i \in Busy, Others(i), team' = team,
           \A u : Joined(u) => Joined(u)',
           NEW v \in User, NEW d \in Member, NEW op, Writes(v, d, op), d.teams = TeamsOf(v),
           NEW N, call'[i] = N, AtWork(N)',
           call[i].op \notin Sorting \/ call[i].pc \notin {"readmember", "savemember", "dropteam"}
    PROVE  Teaming'
<1>1. \A u \in User : TeamsOf(u)' = TeamsOf(u)
  BY Written
<1>2. \A u \in User, t \in Team : Settled(u, t) => Settled(u, t)'
  BY <1>1 DEF Settled, Agree, MembersOf
<1>3. \A u \in User, t \in Team : Settled(u, t)
  BY WorksAlone, Undiffering
<1>4. QED  BY <1>2, <1>3, TeamingKept

LEMMA BackfillsTeams ==
    ASSUME DirectoryInv, Teaming, Solo, NEW i \in Slot, i \in Busy, Others(i), team' = team,
           \A u : Joined(u) => Joined(u)', Backfills(i)
    PROVE  Teaming'
<1>1. /\ call[i].actor \in User /\ call[i].doc \in Member /\ call[i].pc = "backfill"
      /\ Writes(call[i].actor, call[i].doc, "me")
  BY BackfillsGoes
<1>2. PICK N \in Call : /\ Goes(i, N) /\ N.pc = First(call[i].op)
                        /\ Core(call[i], N) /\ Mind(call[i], N) /\ Load(call[i], N)
  BY BackfillsGoes
<1>3. PICK c \in Call : c = call[i] /\ AtWork(c) /\ Shape(c)
  BY IsCall, CallFields DEF Teaming
<1>4. /\ N.pc \in {"readmember", "limit", "begin", "list"}
      /\ N.pc = "readmember" => N.op = "me"
      /\ N.op = "addto" => N.pc = "begin"
      /\ N.op = c.op /\ N.target = c.target /\ N.found = c.found
  BY <1>2, <1>3 DEF First, Core, Mind
<1>5. c.doc.teams = TeamsOf(c.actor)
  BY <1>1, <1>3 DEF AtWork, Carries, DocTeams
<1>6. N.op = "addto" /\ N.found => c.target \in User /\ member[c.target] # NoMember
  BY <1>1, <1>3, <1>4 DEF AtWork, Adds, Shape, Has, Targeted
<1>7. N.op = "addto" /\ N.found => member'[N.target] # NoMember
  BY <1>1, <1>4, <1>6, Written
<1>8. AtWork(N)'
  BY <1>4, <1>7 DEF AtWork, Carries, Adds, Removes, Deletes, Settling, Closing
<1>9. call'[i] = N
  BY <1>2, Moves
<1>10. QED  BY <1>1, <1>3, <1>5, <1>8, <1>9, WrittenAlike

LEMMA ReconcilesTeams ==
    ASSUME DirectoryInv, Teaming, Solo, NEW i \in Slot, i \in Busy, Others(i), team' = team,
           \A u : Joined(u) => Joined(u)', Reconciles(i)
    PROVE  Teaming'
<1>1. /\ call[i].at \in User /\ call[i].doc \in Member /\ call[i].pc = "reconcile"
      /\ Writes(call[i].at, call[i].doc, "list")
  BY ReconcilesGoes
<1>2. PICK N \in Call : /\ Goes(i, N) /\ N.pc = "list" /\ Core(call[i], N) /\ Mind(call[i], N)
                        /\ N.pend = call[i].pend /\ N.members = call[i].members
                        /\ N.todo = call[i].todo
  BY ReconcilesGoes
<1>3. PICK c \in Call : c = call[i] /\ AtWork(c) /\ Shape(c)
  BY IsCall, CallFields DEF Teaming
<1>4. /\ N.op = c.op /\ N.target = c.target /\ N.found = c.found /\ N.team = c.team
      /\ N.members = c.members
  BY <1>2, <1>3 DEF Core, Mind
<1>5. c.doc.teams = TeamsOf(c.at)
  BY <1>1, <1>3 DEF AtWork, Carries, DocTeams
<1>6. Adds(N)'
  <2> SUFFICES ASSUME N.op = "addto"
               PROVE  (N.found => member'[N.target] # NoMember) /\ team'[N.team] = N.members
    BY <1>2 DEF Adds, Settling
  <2>1. c.target \in User /\ team[N.team] = N.members
    BY <1>1, <1>3, <1>4 DEF AtWork, Adds, Shape, Has, Targeted
  <2>2. CASE c.at = c.target
    BY <1>1, <1>3, <1>4, <2>1, <2>2, Written
  <2>3. CASE c.at # c.target
    <3>1. N.found => member[c.target] # NoMember
      BY <1>3, <1>4, <2>3 DEF AtWork, Adds
    <3>2. QED  BY <1>1, <1>4, <2>1, <3>1, Written
  <2>4. QED  BY <2>2, <2>3
<1>7. AtWork(N)'
  BY <1>2, <1>6 DEF AtWork, Carries, Removes, Deletes, Settling, Closing
<1>8. call'[i] = N
  BY <1>2, Moves
<1>9. QED  BY <1>1, <1>3, <1>5, <1>7, <1>8, WrittenAlike

LEMMA JoinsTeams ==
    ASSUME DirectoryInv, Teaming, Solo, NEW i \in Slot, i \in Busy, Others(i), team' = team,
           \A u : Joined(u) => Joined(u)', Joins(i)
    PROVE  Teaming'
<1>1. PICK v \in User : v = call[i].actor
  BY JoinsIs
<1>2. PICK d \in Member : Writes(v, d, "accept")
  BY <1>1, JoinsIs
<1>3. call[i].pc = "join" /\ call'[i] = Idle
  BY ReturnsGo, Moves DEF Joins
<1>4. Joined(v)'
  BY <1>1, <1>3 DEF Teaming, AtWork, Carries
<1>5. \A u \in User, t \in Team : Settled(u, t)
  BY <1>3, WorksAlone, Undiffering
<1>6. ASSUME NEW u \in User, NEW t \in Team PROVE Settled(u, t)'
  <2>1. CASE u = v
    BY <1>4, <2>1 DEF Settled
  <2>2. CASE u # v
    BY <1>2, <1>5, <2>2, Written DEF Settled, Agree, MembersOf
  <2>3. QED  BY <2>1, <2>2
<1>7. QED  BY <1>3, <1>6, IdleWorks, TeamingKept

(* The membership of a team request brings the two records together. *)
LEMMA SavesMemberTeams ==
    ASSUME DirectoryInv, Teaming, Solo, NEW i \in Slot, i \in Busy, Others(i), team' = team,
           \A u : Joined(u) => Joined(u)', SavesMember(i)
    PROVE  Teaming'
<1>1. PICK c \in Call : c = call[i] /\ AtWork(c) /\ Shape(c)
  BY IsCall, CallFields DEF Teaming
<1>2. PICK v \in User : v = SubjectOf(c)
  BY <1>1, SavesMemberGoes, SubjectSame
<1>3. /\ c.pc = "savemember" /\ c.doc \in Member /\ Writes(v, c.doc, c.op)
      /\ c.op \in Changing \cup {"role", "invite"}
  BY <1>1, <1>2, SavesMemberGoes, SubjectSame DEF SavesMember
<1>4. /\ Settling(c) /\ c.doc.teams = DocTeams(c) /\ Adds(c) /\ Removes(c) /\ Deletes(c)
      /\ c.op \in {"addto", "removefrom", "delete"} => c.team \in Team
  BY <1>1, <1>3 DEF Settling, AtWork, Carries, Shape, Has, Teamed
<1>5. \A u \in User, t \in Team : Settled(u, t) \/ Differs(c, u, t)
  BY <1>1, WorksAlone
<1>6. /\ TeamsOf(v)' = c.doc.teams /\ \A u \in User \ {v} : TeamsOf(u)' = TeamsOf(u)
      /\ \A t : MembersOf(t)' = MembersOf(t)
  BY <1>3, Written DEF MembersOf
<1>7. CASE c.op \notin Sorting
  <2>1. c.doc.teams = TeamsOf(v)
    BY <1>2, <1>3, <1>4, <1>7 DEF DocTeams, Sorting
  <2>2. PICK N : Goes(i, N) /\ (N = Idle \/ (N.op = "invite" /\ N.pc = "issue"))
    BY <1>1, <1>7, SavesMemberGoes DEF Sorting, Core
  <2>3. AtWork(N)' /\ call'[i] = N
    BY <2>2, IdleWorks, Restful, Moves DEF Sorting, Drafts
  <2>4. QED  BY <1>1, <1>3, <1>7, <2>1, <2>3, WrittenAlike
<1>8. CASE c.op \in {"addto", "removefrom"}
  <2>1. Goes(i, Idle) /\ c.target = v
    BY <1>1, <1>2, <1>8, SavesMemberGoes DEF Core, SubjectOf
  <2>2. c.doc.teams = IF c.op = "addto" THEN TeamsOf(v) \cup {c.team} ELSE TeamsOf(v) \ {c.team}
    BY <1>2, <1>3, <1>4, <1>8 DEF DocTeams
  <2>3. v \in MembersOf(c.team) <=> c.op = "addto"
    BY <1>4, <1>8, <2>1 DEF Adds, Removes
  <2>4. ASSUME NEW u \in User, NEW t \in Team PROVE Settled(u, t)'
    <3>1. CASE u = v /\ t = c.team
      BY <1>6, <1>8, <2>2, <2>3, <3>1 DEF Settled, Agree
    <3>2. CASE ~(u = v /\ t = c.team)
      <4>1. Settled(u, t)
        BY <1>5, <1>8, <2>1, <3>2 DEF Differs, Closing
      <4>2. t \in TeamsOf(u)' <=> t \in TeamsOf(u)
        BY <1>6, <2>2, <3>2
      <4>3. QED  BY <1>6, <4>1, <4>2 DEF Settled, Agree
    <3>3. QED  BY <3>1, <3>2
  <2>5. call'[i] = Idle
    BY <2>1, Moves
  <2>6. QED  BY <2>4, <2>5, IdleWorks, TeamingKept
<1>9. CASE c.op = "delete"
  <2>1. PICK N \in Call : Goes(i, N) /\ Core(c, N) /\ Load(c, N) /\ N.op = "delete" /\ N.pc = "dropteam"
    BY <1>1, <1>9, SavesMemberGoes DEF Core
  <2>2. /\ N.team = c.team /\ N.todo = c.todo /\ c.at = v /\ Closing(c) /\ Closing(N) /\ ~Settling(N)
    BY <1>2, <1>4, <1>9, <2>1 DEF Core, Load, SubjectOf, Closing, Settling
  <2>3. c.doc.teams = TeamsOf(v) \ {c.team}
    BY <1>2, <1>3, <1>4, <1>9 DEF DocTeams
  <2>4. Deletes(N)'
    <3> SUFFICES ASSUME NEW u \in MembersOf(c.team) \ c.todo
                 PROVE  Joined(u)' \/ c.team \notin TeamsOf(u)'
      BY <1>6, <2>2 DEF Deletes, Closing, Settling
    <3>1. u \in User
      BY <1>4, <1>9, TeamFields DEF MembersOf
    <3>2. CASE u = v
      BY <1>6, <2>3, <3>2
    <3>3. CASE u # v
      <4>1. Joined(u) \/ c.team \notin TeamsOf(u)
        BY <1>4, <2>2, <3>3 DEF Deletes
      <4>2. QED  BY <1>6, <3>1, <3>3, <4>1
    <3>4. QED  BY <3>2, <3>3
  <2>5. AtWork(N)' /\ call'[i] = N
    BY <2>1, <2>4, Moves DEF AtWork, Carries, Adds, Removes
  <2>6. ASSUME NEW u \in User, NEW t \in Team PROVE Settled(u, t)' \/ Differs(N, u, t)'
    <3>1. CASE Differs(c, u, t)
      BY <1>6, <1>9, <2>2, <3>1 DEF Differs, Closing, Settling
    <3>2. CASE ~Differs(c, u, t) /\ u = v /\ t = c.team
      <4>1. u \notin MembersOf(t)
        BY <1>4, <2>2, <3>2 DEF Differs, Deletes
      <4>2. QED  BY <1>6, <2>3, <3>2, <4>1 DEF Settled, Agree
    <3>3. CASE ~Differs(c, u, t) /\ ~(u = v /\ t = c.team)
      <4>1. Settled(u, t)
        BY <1>5, <3>3
      <4>2. t \in TeamsOf(u)' <=> t \in TeamsOf(u)
        BY <1>6, <2>3, <3>3
      <4>3. QED  BY <1>6, <4>1, <4>2 DEF Settled, Agree
    <3>4. QED  BY <3>1, <3>2, <3>3
  <2>7. QED  BY <2>5, <2>6, TeamingKept
<1>10. QED  BY <1>7, <1>8, <1>9 DEF Sorting

(* What a written team changes: who is in that team. *)
LEMMA TeamWritten ==
    ASSUME DirectoryInv, NEW t \in Team, NEW T \in SUBSET User, team' = [team EXCEPT ![t] = T]
    PROVE  MembersOf(t)' = T /\ \A s \in Team \ {t} : MembersOf(s)' = MembersOf(s)
<1>1. team'[t] = T /\ \A s \in Team \ {t} : team'[s] = team[s]
  BY DEF DirectoryInv, DirectoryTypeOK
<1>2. QED  BY <1>1, NoTeamAssumption DEF MembersOf

LEMMA CreatesTeamTeams ==
    ASSUME DirectoryInv, Teaming, Solo, NEW i \in Slot, i \in Busy, Others(i), member' = member,
           \A u : Joined(u) => Joined(u)', CreatesTeam(i)
    PROVE  Teaming'
<1>1. PICK t \in Team : t = call[i].team
  BY TeamTyped
<1>2. call[i].op = "newteam" /\ team[t] = NoTeam /\ team' = [team EXCEPT ![t] = {}]
  BY <1>1 DEF CreatesTeam, At
<1>3. \A s \in Team : MembersOf(s)' = MembersOf(s)
  BY <1>2, TeamWritten DEF MembersOf
<1>4. \A u \in User, s \in Team : Settled(u, s)
  BY <1>2, WorksAlone, Undiffering DEF Sorting
<1>5. \A u \in User, s \in Team : Settled(u, s)'
  BY <1>3, <1>4 DEF Settled, Agree, TeamsOf
<1>6. call'[i] = Idle
  BY ReturnsGo, Moves
<1>7. QED  BY <1>5, <1>6, IdleWorks, TeamingKept

LEMMA DropsTeamTeams ==
    ASSUME DirectoryInv, Teaming, Solo, NEW i \in Slot, i \in Busy, Others(i), member' = member,
           \A u : Joined(u) => Joined(u)', DropsTeam(i)
    PROVE  Teaming'
<1>1. PICK c \in Call : c = call[i] /\ AtWork(c) /\ Shape(c)
  BY IsCall, CallFields DEF Teaming
<1>2. c.pc = "dropteam" /\ c.todo = {} /\ c.op = "delete" /\ c.team \in Team
  BY <1>1, TeamTyped DEF DropsTeam, Shape, Belongs
<1>3. Closing(c) /\ ~Settling(c) /\ Deletes(c)
  BY <1>1, <1>2 DEF Closing, Settling, AtWork
<1>4. team'[c.team] = NoTeam /\ \A s \in Team \ {c.team} : team'[s] = team[s]
  BY <1>1, <1>2 DEF DropsTeam, DirectoryInv, DirectoryTypeOK
<1>5. ASSUME NEW u \in User, NEW t \in Team PROVE Settled(u, t)'
  <2>1. Settled(u, t) \/ Differs(c, u, t)
    BY <1>1, WorksAlone
  <2>2. CASE t # c.team
    <3>1. Settled(u, t)
      BY <2>1, <2>2 DEF Differs
    <3>2. QED  BY <1>4, <2>2, <3>1 DEF Settled, Agree, TeamsOf, MembersOf
  <2>3. CASE t = c.team
    <3>1. Joined(u) \/ t \notin TeamsOf(u)
      <4>1. CASE u \in MembersOf(t)
        BY <1>2, <1>3, <2>3, <4>1 DEF Deletes
      <4>2. CASE u \notin MembersOf(t)
        BY <1>2, <2>1, <4>2 DEF Differs, Settled, Agree
      <4>3. QED  BY <4>1, <4>2
    <3>2. u \notin MembersOf(t)'
      BY <1>4, <2>3 DEF MembersOf
    <3>3. QED  BY <3>1, <3>2 DEF Settled, Agree, TeamsOf
  <2>4. QED  BY <2>2, <2>3
<1>6. call'[i] = Idle
  BY ReturnsGo, Moves
<1>7. QED  BY <1>5, <1>6, IdleWorks, TeamingKept

LEMMA SavesTeamTeams ==
    ASSUME DirectoryInv, Teaming, Solo, NEW i \in Slot, i \in Busy, Others(i), member' = member,
           \A u : Joined(u) => Joined(u)', SavesTeam(i)
    PROVE  Teaming'
<1>1. PICK c \in Call : c = call[i] /\ AtWork(c) /\ Shape(c)
  BY IsCall, CallFields DEF Teaming
<1>2. /\ c.op \in {"addto", "removefrom", "rename"} /\ c.team \in Team /\ c.pc \in {"saveteam", "list"}
      /\ c.op = "addto" => c.found /\ c.pc = "list"
      /\ c.op # "addto" => c.pc = "saveteam"
  BY <1>1, SavesTeamGoes DEF SavesTeam, HasListed, Shape, Belongs
<1>3. PICK T \in SUBSET User : T = NewMembers(i)
  BY SavesTeamGoes
<1>4. team[c.team] = c.members /\ c.members \in SUBSET User
  BY <1>1, <1>2, CallFields DEF AtWork, Adds, Removes
<1>5. MembersOf(c.team) = c.members
  BY <1>4, NoTeamAssumption DEF MembersOf
<1>6. T = CASE c.op = "addto" -> c.members \cup {c.target}
            [] c.op = "removefrom" -> c.members \ {c.target}
            [] OTHER -> c.members
  BY <1>1, <1>3 DEF NewMembers
<1>7. MembersOf(c.team)' = T /\ \A s \in Team \ {c.team} : MembersOf(s)' = MembersOf(s)
  BY <1>1, <1>2, <1>3, TeamWritten DEF SavesTeam
<1>8. \A u \in User, t \in Team : Settled(u, t)
  BY <1>1, <1>2, WorksAlone, Undiffering
<1>9. CASE c.op = "rename"
  <2>1. call'[i] = Idle
    BY <1>1, <1>9, SavesTeamGoes, Moves
  <2>2. \A t \in Team : MembersOf(t)' = MembersOf(t)
    BY <1>5, <1>6, <1>7, <1>9
  <2>3. \A u \in User, t \in Team : Settled(u, t)'
    BY <1>8, <2>2 DEF Settled, Agree, TeamsOf
  <2>4. QED  BY <2>1, <2>3, IdleWorks, TeamingKept
<1>10. CASE c.op \in {"addto", "removefrom"}
  <2>1. PICK N \in Call : Goes(i, N) /\ Turns(i, "readmember", N)
    BY <1>1, <1>10, SavesTeamGoes
  <2>2. /\ N.op = c.op /\ N.team = c.team /\ N.target = c.target /\ N.pc = "readmember" /\ Settling(N)
    BY <1>1, <2>1 DEF Turns, Core, Settling
  <2>3. c.target \in User
    BY <1>1, <1>10 DEF Shape, Has, Targeted
  <2>4. Adds(N)'
    <3> SUFFICES ASSUME N.op = "addto"
                 PROVE  N.target \in MembersOf(N.team)' /\ member'[N.target] # NoMember
      BY <2>2 DEF Adds
    <3>1. member[c.target] # NoMember
      BY <1>1, <1>2, <2>2 DEF AtWork, Adds
    <3>2. QED  BY <1>6, <1>7, <2>2, <3>1
  <2>5. Removes(N)'
    BY <1>6, <1>7, <2>2 DEF Removes
  <2>6. AtWork(N)' /\ call'[i] = N
    BY <1>10, <2>1, <2>2, <2>4, <2>5, Moves DEF AtWork, Carries, Deletes, Closing
  <2>7. ASSUME NEW u \in User, NEW t \in Team PROVE Settled(u, t)' \/ Differs(N, u, t)'
    <3>1. CASE u = c.target /\ t = c.team
      BY <1>10, <2>2, <3>1 DEF Differs, Settling
    <3>2. CASE ~(u = c.target /\ t = c.team)
      <4>1. u \in MembersOf(t)' <=> u \in MembersOf(t)
        BY <1>5, <1>6, <1>7, <1>10, <3>2
      <4>2. QED  BY <1>8, <4>1 DEF Settled, Agree, TeamsOf
    <3>3. QED  BY <3>1, <3>2
  <2>8. QED  BY <2>6, <2>7, TeamingKept
<1>11. QED  BY <1>2, <1>9, <1>10

(* Whoever accepts has joined before the membership is written. *)
LEMMA ClaimsTeams ==
    ASSUME DirectoryInv, Present, Teaming, Solo, NEW i \in Slot, i \in Busy, Others(i),
           UNCHANGED <<member, team>>, \A u : Joined(u) => Joined(u)', Claims(i)
    PROVE  Teaming'
<1>1. call[i].op = "accept" /\ call[i].pc = "claim" /\ call[i].actor \in User
  BY ClaimsGoes
<1>2. PICK n \in Invite : n = call[i].invite
  BY ClaimsGoes
<1>3. PICK N \in Call : Goes(i, N) /\ Turns(i, "join", N)
  BY ClaimsGoes
<1>4. invitation[n].email = call[i].actor
  BY <1>1, <1>2 DEF Present, Known
<1>5. /\ invitation' = [invitation EXCEPT ![n].state = "accepted"]
      /\ joins' = [joins EXCEPT ![n] = @ + 1]
  BY <1>2 DEF Claims
<1>6. invitation'[n].email = call[i].actor
  BY <1>4, <1>5, RestatedTyped
<1>7. joins[n] \in Nat /\ joins'[n] = joins[n] + 1
  BY <1>5 DEF DirectoryInv, DirectoryTypeOK
<1>8. joins'[n] > 0
  BY <1>7
<1>9. PICK u : u = call[i].actor
  OBVIOUS
<1>10. Joined(u)'
  BY <1>6, <1>8, <1>9 DEF Joined
<1>11. N.op = "accept" /\ N.pc = "join" /\ N.actor = u
  BY <1>1, <1>3, <1>9 DEF Turns, Core
<1>12. AtWork(N)' /\ call'[i] = N
  BY <1>3, <1>10, <1>11, Moves DEF AtWork, Carries, Adds, Removes, Deletes, Closing
<1>13. \A v \in User, t \in Team : Settled(v, t)
  BY <1>1, WorksAlone, Undiffering
<1>14. \A v \in User, t \in Team : Settled(v, t)'
  BY <1>13 DEF Settled, Agree, TeamsOf, MembersOf
<1>15. QED  BY <1>12, <1>14, TeamingKept

(* A request comes when nobody is at work. *)
LEMMA NobodyAtWork ==
    ASSUME Teaming, Solo, NEW i \in Slot, Free(i)
    PROVE  Busy = {}
<1>1. CASE Busy # {}
  <2>1. PICK j \in Busy : Busy = {j}
    BY <1>1 DEF Teaming
  <2>2. Cardinality(Busy) = 1
    BY <2>1, FS_Singleton
  <2>3. QED  BY <2>2 DEF Free, Solo
<1>2. QED  BY <1>1

LEMMA AskingTeams ==
    ASSUME DirectoryInv, Teaming, Solo, NEW i \in Slot, Asking(i), Others(i),
           UNCHANGED <<member, team>>, \A u : Joined(u) => Joined(u)'
    PROVE  Teaming'
<1>1. ASSUME NEW u \in User \cup {NoUser}, Request(i, u) PROVE Teaming'
  <2>1. PICK op \in Ops \ {"inspect"}, c, N \in Call :
              /\ Asks(i, u, op, c) /\ Goes(i, N) /\ N.op = op /\ N.actor = u
              /\ N.found = FALSE /\ N.pend = {} /\ N.pc \in {"readmember", "limit"} \cup Before
              /\ N.pc # "reconcile" /\ (N.pc = "backfill" \/ N.pc = First(op))
              /\ (op # "role" => N.next # "ORG_OWNER")
              /\ (N.pc = "backfill" => u \in User /\ N.doc = Backfilled(member[u], session[u])
                                          /\ session[u] \in Invitable)
    BY <1>1, RequestGoes
  <2>2. Free(i)
    BY <2>1 DEF Asks
  <2>3. Busy = {} /\ call[i].op = "none"
    BY <2>2, NobodyAtWork, FreeIsIdle, CallFields DEF Belongs
  <2>4. N.pc = "backfill" => N.doc.teams = TeamsOf(N.actor)
    <3> SUFFICES ASSUME N.pc = "backfill" PROVE N.doc.teams = TeamsOf(N.actor)
      OBVIOUS
    <3>1. u \in User /\ member[u] \in Member \cup {NoMember}
      BY <2>1, UserFields
    <3>2. PICK m \in Member \cup {NoMember}, g \in Invitable : m = member[u] /\ g = session[u]
      BY <2>1, <3>1
    <3>3. Backfilled(m, g).teams = IF m = NoMember THEN {} ELSE m.teams
      BY BackfillMakes
    <3>4. QED  BY <2>1, <3>2, <3>3 DEF TeamsOf
  <2>5. Carries(N)
    BY <2>1, <2>4 DEF Carries, DocTeams, Before
  <2>6. /\ N.op = "addto" => N.pc \in {"backfill", "begin"}
        /\ N.pc = "readmember" => N.op = "me"
    BY <2>1 DEF First
  <2>7. N.pc \notin {"saveteam", "savemember", "dropteam"}
    BY <2>1 DEF Before
  <2>8. AtWork(N)
    BY <2>1, <2>5, <2>6, <2>7 DEF AtWork, Adds, Removes, Deletes, Settling, Closing
  <2>9. call'[i] = N
    BY <2>1, Moves
  <2>10. Continues(i, N)
    BY <2>3, <2>8, <2>9, ContinuesAside DEF Sorting
  <2>11. QED  BY <2>3, <2>10, TeamingContinues
<1>2. ASSUME NEW n \in Invite, Inspects(i, n) PROVE Teaming'
  <2>1. PICK N \in Call : Goes(i, N) /\ N.op = "inspect" /\ N.pc = "limit"
    BY <1>2, InspectsGoes
  <2>2. Free(i)
    BY <1>2 DEF Inspects
  <2>3. Busy = {} /\ call[i].op = "none"
    BY <2>2, NobodyAtWork, FreeIsIdle, CallFields DEF Belongs
  <2>4. AtWork(N) /\ call'[i] = N
    BY <2>1, Restful, Moves DEF Sorting, Drafts
  <2>5. Continues(i, N)
    BY <2>3, <2>4, ContinuesAside DEF Sorting
  <2>6. QED  BY <2>3, <2>5, TeamingContinues
<1>3. QED  BY <1>1, <1>2 DEF Asking

LEMMA WorkingIsBusy == ASSUME NEW i \in Slot, Working(i) PROVE i \in Busy
BY DEF Working, Quiet, Recording, Regrouping, Entering, Inviting, TeamWriting, Counts, Busy,
       EndsListing, Lists, DropsMember, ScansMembers, HasListed, DropFails, ReadsMember, SkipsMember,
       FindsPending, EndsRevoking, CounterFails, LooksUp, ClaimRefused, ReadsTeam, At, Dies,
       Backfills, Reconciles, SavesMember, Joins, AddsGroup, DropsGroup, RollsBack, SetsEnabled,
       CreatesAccount, Groups1st, Expires, Claims, Issues, Revokes, CreatesTeam, SavesTeam, DropsTeam,
       Indexes, ReadsCounter, WritesCounter

LEMMA WorkingTeams ==
    ASSUME DirectoryInv, Present, Teaming, Solo, NEW i \in Slot, Working(i), Others(i),
           \A u : Joined(u) => Joined(u)'
    PROVE  Teaming'
<1>1. i \in Busy
  BY WorkingIsBusy
<1>2. CASE Recording(i)
  <2>1. team' = team
    BY <1>2, Leaves
  <2>2. QED
    BY <1>1, <1>2, <2>1, BackfillsTeams, ReconcilesTeams, SavesMemberTeams, JoinsTeams DEF Recording
<1>3. CASE TeamWriting(i)
  <2>1. member' = member
    BY <1>3, Leaves
  <2>2. QED  BY <1>1, <1>3, <2>1, CreatesTeamTeams, SavesTeamTeams, DropsTeamTeams DEF TeamWriting
<1>4. CASE ~Recording(i) /\ ~TeamWriting(i)
  <2>1. UNCHANGED <<member, team>>
    BY <1>4, Leaves DEF Working, tables
  <2>2. CASE Claims(i)
    BY <1>1, <2>1, <2>2, ClaimsTeams
  <2>3. CASE ~Claims(i)
    <3>1. PICK N : Continues(i, N)
      BY <1>1, <1>4, <2>3, StepContinues
    <3>2. QED  BY <1>1, <2>1, <3>1, TeamingContinues
  <2>4. QED  BY <2>2, <2>3
<1>5. QED  BY <1>2, <1>3, <1>4

LEMMA TeamingStep == DirectoryInv /\ Present /\ Accepting /\ Teaming /\ [Next]_vars => Teaming'
<1> SUFFICES ASSUME DirectoryInv, Present, Accepting, Teaming, [Next]_vars PROVE Teaming'
  OBVIOUS
<1>1. \A u : Joined(u) => Joined(u)'
  BY JoinedStays
<1>2. scope' = scope
  <2>1. ASSUME NEW i \in Slot, Asking(i) \/ Working(i) PROVE scope' = scope
    BY <2>1, Leaves DEF Working, fixed
  <2>2. QED  BY <2>1, StepIs DEF vars, SignsIn, Lapses
<1>3. CASE ~Solo
  BY <1>2, <1>3 DEF Teaming, Solo
<1>4. CASE Solo
  <2>1. ASSUME NEW i \in Slot, Asking(i) PROVE Teaming'
    BY <1>1, <1>4, <2>1, AskingTeams, StepOthers, Leaves DEF tables
  <2>2. ASSUME NEW i \in Slot, Working(i) PROVE Teaming'
    BY <1>1, <1>4, <2>2, WorkingTeams, StepOthers
  <2>3. CASE UNCHANGED vars \/ (\E u \in User : SignsIn(u)) \/ \E m \in Invite : Lapses(m)
    <3>1. UNCHANGED <<call, member, team>>
      BY <2>3 DEF vars, SignsIn, Lapses, tables
    <3>2. (\A j, k \in Busy : j = k)'
      BY <1>4, <3>1 DEF Teaming, Busy
    <3>3. ASSUME NEW j \in Slot PROVE AtWork(call[j])'
      <4>1. PICK d : d = call[j] /\ AtWork(d)
        BY <1>4 DEF Teaming
      <4>2. AtWork(d)' /\ call'[j] = d
        BY <1>1, <3>1, <4>1, WorkStays
      <4>3. QED  BY <4>2
    <3>4. (\A j \in Slot : AtWork(call[j]))'
      BY <3>3
    <3>5. \A u \in User, t \in Team : Settled(u, t) => Settled(u, t)'
      BY <1>1, <3>1 DEF Settled, Agree, TeamsOf, MembersOf
    <3>6. \A j \in Slot, u \in User, t \in Team :
             Differs(call[j], u, t) => Differs(call[j], u, t)'
      BY <3>1 DEF Differs, MembersOf, Settling, Closing
    <3>7. (\A u \in User, t \in Team : Settled(u, t) \/ \E j \in Slot : Differs(call[j], u, t))'
      BY <1>4, <3>5, <3>6 DEF Teaming
    <3>8. QED  BY <3>2, <3>4, <3>7 DEF Teaming
  <2>4. QED  BY <2>1, <2>2, <2>3, StepIs
<1>5. QED  BY <1>3, <1>4

LEMMA TeamingInit == Init => Teaming
<1> SUFFICES ASSUME Init PROVE Teaming
  OBVIOUS
<1>1. \A i \in Slot : call[i] = Idle
  BY DEF Init
<1>2. Busy = {}
  BY <1>1, IdleFields DEF Busy
<1>3. \A i \in Slot : AtWork(call[i])
  BY <1>1, IdleWorks
<1>4. \A u \in User, t \in Team : Agree(u, t)
  <2> SUFFICES ASSUME NEW u \in User, NEW t \in Team PROVE Agree(u, t)
    OBVIOUS
  <2>1. TeamsOf(u) = {}
    BY DEF Init, TeamsOf
  <2>2. MembersOf(t) = {}
    BY DEF Init, MembersOf
  <2>3. QED  BY <2>1, <2>2 DEF Agree
<1>5. QED  BY <1>2, <1>3, <1>4 DEF Teaming, Settled

(* Requests served one at a time leave the two records of team membership  *)
(* in agreement, except for whoever accepted an invitation: where they     *)
(* differ, the one request at work is about to write the membership, or to *)
(* drop the team, and an acceptance writes its membership without teams.   *)
THEOREM TeamsAgreed == Spec => []TeamsAgree
<1>1. Spec => []Accepting
  <2>1. Init => Accepting
    BY DEF Init, Accepting
  <2>2. QED  BY <2>1, AcceptingStep, DirectoryTyped, PTL DEF Spec
<1>2. Teaming => TeamsAgree
  <2> SUFFICES ASSUME Teaming, Busy = {}, Solo, NEW u \in User, NEW t \in Team
               PROVE  Joined(u) \/ Agree(u, t)
    BY DEF TeamsAgree, Solo, Joined, Agree, TeamsOf, MembersOf
  <2>1. \A i \in Slot : ~Differs(call[i], u, t)
    BY Undiffering DEF Busy
  <2>2. QED  BY <2>1 DEF Teaming, Settled
<1>3. QED
  BY <1>1, <1>2, DirectoryTyped, PresentHolds, TeamingInit, TeamingStep, PTL DEF Spec
=============================================================================

---------------------------- MODULE Organizations ----------------------------
(* The organizations of the platform: how one gets its identifier, what is *)
(* written to its document and by whom, and the record of its onboarding.  *)
(* (services/control-plane/src/handler.ts)                                 *)
(*                                                                         *)
(* Every request here was authorized already (Permissions, Directory).     *)
EXTENDS Naturals, FiniteSets

CONSTANTS
    MaxSlug,        \* slugs of one name: the name itself, then name-2, ...
    Creation,       \* ids given to organizations
    Clerk,          \* invocations
    Mandates,       \* see Mandate
    Nobody

Slug       == 1..MaxSlug
Milestones == {"workflowCreated", "firstAgent", "firstProductionRun"}
Checks     == {"branding"}
Orders     == {"create", "derive", "status", "limit", "contact", "check", "progress", "observe", "run"}
(* What is asked in one behaviour and at most how often, how many          *)
(* invocations are in flight, whether they die, which slugs are taken.     *)
Mandate == [ops : SUBSET Orders, asks : Nat, inFlight : Nat, crashes : BOOLEAN, taken : SUBSET Slug]

ASSUME OrganizationsAssumption ==
    MaxSlug \in Nat \ {0} /\ Mandates \subseteq Mandate /\ Nobody \notin Creation

(* Of the document, one field for each route that writes it.               *)
OrgDoc  == [id : Creation \cup {Nobody}, status : {"active", "paused"}, limit : 0..1, contact : 0..1]
NewOrg(c) == [id |-> c, status |-> "active", limit |-> 0, contact |-> 0]
NoOrg   == NewOrg(Nobody)
Record_O == [stored : BOOLEAN, milestones : SUBSET Milestones, checklist : SUBSET Checks,
             status : {"PROSPECT", "LIVE"}]
DefaultOnboarding == [stored |-> FALSE, milestones |-> {}, checklist |-> {}, status |-> "PROSPECT"]

VARIABLES
    mandate,      \* what this behaviour is about
    reserved,     \* SLUGRESERVED# items
    organization, \* ORG# documents
    onboarding,   \* ONBOARDING records
    order,        \* invocations in flight
    ordered,      \* requests so far
    minted,       \* history: the organizations created under each slug
    wanted,       \* history: what the latest request for each field asked for
    told,         \* history: the status the audit trail says
    marked,       \* history: what was observed or checked off
    crossed,      \* history: slugs two writes had in hand together, or one died with
    completed     \* history: slugs a production run of which completed
records == <<reserved, organization, onboarding>>
vars_O  == <<mandate, records, order, ordered, minted, wanted, told, marked, crossed, completed>>

Order == [op : Orders \cup {"none"},
          pc : {"idle", "look", "reserve", "write", "audit", "save", "fetch", "default", "store"},
          slug : Slug \cup {0}, id : Creation \cup {Nobody}, doc : OrgDoc, book : Record_O,
          value : 0..1, mark : Milestones \cup Checks \cup {"none"}]
Done  == [op |-> "none", pc |-> "idle", slug |-> 0, id |-> Nobody, doc |-> NoOrg,
          book |-> DefaultOnboarding, value |-> 0, mark |-> "none"]

(* A slug that was taken once is reserved, whatever became of its owner.   *)
Init_O ==
    /\ mandate \in Mandates
    /\ reserved = mandate.taken
    /\ organization = [s \in Slug |-> NoOrg]
    /\ onboarding = [s \in Slug |-> DefaultOnboarding]
    /\ order = [k \in Clerk |-> Done] /\ ordered = 0
    /\ minted = [s \in Slug |-> {}] /\ wanted = [s \in Slug |-> NoOrg]
    /\ told = [s \in Slug |-> "active"] /\ marked = [s \in Slug |-> {}]
    /\ crossed = {} /\ completed = {}

Open      == {k \in Clerk : order[k].pc # "idle"}
Turn(k, pc) == order' = [order EXCEPT ![k].pc = pc]
Close(k)    == order' = [order EXCEPT ![k] = Done]

(* Writers of one document: of the organization, of its onboarding.        *)
Shares(op, other) == \E group \in {{"status", "limit", "contact"}, {"check", "progress", "observe"}} :
                         {op, other} \subseteq group
(* Clerks, and ids, are as good as one another: the choice of a new one is *)
(* fixed.                                                                  *)
Takes(k, op, o) ==
    /\ op \in mandate.ops /\ k \notin Open /\ k = (CHOOSE j \in Clerk : j \notin Open)
    /\ Cardinality(Open) < mandate.inFlight
    /\ ordered < mandate.asks /\ ordered' = ordered + 1
    /\ order' = [order EXCEPT ![k] = [o EXCEPT !.op = op]]
    /\ crossed' = crossed \cup {s \in Slug : s = o.slug /\ \E j \in Open :
                                   order[j].slug = s /\ Shares(op, order[j].op)}
    /\ UNCHANGED <<mandate, records, minted, wanted, told, marked, completed>>

(***************************************************************************)
(* POST /organizations                                                     *)
(***************************************************************************)
Ids == UNION {minted[s] : s \in Slug} \cup {order[k].id : k \in Clerk}
(* A slug asked for, or the first free one of those derived from the name. *)
CreatesOrg(k, c, op) ==
    /\ op \in {"create", "derive"}
    /\ c \notin Ids /\ c = CHOOSE d \in Creation : d \notin Ids
    /\ \E s \in IF op = "create" THEN Slug ELSE {1} :
          Takes(k, op, [Done EXCEPT !.slug = s, !.id = c, !.pc = "look"])

(* The next candidate; with none left, or a slug asked for, none.          *)
Refused(k) ==
    LET o == order[k]
    IN  order' = [order EXCEPT ![k] = IF o.op = "derive" /\ o.slug < MaxSlug
                                      THEN [o EXCEPT !.slug = o.slug + 1, !.pc = "look"] ELSE Done]

LooksForOrg(k) ==
    /\ order[k].pc = "look"
    /\ IF organization[order[k].slug] # NoOrg THEN Refused(k) ELSE Turn(k, "reserve")
    /\ UNCHANGED <<mandate, records, ordered, minted, wanted, told, marked, crossed, completed>>

(* Faulty variant: the reservation is written without its condition.       *)
ReservesAnyway(k) ==
    /\ order[k].pc = "reserve"
    /\ reserved' = reserved \cup {order[k].slug} /\ Turn(k, "write")
    /\ UNCHANGED <<mandate, organization, onboarding, ordered, minted, wanted, told, marked, crossed,
                   completed>>

(* reserveSlug: the item is written on condition that there is none.       *)
Reserves(k) ==
    /\ order[k].pc = "reserve"
    /\ IF order[k].slug \in reserved THEN Refused(k) /\ UNCHANGED reserved
       ELSE reserved' = reserved \cup {order[k].slug} /\ Turn(k, "write")
    /\ UNCHANGED <<mandate, organization, onboarding, ordered, minted, wanted, told, marked, crossed,
                   completed>>

WritesOrg(k) ==
    LET o == order[k]
    IN  /\ o.pc = "write"
        /\ organization' = [organization EXCEPT ![o.slug] = NewOrg(o.id)]
        /\ minted' = [minted EXCEPT ![o.slug] = @ \cup {o.id}]
        /\ wanted' = [wanted EXCEPT ![o.slug] = NewOrg(o.id)]
        /\ told' = [told EXCEPT ![o.slug] = "active"]
        /\ Close(k)
        /\ UNCHANGED <<mandate, reserved, onboarding, ordered, marked, crossed, completed>>

(***************************************************************************)
(* The organization's document                                             *)
(***************************************************************************)
Status(v) == IF v = 0 THEN "active" ELSE "paused"
(* What the request makes of the document it read.                         *)
Patched(doc, op, v) ==
    CASE op = "status"  -> [doc EXCEPT !.status = Status(v)]
      [] op = "limit"   -> [doc EXCEPT !.limit = v]
      [] OTHER          -> [doc EXCEPT !.contact = v]

(* PUT /organizations/{slug} by staff, POST .../settings and .../profile.  *)
Edits(k, s, op, v) ==
    /\ op \in {"status", "limit", "contact"} /\ organization[s] # NoOrg
    /\ Takes(k, op, [Done EXCEPT !.slug = s, !.value = v, !.doc = Patched(organization[s], op, v),
                                 !.pc = IF op = "status" /\ Status(v) # organization[s].status
                                        THEN "audit" ELSE "save"])

(* recordOrgLifecycle: a change of status is on record before it is made.  *)
RecordsStatus(k) ==
    /\ order[k].pc = "audit"
    /\ told' = [told EXCEPT ![order[k].slug] = order[k].doc.status]
    /\ Turn(k, "save")
    /\ UNCHANGED <<mandate, records, ordered, minted, wanted, marked, crossed, completed>>

(* Faulty variant: the document is made of the defaults and the patch.     *)
SavesPatchAlone(k) ==
    LET o == order[k]
    IN  /\ o.pc = "save"
        /\ organization' = [organization EXCEPT ![o.slug] = Patched(NewOrg(o.doc.id), o.op, o.value)]
        /\ wanted' = [wanted EXCEPT ![o.slug] = Patched(@, o.op, o.value)]
        /\ Close(k)
        /\ UNCHANGED <<mandate, reserved, onboarding, ordered, minted, told, marked, crossed, completed>>

(* saveOrganization *)
SavesOrg(k) ==
    LET o == order[k]
    IN  /\ o.pc = "save"
        /\ organization' = [organization EXCEPT ![o.slug] = o.doc]
        /\ wanted' = [wanted EXCEPT ![o.slug] = Patched(@, o.op, o.value)]
        /\ Close(k)
        /\ UNCHANGED <<mandate, reserved, onboarding, ordered, minted, told, marked, crossed, completed>>

(***************************************************************************)
(* The onboarding record                                                   *)
(***************************************************************************)
(* observeOnboarding from a heartbeat, a saved workflow and the like; the  *)
(* checklist of the customer; the status staff set.                        *)
Notes(k, s, op, mark) ==
    /\ op \in {"observe", "check", "progress"} /\ organization[s] # NoOrg
    /\ mark \in CASE op = "observe" -> Milestones \ {"firstProductionRun"}
                  [] op = "check"   -> Checks
                  [] OTHER          -> {"none"}
    /\ Takes(k, op, [Done EXCEPT !.slug = s, !.mark = mark, !.pc = "fetch"])

(* What it makes of the record it read.                                    *)
Noted(book, op, mark) ==
    CASE op = "observe" -> [book EXCEPT !.stored = TRUE, !.milestones = @ \cup {mark}]
      [] op = "check"   -> [book EXCEPT !.stored = TRUE, !.checklist = @ \cup {mark}]
      [] OTHER          -> [book EXCEPT !.stored = TRUE, !.status = "LIVE"]

(* readOnboarding: with none stored, the default is, and is what was read; *)
(* a milestone observed before is not written again.                       *)
Fetches(k) ==
    LET o == order[k]
        book == onboarding[o.slug]
    IN  /\ o.pc = "fetch"
        /\ order' = [order EXCEPT ![k] =
              IF book.stored /\ o.op = "observe" /\ o.mark \in book.milestones THEN Done
              ELSE [o EXCEPT !.pc = IF book.stored THEN "store" ELSE "default",
                             !.book = Noted(book, o.op, o.mark)]]
        /\ UNCHANGED <<mandate, records, ordered, minted, wanted, told, marked, crossed, completed>>

StoresDefault(k) ==
    LET s == order[k].slug
    IN  /\ order[k].pc = "default"
        /\ onboarding' = [onboarding EXCEPT ![s] =
                            IF @.stored THEN @ ELSE [DefaultOnboarding EXCEPT !.stored = TRUE]]
        /\ Turn(k, "store")
        /\ UNCHANGED <<mandate, reserved, organization, ordered, minted, wanted, told, marked, crossed,
                       completed>>

(* Faulty variant: a milestone starts the record afresh.                   *)
StoresAfresh(k) ==
    LET o == order[k]
    IN  /\ o.pc = "store"
        /\ onboarding' = [onboarding EXCEPT ![o.slug] =
                            IF o.op = "observe" THEN Noted(DefaultOnboarding, o.op, o.mark) ELSE o.book]
        /\ marked' = [marked EXCEPT ![o.slug] = @ \cup ({o.mark} \ {"none"})]
        /\ Close(k)
        /\ UNCHANGED <<mandate, reserved, organization, ordered, minted, wanted, told, crossed, completed>>

(* saveOnboarding *)
StoresBook(k) ==
    LET o == order[k]
    IN  /\ o.pc = "store"
        /\ onboarding' = [onboarding EXCEPT ![o.slug] = o.book]
        /\ marked' = [marked EXCEPT ![o.slug] = @ \cup ({o.mark} \ {"none"})]
        /\ Close(k)
        /\ UNCHANGED <<mandate, reserved, organization, ordered, minted, wanted, told, crossed, completed>>

(* saveRunWithAudit of a completed production run: a transaction of the    *)
(* run and its audit rows, beside save() and the observation in it.        *)
RunCompletes(s) ==
    /\ "run" \in mandate.ops /\ organization[s] # NoOrg /\ s \notin completed
    /\ completed' = completed \cup {s}
    /\ UNCHANGED <<mandate, records, order, ordered, minted, wanted, told, marked, crossed>>

(* An invocation dies, or one of its calls fails.                          *)
GivesUp(k) ==
    /\ mandate.crashes /\ k \in Open
    /\ crossed' = crossed \cup IF order[k].op = "status" THEN {order[k].slug} ELSE {}
    /\ Close(k)
    /\ UNCHANGED <<mandate, records, ordered, minted, wanted, told, marked, completed>>

Next_O ==
    \/ \E k \in Clerk, c \in Creation, op \in Orders : CreatesOrg(k, c, op)
    \/ \E k \in Clerk, s \in Slug, op \in Orders, v \in 0..1 : Edits(k, s, op, v)
    \/ \E k \in Clerk, s \in Slug, op \in Orders, mark \in Milestones \cup Checks \cup {"none"} :
          Notes(k, s, op, mark)
    \/ \E k \in Clerk : LooksForOrg(k) \/ Reserves(k) \/ WritesOrg(k) \/ RecordsStatus(k) \/ SavesOrg(k)
    \/ \E k \in Clerk : Fetches(k) \/ StoresDefault(k) \/ StoresBook(k) \/ GivesUp(k)
    \/ \E s \in Slug : RunCompletes(s)

Spec_O == Init_O /\ [][Next_O]_vars_O

(***************************************************************************)
(* Properties                                                              *)
(***************************************************************************)
OrganizationsTypeOK ==
    /\ mandate \in Mandate /\ reserved \subseteq Slug /\ organization \in [Slug -> OrgDoc]
    /\ onboarding \in [Slug -> Record_O] /\ order \in [Clerk -> Order] /\ ordered \in Nat
    /\ minted \in [Slug -> SUBSET Creation] /\ wanted \in [Slug -> OrgDoc]
    /\ told \in [Slug -> {"active", "paused"}] /\ crossed \subseteq Slug /\ completed \subseteq Slug
    /\ marked \in [Slug -> SUBSET (Milestones \cup Checks)]

(* One organization at most was ever created under a slug, and none under  *)
(* a slug of a former one, however creations interleave and wherever they  *)
(* die; the slug is the key of all its data.                               *)
SlugNeverShared ==
    \A s \in Slug : /\ Cardinality(minted[s]) <= 1
                    /\ s \in mandate.taken => organization[s] = NoOrg

(* The document says of each field what its latest writer asked for, the   *)
(* audit trail says its status, and what was observed or checked off stays *)
(* so, unless two writers of one of the records were in flight together or *)
(* a change of status died half way.                                       *)
RecordsKept ==
    \A s \in Slug \ crossed :
        /\ organization[s] = wanted[s]
        /\ s \notin {order[k].slug : k \in Clerk} => told[s] = organization[s].status
        /\ marked[s] \subseteq onboarding[s].milestones \cup onboarding[s].checklist

(* Activation derives from the first completed production run: once there  *)
(* is one and nothing is in flight, the milestone is on record.            *)
FirstRunObserved ==
    Open = {} => \A s \in completed \ crossed : "firstProductionRun" \in onboarding[s].milestones
=============================================================================

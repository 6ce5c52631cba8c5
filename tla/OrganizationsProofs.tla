------------------------- MODULE OrganizationsProofs -------------------------
(* Organizations, for every number of slugs, ids and invocations: its      *)
(* types, that no two organizations ever share a slug, and that what is    *)
(* stored of an organization says what was asked for.                      *)
EXTENDS Organizations, FiniteSetTheorems, TLAPS

(* What an invocation carries fits what it is about to do.                 *)
Fits(o) ==
    /\ o.pc # "idle" => o.slug \in Slug
    /\ o.pc \in {"look", "reserve", "write"} => o.id \in Creation
    /\ o.op = "observe" => o.mark \in Milestones
    /\ o.op = "check" => o.mark \in Checks
Fit == \A k \in Clerk : Fits(order[k])

(* A slug under which an organization was created is reserved, and of one  *)
(* organization.                                                           *)
Owned == \A s \in Slug : minted[s] = {} \/ (s \in reserved /\ \E c \in Creation : minted[s] = {c})

(* A former slug is reserved, and no organization has it.                  *)
Former == mandate.taken \subseteq reserved /\ \A s \in mandate.taken : organization[s] = NoOrg

(* Whoever has passed the reservation is alone with a slug nobody has had. *)
Sole == \A k \in Clerk : order[k].pc = "write" =>
            /\ order[k].slug \in reserved \ mandate.taken /\ minted[order[k].slug] = {}
            /\ \A j \in Clerk : j # k /\ order[j].pc = "write" => order[j].slug # order[k].slug

(* Only documents that exist are edited, which those of former slugs never *)
(* do.                                                                     *)
Editing == \A k \in Clerk : order[k].pc \in {"audit", "save"} => order[k].slug \notin mandate.taken

OrganizationsInv == OrganizationsTypeOK /\ Fit /\ Owned /\ Former /\ Sole /\ Editing

USE DEF Slug
(* What is at rest has its type. *)
LEMMA Defaults == /\ NoOrg \in OrgDoc /\ \A c \in Creation : NewOrg(c) \in OrgDoc
                  /\ DefaultOnboarding \in Record_O
                  /\ Done \in Order /\ Fits(Done) /\ Done.pc = "idle" /\ Done.slug = 0
<1>1. NoOrg \in OrgDoc /\ \A c \in Creation : NewOrg(c) \in OrgDoc
  BY DEF NoOrg, NewOrg, OrgDoc
<1>2. DefaultOnboarding \in Record_O
  BY DEF DefaultOnboarding, Record_O
<1>3. Done \in Order
  BY <1>1, <1>2 DEF Done, Order
<1>4. Fits(Done) /\ Done.pc = "idle" /\ Done.slug = 0
  BY DEF Done, Fits
<1>5. QED  BY <1>1, <1>2, <1>3, <1>4

(* An invocation that goes on, and the others that do not. *)
LEMMA Lodged ==
    ASSUME OrganizationsTypeOK, Fit, NEW k \in Clerk, NEW N \in Order, Fits(N),
           order' = [order EXCEPT ![k] = N]
    PROVE  /\ order' \in [Clerk -> Order] /\ Fit' /\ order'[k] = N
           /\ \A j \in Clerk : j # k => order'[j] = order[j]
<1>1. order \in [Clerk -> Order]
  BY DEF OrganizationsTypeOK
<1>2. order'[k] = N /\ order' \in [Clerk -> Order] /\ \A j \in Clerk : j # k => order'[j] = order[j]
  BY <1>1
<1>3. Fit'
  <2> SUFFICES ASSUME NEW j \in Clerk PROVE Fits(order'[j])
    BY DEF Fit
  <2>1. CASE j = k
    BY <2>1, <1>2
  <2>2. CASE j # k
    BY <2>2, <1>2 DEF Fit
  <2>3. QED  BY <2>1, <2>2
<1>4. QED  BY <1>2, <1>3

(* A request is taken up: nothing but the invocation changes. *)
LEMMA Taken ==
    ASSUME OrganizationsInv, NEW k \in Clerk, NEW op \in Orders, NEW o \in Order, Takes(k, op, o),
           o.op = "none", o.pc # "idle" => o.slug \in Slug,
           o.pc \in {"look", "reserve", "write"} => o.id \in Creation,
           op = "observe" => o.mark \in Milestones, op = "check" => o.mark \in Checks,
           o.pc # "write", o.pc \in {"audit", "save"} => o.slug \notin mandate.taken
    PROVE  OrganizationsInv'
<1> DEFINE N == [o EXCEPT !.op = op]
<1>1. N \in Order
  BY DEF Order
<1>2. N.op = op /\ N.pc = o.pc /\ N.slug = o.slug /\ N.id = o.id /\ N.mark = o.mark
  BY DEF Order
<1>3. order' = [order EXCEPT ![k] = N]
  BY DEF Takes
<1> HIDE DEF N
<1>4. Fits(N)
  BY <1>2 DEF Fits
<1>5. /\ order' \in [Clerk -> Order] /\ Fit' /\ order'[k] = N
      /\ \A j \in Clerk : j # k => order'[j] = order[j]
  BY <1>1, <1>3, <1>4, Lodged DEF OrganizationsInv
<1>6. /\ UNCHANGED <<mandate, reserved, organization, onboarding, minted, wanted, told, marked, completed>>
      /\ ordered' = ordered + 1 /\ crossed' \subseteq crossed \cup Slug
  BY DEF Takes, records
<1>7. OrganizationsTypeOK'
  BY <1>5, <1>6 DEF OrganizationsInv, OrganizationsTypeOK
<1>8. Owned' /\ Former'
  BY <1>6 DEF OrganizationsInv, Owned, Former
<1>9. Sole'
  BY <1>2, <1>5, <1>6 DEF OrganizationsInv, Sole
<1>10. Editing'
  BY <1>2, <1>5, <1>6 DEF OrganizationsInv, Editing
<1>11. QED  BY <1>5, <1>7, <1>8, <1>9, <1>10 DEF OrganizationsInv
(* An invocation goes on, or ends, without a reservation or a new          *)
(* organization.                                                           *)
LEMMA Proceeds ==
    ASSUME OrganizationsInv, NEW k \in Clerk, NEW N \in Order, Fits(N),
           order' = [order EXCEPT ![k] = N], N.pc # "write",
           N.pc \in {"audit", "save"} => N.slug \notin mandate.taken,
           UNCHANGED <<mandate, reserved, minted>>,
           \A s \in mandate.taken : organization'[s] = organization[s]
    PROVE  order' \in [Clerk -> Order] /\ Fit' /\ Owned' /\ Former' /\ Sole' /\ Editing'
<1>1. /\ order' \in [Clerk -> Order] /\ Fit' /\ order'[k] = N
      /\ \A j \in Clerk : j # k => order'[j] = order[j]
  BY Lodged DEF OrganizationsInv
<1>2. Owned' /\ Former'
  BY DEF OrganizationsInv, Owned, Former
<1>3. Sole'
  BY <1>1 DEF OrganizationsInv, Sole
<1>4. Editing'
  BY <1>1 DEF OrganizationsInv, Editing
<1>5. QED  BY <1>1, <1>2, <1>3, <1>4

(* What Turn and Close make of an invocation. *)
LEMMA Turned ==
    ASSUME OrganizationsInv, NEW k \in Clerk,
           NEW pc \in {"reserve", "save", "store"},
           order[k].pc # "idle", pc = "reserve" => order[k].id \in Creation
    PROVE  LET N == [order[k] EXCEPT !.pc = pc]
           IN  N \in Order /\ Fits(N) /\ N.pc = pc /\ N.slug = order[k].slug
<1>1. order[k] \in Order /\ Fits(order[k])
  BY DEF OrganizationsInv, OrganizationsTypeOK, Fit
<1>2. QED  BY <1>1 DEF Order, Fits

(* A creation that finds its slug taken tries the next, or none. *)
LEMMA Refuses ==
    ASSUME OrganizationsInv, NEW k \in Clerk, order[k].pc \in {"look", "reserve"}, Refused(k),
           UNCHANGED <<mandate, records, minted>>
    PROVE  order' \in [Clerk -> Order] /\ Fit' /\ Owned' /\ Former' /\ Sole' /\ Editing'
<1> DEFINE N == IF order[k].op = "derive" /\ order[k].slug < MaxSlug
                THEN [order[k] EXCEPT !.slug = order[k].slug + 1, !.pc = "look"] ELSE Done
<1>1. order[k] \in Order /\ Fits(order[k])
  BY DEF OrganizationsInv, OrganizationsTypeOK, Fit
<1>2. order[k].slug \in Slug /\ order[k].id \in Creation
  BY <1>1 DEF Fits
<1>3. N \in Order /\ Fits(N) /\ N.pc \in {"look", "idle"}
  <2>1. CASE order[k].op = "derive" /\ order[k].slug < MaxSlug
    <3>1. order[k].slug + 1 \in Slug
      BY <1>2, <2>1, OrganizationsAssumption
    <3>2. QED  BY <1>1, <1>2, <2>1, <3>1 DEF Order, Fits
  <2>2. CASE ~(order[k].op = "derive" /\ order[k].slug < MaxSlug)
    BY <2>2, Defaults
  <2>3. QED  BY <2>1, <2>2
<1>4. order' = [order EXCEPT ![k] = N]
  BY DEF Refused
<1> HIDE DEF N
<1>5. N.pc # "write" /\ N.pc \notin {"audit", "save"}
  BY <1>3
<1>6. UNCHANGED <<mandate, reserved, minted, organization>>
  BY DEF records
<1>7. QED  BY <1>3, <1>4, <1>5, <1>6, Proceeds
-----------------------------------------------------------------------------
(* A creation starts. *)
LEMMA CreatesStep ==
    ASSUME OrganizationsInv, NEW k \in Clerk, NEW c \in Creation, NEW op \in Orders, CreatesOrg(k, c, op)
    PROVE  OrganizationsInv'
<1>1. PICK s \in Slug : Takes(k, op, [Done EXCEPT !.slug = s, !.id = c, !.pc = "look"])
  <2>1. 1 \in Slug
    BY OrganizationsAssumption
  <2>2. CASE op = "create"
    BY <2>2 DEF CreatesOrg
  <2>3. CASE op # "create"
    BY <2>1, <2>3 DEF CreatesOrg
  <2>4. QED  BY <2>2, <2>3
<1> DEFINE o == [Done EXCEPT !.slug = s, !.id = c, !.pc = "look"]
<1>2. o \in Order /\ o.op = "none" /\ o.pc = "look" /\ o.slug = s /\ o.id = c
  BY Defaults DEF Done, Order
<1>3. op # "observe" /\ op # "check"
  BY DEF CreatesOrg
<1>4. Takes(k, op, o)
  BY <1>1
<1> HIDE DEF o
<1>5. QED  BY <1>2, <1>3, <1>4, Taken

(* The document is read and patched. *)
LEMMA EditsOrgStep ==
    ASSUME OrganizationsInv, NEW k \in Clerk, NEW s \in Slug, NEW op \in Orders, NEW v \in 0..1,
           Edits(k, s, op, v)
    PROVE  OrganizationsInv'
<1> DEFINE d == Patched(organization[s], op, v)
           at == IF op = "status" /\ Status(v) # organization[s].status THEN "audit" ELSE "save"
           o == [Done EXCEPT !.slug = s, !.value = v, !.doc = d, !.pc = at]
<1>1. organization[s] \in OrgDoc
  BY DEF OrganizationsInv, OrganizationsTypeOK
<1>2. d \in OrgDoc
  BY <1>1 DEF Patched, OrgDoc, Status
<1>3. at \in {"audit", "save"}
  OBVIOUS
<1>4. Takes(k, op, o) /\ op \notin {"observe", "check"} /\ organization[s] # NoOrg
  BY DEF Edits
<1> HIDE DEF d, at
<1>5. o \in Order /\ o.op = "none" /\ o.pc \in {"audit", "save"} /\ o.slug = s
  BY <1>2, <1>3, Defaults DEF Done, Order
<1> HIDE DEF o
<1>6. s \notin mandate.taken
  BY <1>4 DEF OrganizationsInv, Former
<1>7. QED  BY <1>4, <1>5, <1>6, Taken

(* Something is observed or checked off. *)
LEMMA NotesStep ==
    ASSUME OrganizationsInv, NEW k \in Clerk, NEW s \in Slug, NEW op \in Orders,
           NEW mark \in Milestones \cup Checks \cup {"none"}, Notes(k, s, op, mark)
    PROVE  OrganizationsInv'
<1> DEFINE o == [Done EXCEPT !.slug = s, !.mark = mark, !.pc = "fetch"]
<1>1. o \in Order /\ o.op = "none" /\ o.pc = "fetch" /\ o.slug = s /\ o.mark = mark
  BY Defaults DEF Done, Order
<1>2. Takes(k, op, o)
  BY DEF Notes
<1>3. (op = "observe" => mark \in Milestones) /\ (op = "check" => mark \in Checks)
  BY DEF Notes
<1> HIDE DEF o
<1>4. QED  BY <1>1, <1>2, <1>3, Taken
(* The look-up of the slug. *)
LEMMA LooksStep ==
    ASSUME OrganizationsInv, NEW k \in Clerk, LooksForOrg(k)
    PROVE  OrganizationsInv'
<1>1. UNCHANGED <<mandate, records, ordered, minted, wanted, told, marked, crossed, completed>>
  BY DEF LooksForOrg
<1>2. order' \in [Clerk -> Order] /\ Fit' /\ Owned' /\ Former' /\ Sole' /\ Editing'
  <2>1. CASE organization[order[k].slug] # NoOrg
    BY <1>1, <2>1, Refuses DEF LooksForOrg
  <2>2. CASE organization[order[k].slug] = NoOrg
    <3> DEFINE N == [order[k] EXCEPT !.pc = "reserve"]
    <3>1. order[k].pc = "look" /\ order[k].id \in Creation
      BY DEF LooksForOrg, OrganizationsInv, Fit, Fits
    <3>2. N \in Order /\ Fits(N) /\ N.pc = "reserve"
      BY <3>1, Turned
    <3>3. order' = [order EXCEPT ![k] = N]
      BY <2>2 DEF LooksForOrg, Turn
    <3> HIDE DEF N
    <3>4. UNCHANGED <<mandate, reserved, minted, organization>>
      BY <1>1 DEF records
    <3>5. QED  BY <3>2, <3>3, <3>4, Proceeds
  <2>3. QED  BY <2>1, <2>2
<1>3. QED  BY <1>1, <1>2 DEF OrganizationsInv, OrganizationsTypeOK, records

(* The reservation, on its condition: whoever gets it is alone. *)
LEMMA ReservesStep ==
    ASSUME OrganizationsInv, NEW k \in Clerk, Reserves(k)
    PROVE  OrganizationsInv'
<1>1. UNCHANGED <<mandate, organization, onboarding, ordered, minted, wanted, told, marked, crossed,
                  completed>>
  BY DEF Reserves
<1>2. order[k].pc = "reserve" /\ order[k].slug \in Slug /\ order[k].id \in Creation
  BY DEF Reserves, OrganizationsInv, Fit, Fits
<1>3. CASE order[k].slug \in reserved
  <2>1. Refused(k) /\ reserved' = reserved
    BY <1>3 DEF Reserves
  <2>2. order' \in [Clerk -> Order] /\ Fit' /\ Owned' /\ Former' /\ Sole' /\ Editing'
    BY <1>1, <1>2, <2>1, Refuses DEF records
  <2>3. QED  BY <1>1, <2>1, <2>2 DEF OrganizationsInv, OrganizationsTypeOK
<1>4. CASE order[k].slug \notin reserved
  <2> DEFINE N == [order[k] EXCEPT !.pc = "write"]
             s == order[k].slug
  <2>1. order[k] \in Order /\ Fits(order[k])
    BY DEF OrganizationsInv, OrganizationsTypeOK, Fit
  <2>2. N \in Order /\ Fits(N) /\ N.pc = "write" /\ N.slug = s
    BY <1>2, <2>1 DEF Order, Fits
  <2>3. order' = [order EXCEPT ![k] = N] /\ reserved' = reserved \cup {s}
    BY <1>4 DEF Reserves, Turn
  <2> HIDE DEF N
  <2>4. /\ order' \in [Clerk -> Order] /\ Fit' /\ order'[k] = N
        /\ \A j \in Clerk : j # k => order'[j] = order[j]
    BY <2>2, <2>3, Lodged DEF OrganizationsInv
  <2>5. OrganizationsTypeOK'
    BY <1>1, <1>2, <2>3, <2>4 DEF OrganizationsInv, OrganizationsTypeOK
  <2>6. Owned' /\ Former'
    BY <1>1, <2>3 DEF OrganizationsInv, Owned, Former
  <2>7. Sole'
    <3>1. minted[s] = {} /\ s \notin mandate.taken
      BY <1>2, <1>4 DEF OrganizationsInv, Owned, Former
    <3>2. \A j \in Clerk : order[j].pc = "write" => order[j].slug # s
      BY <1>4 DEF OrganizationsInv, Sole
    <3>3. QED  BY <1>1, <2>2, <2>3, <2>4, <3>1, <3>2 DEF OrganizationsInv, Sole
  <2>8. Editing'
    BY <1>1, <2>2, <2>4 DEF OrganizationsInv, Editing
  <2>9. QED  BY <2>4, <2>5, <2>6, <2>7, <2>8 DEF OrganizationsInv
<1>5. QED  BY <1>3, <1>4

(* The organization is written. *)
LEMMA WritesStep ==
    ASSUME OrganizationsInv, NEW k \in Clerk, WritesOrg(k)
    PROVE  OrganizationsInv'
<1> DEFINE s == order[k].slug
           c == order[k].id
<1>1. s \in Slug /\ c \in Creation /\ order[k].pc = "write"
  BY DEF WritesOrg, OrganizationsInv, Fit, Fits
<1>2. minted[s] = {} /\ s \in reserved /\ s \notin mandate.taken
  BY <1>1 DEF OrganizationsInv, Sole
<1>3. /\ organization' = [organization EXCEPT ![s] = NewOrg(c)]
      /\ minted' = [minted EXCEPT ![s] = minted[s] \cup {c}]
      /\ wanted' = [wanted EXCEPT ![s] = NewOrg(c)]
      /\ told' = [told EXCEPT ![s] = "active"]
      /\ order' = [order EXCEPT ![k] = Done]
      /\ UNCHANGED <<mandate, reserved, onboarding, ordered, marked, crossed, completed>>
  BY DEF WritesOrg, Close
<1>4. /\ order' \in [Clerk -> Order] /\ Fit' /\ order'[k] = Done
      /\ \A j \in Clerk : j # k => order'[j] = order[j]
  BY <1>3, Defaults, Lodged DEF OrganizationsInv
<1>5. /\ minted'[s] = {c}
      /\ \A x \in Slug : x # s => minted'[x] = minted[x]
      /\ \A x \in Slug : x # s => organization'[x] = organization[x]
  BY <1>1, <1>2, <1>3 DEF OrganizationsInv, OrganizationsTypeOK
<1> HIDE DEF s, c
<1>6. OrganizationsTypeOK'
  BY <1>1, <1>3, <1>4, Defaults DEF OrganizationsInv, OrganizationsTypeOK
<1>7. Owned'
  BY <1>1, <1>2, <1>3, <1>5 DEF OrganizationsInv, Owned
<1>8. Former'
  <2>1. mandate.taken \subseteq Slug
    BY DEF OrganizationsInv, OrganizationsTypeOK, Mandate
  <2>2. QED  BY <1>2, <1>3, <1>5, <2>1 DEF OrganizationsInv, Former
<1>9. Sole'
  <2>1. \A j \in Clerk : j # k /\ order[j].pc = "write" => order[j].slug # s
    BY <1>1 DEF OrganizationsInv, Sole, s
  <2>2. \A j \in Clerk : order[j].pc = "write" => order[j].slug \in Slug
    BY DEF OrganizationsInv, Fit, Fits
  <2>3. QED  BY <1>3, <1>4, <1>5, <2>1, <2>2, Defaults DEF OrganizationsInv, Sole
<1>10. Editing'
  BY <1>3, <1>4, Defaults DEF OrganizationsInv, Editing
<1>11. QED  BY <1>4, <1>6, <1>7, <1>8, <1>9, <1>10 DEF OrganizationsInv

(* A change of status is put on record. *)
LEMMA RecordsStep ==
    ASSUME OrganizationsInv, NEW k \in Clerk, RecordsStatus(k)
    PROVE  OrganizationsInv'
<1> DEFINE N == [order[k] EXCEPT !.pc = "save"]
<1>1. /\ UNCHANGED <<mandate, records, ordered, minted, wanted, marked, crossed, completed>>
      /\ told' = [told EXCEPT ![order[k].slug] = order[k].doc.status]
      /\ order' = [order EXCEPT ![k] = N] /\ order[k].pc = "audit"
  BY DEF RecordsStatus, Turn
<1>2. N \in Order /\ Fits(N) /\ N.pc = "save" /\ N.slug = order[k].slug
  BY <1>1, Turned
<1> HIDE DEF N
<1>3. N.slug \notin mandate.taken
  BY <1>1, <1>2 DEF OrganizationsInv, Editing
<1>4. UNCHANGED <<mandate, reserved, minted, organization>>
  BY <1>1 DEF records
<1>5. order' \in [Clerk -> Order] /\ Fit' /\ Owned' /\ Former' /\ Sole' /\ Editing'
  BY <1>1, <1>2, <1>3, <1>4, Proceeds
<1>6. order[k].doc.status \in {"active", "paused"}
  BY DEF OrganizationsInv, OrganizationsTypeOK, Order, OrgDoc
<1>7. told' \in [Slug -> {"active", "paused"}]
  BY <1>1, <1>6 DEF OrganizationsInv, OrganizationsTypeOK
<1>8. QED  BY <1>1, <1>5, <1>7 DEF OrganizationsInv, OrganizationsTypeOK, records

(* A document is saved, never under a former slug. *)
LEMMA SavesStep ==
    ASSUME OrganizationsInv, NEW k \in Clerk, SavesOrg(k)
    PROVE  OrganizationsInv'
<1> DEFINE o == order[k]
<1>1. /\ UNCHANGED <<mandate, reserved, onboarding, ordered, minted, told, marked, crossed, completed>>
      /\ organization' = [organization EXCEPT ![o.slug] = o.doc]
      /\ wanted' = [wanted EXCEPT ![o.slug] = Patched(wanted[o.slug], o.op, o.value)]
      /\ order' = [order EXCEPT ![k] = Done] /\ o.pc = "save"
  BY DEF SavesOrg, Close
<1>2. o.doc \in OrgDoc /\ o.value \in 0..1 /\ o.slug \in Slug /\ o.slug \notin mandate.taken
  BY <1>1 DEF OrganizationsInv, OrganizationsTypeOK, Order, Fit, Fits, Editing
<1>3. wanted[o.slug] \in OrgDoc
  BY <1>2 DEF OrganizationsInv, OrganizationsTypeOK
<1>4. Patched(wanted[o.slug], o.op, o.value) \in OrgDoc
  BY <1>2, <1>3 DEF Patched, OrgDoc, Status
<1>5. organization' \in [Slug -> OrgDoc] /\ wanted' \in [Slug -> OrgDoc]
  BY <1>1, <1>2, <1>4 DEF OrganizationsInv, OrganizationsTypeOK
<1>6. \A s \in mandate.taken : organization'[s] = organization[s]
  <2>1. mandate.taken \subseteq Slug
    BY DEF OrganizationsInv, OrganizationsTypeOK, Mandate
  <2>2. QED  BY <1>1, <1>2, <2>1 DEF OrganizationsInv, OrganizationsTypeOK
<1>7. order' \in [Clerk -> Order] /\ Fit' /\ Owned' /\ Former' /\ Sole' /\ Editing'
  BY <1>1, <1>6, Defaults, Proceeds
<1>8. QED  BY <1>1, <1>5, <1>7 DEF OrganizationsInv, OrganizationsTypeOK
(* The onboarding record is read, and what is to be noted added. *)
LEMMA FetchesStep ==
    ASSUME OrganizationsInv, NEW k \in Clerk, Fetches(k)
    PROVE  OrganizationsInv'
<1> DEFINE o == order[k]
           b == onboarding[o.slug]
           n == Noted(b, o.op, o.mark)
           at == IF b.stored THEN "store" ELSE "default"
           M == [o EXCEPT !.pc = at, !.book = n]
           N == IF b.stored /\ o.op = "observe" /\ o.mark \in b.milestones THEN Done ELSE M
<1>1. /\ UNCHANGED <<mandate, records, ordered, minted, wanted, told, marked, crossed, completed>>
      /\ order' = [order EXCEPT ![k] = N] /\ o.pc = "fetch"
  BY DEF Fetches
<1>2. o \in Order /\ Fits(o) /\ o.slug \in Slug /\ b \in Record_O
  BY <1>1 DEF OrganizationsInv, OrganizationsTypeOK, Fit, Fits
<1>3. n \in Record_O
  <2>1. (o.op = "observe" => o.mark \in Milestones) /\ (o.op = "check" => o.mark \in Checks)
    BY <1>2 DEF Fits
  <2>2. QED  BY <1>2, <2>1 DEF Noted, Record_O
<1>4. at \in {"store", "default"}
  OBVIOUS
<1> HIDE DEF n, at, o
<1>5. M \in Order /\ Fits(M) /\ M.pc \in {"store", "default"}
  BY <1>2, <1>3, <1>4 DEF Order, Fits
<1> HIDE DEF M
<1>6. N \in Order /\ Fits(N) /\ N.pc \in {"store", "default", "idle"}
  BY <1>5, Defaults
<1> HIDE DEF N
<1>7. N.pc # "write" /\ N.pc \notin {"audit", "save"}
  BY <1>6
<1>8. UNCHANGED <<mandate, reserved, minted, organization>>
  BY <1>1 DEF records
<1>9. order' \in [Clerk -> Order] /\ Fit' /\ Owned' /\ Former' /\ Sole' /\ Editing'
  BY <1>1, <1>6, <1>7, <1>8, Proceeds
<1>10. QED  BY <1>1, <1>9 DEF OrganizationsInv, OrganizationsTypeOK, records

(* The default record is stored, where there is none. *)
LEMMA DefaultsStep ==
    ASSUME OrganizationsInv, NEW k \in Clerk, StoresDefault(k)
    PROVE  OrganizationsInv'
<1> DEFINE N == [order[k] EXCEPT !.pc = "store"]
           d == [DefaultOnboarding EXCEPT !.stored = TRUE]
           s == order[k].slug
<1>1. /\ UNCHANGED <<mandate, reserved, organization, ordered, minted, wanted, told, marked, crossed,
                     completed>>
      /\ onboarding' = [onboarding EXCEPT ![s] = IF onboarding[s].stored THEN onboarding[s] ELSE d]
      /\ order' = [order EXCEPT ![k] = N] /\ order[k].pc = "default"
  BY DEF StoresDefault, Turn
<1>2. N \in Order /\ Fits(N) /\ N.pc = "store"
  BY <1>1, Turned
<1>3. d \in Record_O
  BY Defaults DEF Record_O
<1> HIDE DEF N, d
<1>4. onboarding' \in [Slug -> Record_O]
  BY <1>1, <1>3 DEF OrganizationsInv, OrganizationsTypeOK
<1>5. order' \in [Clerk -> Order] /\ Fit' /\ Owned' /\ Former' /\ Sole' /\ Editing'
  BY <1>1, <1>2, Proceeds
<1>6. QED  BY <1>1, <1>4, <1>5 DEF OrganizationsInv, OrganizationsTypeOK

(* The record is stored as it was made. *)
LEMMA StoresStep ==
    ASSUME OrganizationsInv, NEW k \in Clerk, StoresBook(k)
    PROVE  OrganizationsInv'
<1> DEFINE o == order[k]
<1>1. /\ UNCHANGED <<mandate, reserved, organization, ordered, minted, wanted, told, crossed, completed>>
      /\ onboarding' = [onboarding EXCEPT ![o.slug] = o.book]
      /\ marked' = [marked EXCEPT ![o.slug] = marked[o.slug] \cup ({o.mark} \ {"none"})]
      /\ order' = [order EXCEPT ![k] = Done]
  BY DEF StoresBook, Close
<1>2. o.book \in Record_O /\ {o.mark} \ {"none"} \subseteq Milestones \cup Checks
  BY DEF OrganizationsInv, OrganizationsTypeOK, Order
<1> HIDE DEF o
<1>3. onboarding' \in [Slug -> Record_O] /\ marked' \in [Slug -> SUBSET (Milestones \cup Checks)]
  BY <1>1, <1>2 DEF OrganizationsInv, OrganizationsTypeOK
<1>4. order' \in [Clerk -> Order] /\ Fit' /\ Owned' /\ Former' /\ Sole' /\ Editing'
  BY <1>1, Defaults, Proceeds
<1>5. QED  BY <1>1, <1>3, <1>4 DEF OrganizationsInv, OrganizationsTypeOK

(* An invocation dies. *)
LEMMA GivesUpStep ==
    ASSUME OrganizationsInv, NEW k \in Clerk, GivesUp(k)
    PROVE  OrganizationsInv'
<1>1. /\ UNCHANGED <<mandate, records, ordered, minted, wanted, told, marked, completed>>
      /\ order' = [order EXCEPT ![k] = Done] /\ order[k].pc # "idle"
      /\ crossed' \in {crossed, crossed \cup {order[k].slug}}
  BY DEF GivesUp, Close, Open
<1>2. order[k].slug \in Slug
  BY <1>1 DEF OrganizationsInv, Fit, Fits
<1>3. UNCHANGED <<mandate, reserved, minted, organization>>
  BY <1>1 DEF records
<1>4. order' \in [Clerk -> Order] /\ Fit' /\ Owned' /\ Former' /\ Sole' /\ Editing'
  BY <1>1, <1>3, Defaults, Proceeds
<1>5. QED  BY <1>1, <1>2, <1>4 DEF OrganizationsInv, OrganizationsTypeOK, records

(* A production run completes. *)
LEMMA CompletesStep ==
    ASSUME OrganizationsInv, NEW s \in Slug, RunCompletes(s)
    PROVE  OrganizationsInv'
<1>1. /\ UNCHANGED <<mandate, records, order, ordered, minted, wanted, told, marked, crossed>>
      /\ completed' = completed \cup {s}
  BY DEF RunCompletes
<1>2. QED  BY <1>1 DEF OrganizationsInv, OrganizationsTypeOK, Fit, Owned, Former, Sole, Editing, records
-----------------------------------------------------------------------------
(* Every step keeps the invariant. *)
LEMMA OrganizationsStep == OrganizationsInv /\ [Next_O]_vars_O => OrganizationsInv'
<1> SUFFICES ASSUME OrganizationsInv, [Next_O]_vars_O PROVE OrganizationsInv'
  OBVIOUS
<1>1. ASSUME NEW k \in Clerk, NEW c \in Creation, NEW op \in Orders, CreatesOrg(k, c, op)
      PROVE  OrganizationsInv'
  BY <1>1, CreatesStep
<1>2. ASSUME NEW k \in Clerk, NEW s \in Slug, NEW op \in Orders, NEW v \in 0..1, Edits(k, s, op, v)
      PROVE  OrganizationsInv'
  BY <1>2, EditsOrgStep
<1>3. ASSUME NEW k \in Clerk, NEW s \in Slug, NEW op \in Orders,
             NEW mark \in Milestones \cup Checks \cup {"none"}, Notes(k, s, op, mark)
      PROVE  OrganizationsInv'
  BY <1>3, NotesStep
<1>4. ASSUME NEW k \in Clerk,
             LooksForOrg(k) \/ Reserves(k) \/ WritesOrg(k) \/ RecordsStatus(k) \/ SavesOrg(k)
      PROVE  OrganizationsInv'
  BY <1>4, LooksStep, ReservesStep, WritesStep, RecordsStep, SavesStep
<1>5. ASSUME NEW k \in Clerk, Fetches(k) \/ StoresDefault(k) \/ StoresBook(k) \/ GivesUp(k)
      PROVE  OrganizationsInv'
  BY <1>5, FetchesStep, DefaultsStep, StoresStep, GivesUpStep
<1>6. ASSUME NEW s \in Slug, RunCompletes(s) PROVE OrganizationsInv'
  BY <1>6, CompletesStep
<1>7. CASE UNCHANGED vars_O
  BY <1>7 DEF vars_O, records, OrganizationsInv, OrganizationsTypeOK, Fit, Owned, Former, Sole, Editing
<1>8. QED  BY <1>1, <1>2, <1>3, <1>4, <1>5, <1>6, <1>7 DEF Next_O

(* Nothing is created, and nobody is at work, at the start. *)
LEMMA OrganizationsInit == Init_O => OrganizationsInv
<1> SUFFICES ASSUME Init_O PROVE OrganizationsInv
  OBVIOUS
<1>1. mandate \in Mandate /\ reserved = mandate.taken
  BY OrganizationsAssumption DEF Init_O
<1>2. mandate.taken \subseteq Slug
  BY <1>1 DEF Mandate
<1>3. OrganizationsTypeOK
  BY <1>1, <1>2, Defaults DEF Init_O, OrganizationsTypeOK
<1>4. \A k \in Clerk : order[k] = Done
  BY DEF Init_O
<1>5. Fit /\ Sole /\ Editing
  BY <1>4, Defaults DEF Fit, Sole, Editing
<1>6. Owned
  BY DEF Init_O, Owned
<1>7. Former
  BY <1>1, <1>2 DEF Init_O, Former
<1>8. QED  BY <1>3, <1>5, <1>6, <1>7 DEF OrganizationsInv

(* The state has its type, in every interleaving of any number of          *)
(* invocations, wherever they die.                                         *)
THEOREM OrganizationsTyped == Spec_O => []OrganizationsTypeOK
<1>1. OrganizationsInv => OrganizationsTypeOK
  BY DEF OrganizationsInv
<1>2. QED  BY <1>1, OrganizationsInit, OrganizationsStep, PTL DEF Spec_O

(* No two organizations are ever created under one slug, and none under a  *)
(* slug that was taken, whatever the names asked for.                      *)
THEOREM SlugsNeverShared == Spec_O => []SlugNeverShared
<1>1. OrganizationsInv => SlugNeverShared
  <2> SUFFICES ASSUME OrganizationsInv, NEW s \in Slug
               PROVE  /\ Cardinality(minted[s]) <= 1
                      /\ s \in mandate.taken => organization[s] = NoOrg
    BY DEF SlugNeverShared
  <2>1. CASE minted[s] = {}
    BY <2>1, FS_EmptySet DEF OrganizationsInv, Former
  <2>2. CASE \E c \in Creation : minted[s] = {c}
    <3>1. PICK c \in Creation : minted[s] = {c}
      BY <2>2
    <3>2. Cardinality({c}) = 1
      BY FS_Singleton
    <3>3. QED  BY <3>1, <3>2 DEF OrganizationsInv, Former
  <2>3. QED  BY <2>1, <2>2 DEF OrganizationsInv, Owned
<1>2. QED  BY <1>1, OrganizationsInit, OrganizationsStep, PTL DEF Spec_O
-----------------------------------------------------------------------------
(***************************************************************************)
(* The records of an organization                                          *)
(***************************************************************************)
(* What an invocation is about to do is what it was asked for.             *)
Edit == {"status", "limit", "contact"}
Note == {"check", "progress", "observe"}
Suits(o) ==
    /\ o.pc = "idle" => o.op = "none"
    /\ o.pc \in {"look", "reserve", "write"} => o.op \in {"create", "derive"}
    /\ o.pc = "audit" => o.op = "status"
    /\ o.pc = "save" => o.op \in Edit
    /\ o.pc \in {"fetch", "default", "store"} => o.op \in Note /\ (o.op = "progress" => o.mark = "none")
    /\ o.pc \in {"default", "store"} => o.book.stored
Suited == \A k \in Clerk : Suits(order[k])

(* Two writers of one record have its slug crossed.                        *)
Apart == \A j, k \in Clerk : j # k /\ order[j].slug = order[k].slug /\ Shares(order[j].op, order[k].op)
                                => order[k].slug \in crossed

(* Only what was created is edited; only what is stored was marked.        *)
Existing ==
    /\ \A s \in Slug : organization[s] # NoOrg => minted[s] # {}
    /\ \A k \in Clerk : order[k].pc \in {"audit", "save"} => minted[order[k].slug] # {}
    /\ \A s \in Slug : ~onboarding[s].stored => marked[s] = {}

(* The document and the onboarding record are what was asked for; the      *)
(* audit trail is ahead of the document while somebody is between the two. *)
Noting(k, s) == order[k].slug = s /\ order[k].op = "status" /\ order[k].pc = "save"
Intact(s) ==
    /\ organization[s] = wanted[s]
    /\ told[s] = organization[s].status \/ \E k \in Clerk : Noting(k, s)
    /\ marked[s] \subseteq onboarding[s].milestones \cup onboarding[s].checklist

(* What invocation o is about to write over is what it read.               *)
Draws(o) ==
    /\ o.pc \in {"audit", "save"} => o.doc = Patched(organization[o.slug], o.op, o.value)
    /\ o.op = "status" /\ o.pc = "save" => told[o.slug] = o.doc.status
    /\ o.pc \in {"default", "store"} =>
          marked[o.slug] \cup ({o.mark} \ {"none"}) \subseteq o.book.milestones \cup o.book.checklist
Drawn == /\ \A s \in Slug \ crossed : Intact(s)
         /\ \A k \in Clerk : order[k].pc # "idle" /\ order[k].slug \notin crossed => Draws(order[k])

RecordsInv == OrganizationsInv /\ Suited /\ Apart /\ Existing /\ Drawn

LEMMA Sharing == \A op, other : Shares(op, other) <=> \/ op \in Edit /\ other \in Edit
                                                      \/ op \in Note /\ other \in Note
BY DEF Shares, Edit, Note

(* Whoever goes on with its request meets nobody new.                      *)
LEMMA Onwards ==
    ASSUME OrganizationsInv, Suited, Apart, NEW k \in Clerk, NEW N \in Order, Suits(N),
           order' = [order EXCEPT ![k] = N], crossed \subseteq crossed',
           \A j \in Clerk : j # k /\ order[j].slug = N.slug /\ Shares(order[j].op, N.op)
                               => N.slug \in crossed'
    PROVE  /\ order' \in [Clerk -> Order] /\ order'[k] = N /\ Suited' /\ Apart'
           /\ \A j \in Clerk : j # k => order'[j] = order[j]
<1>1. order'[k] = N /\ order' \in [Clerk -> Order] /\ \A j \in Clerk : j # k => order'[j] = order[j]
  BY DEF OrganizationsInv, OrganizationsTypeOK
<1>2. Suited'
  <2> SUFFICES ASSUME NEW j \in Clerk PROVE Suits(order'[j])
    BY DEF Suited
  <2>1. CASE j = k
    BY <2>1, <1>1
  <2>2. CASE j # k
    BY <2>2, <1>1 DEF Suited
  <2>3. QED  BY <2>1, <2>2
<1>3. \A op, other : Shares(op, other) <=> Shares(other, op)
  BY Sharing
<1>4. Apart'
  <2> SUFFICES ASSUME NEW i \in Clerk, NEW j \in Clerk, i # j, order'[i].slug = order'[j].slug,
                      Shares(order'[i].op, order'[j].op)
               PROVE  order'[j].slug \in crossed'
    BY DEF Apart, Shares
  <2>1. CASE i # k /\ j # k
    BY <2>1, <1>1 DEF Apart
  <2>2. CASE j = k
    BY <2>2, <1>1
  <2>3. CASE i = k
    BY <2>3, <1>1, <1>3
  <2>4. QED  BY <2>1, <2>2, <2>3
<1>5. QED  BY <1>1, <1>2, <1>4

(* A step that writes no record.                                           *)
LEMMA Bystands ==
    ASSUME RecordsInv, NEW k \in Clerk, NEW N \in Order, Suits(N),
           order' = [order EXCEPT ![k] = N], crossed \subseteq crossed',
           UNCHANGED <<organization, onboarding, minted, wanted, told, marked>>,
           \A j \in Clerk : j # k /\ order[j].slug = N.slug /\ Shares(order[j].op, N.op)
                               => N.slug \in crossed',
           order[k].op = "status" /\ order[k].pc = "save" => order[k].slug \in crossed',
           N.pc \in {"audit", "save"} => minted[N.slug] # {},
           N.pc # "idle" /\ N.slug \notin crossed' => Draws(N)
    PROVE  Suited' /\ Apart' /\ Existing' /\ Drawn'
<1>1. /\ order' \in [Clerk -> Order] /\ order'[k] = N /\ Suited' /\ Apart'
      /\ \A j \in Clerk : j # k => order'[j] = order[j]
  BY Onwards DEF RecordsInv
<1>2. Existing'
  BY <1>1 DEF RecordsInv, Existing
<1>3. ASSUME NEW s \in Slug \ crossed' PROVE Intact(s)'
  <2>1. Intact(s)
    BY <1>3 DEF RecordsInv, Drawn
  <2>2. ~Noting(k, s)
    BY <1>3 DEF Noting
  <2>3. \A j \in Clerk : Noting(j, s) => Noting(j, s)'
    BY <1>1, <2>2 DEF Noting
  <2>4. QED  BY <2>1, <2>3 DEF Intact
<1>4. ASSUME NEW j \in Clerk, order'[j].pc # "idle", order'[j].slug \notin crossed'
      PROVE  Draws(order[j])'
  <2>1. CASE j = k
    BY <1>1, <1>4, <2>1 DEF Draws
  <2>2. CASE j # k
    <3>1. order'[j] = order[j]
      BY <1>1, <2>2
    <3>2. Draws(order[j])
      BY <1>4, <3>1 DEF RecordsInv, Drawn
    <3>3. QED  BY <3>1, <3>2 DEF Draws
  <2>3. QED  BY <2>1, <2>2
<1>5. Drawn'
  BY <1>3, <1>4 DEF Drawn
<1>6. QED  BY <1>1, <1>2, <1>5

(* A request is taken up: whoever has the record in hand is met.           *)
LEMMA Meets ==
    ASSUME RecordsInv, NEW k \in Clerk, NEW op \in Orders, NEW o \in Order, Takes(k, op, o),
           NEW N \in Order, N = [o EXCEPT !.op = op], N.slug = o.slug, N.op = op, N.slug \in Slug, Suits(N),
           N.pc \in {"audit", "save"} => minted[N.slug] # {},
           N.pc # "idle" /\ N.slug \notin crossed' => Draws(N)
    PROVE  Suited' /\ Apart' /\ Existing' /\ Drawn'
<1>1. /\ order' = [order EXCEPT ![k] = N] /\ crossed \subseteq crossed' /\ order[k].pc = "idle"
      /\ UNCHANGED <<organization, onboarding, minted, wanted, told, marked>>
  BY DEF Takes, records, Open
<1>2. ASSUME NEW j \in Clerk, j # k, order[j].slug = N.slug, Shares(order[j].op, N.op)
      PROVE  N.slug \in crossed'
  <2>1. order[j].pc # "idle"
    BY <1>2, Sharing DEF RecordsInv, Suited, Suits, Edit, Note
  <2>2. Shares(op, order[j].op)
    BY <1>2, Sharing
  <2>3. QED  BY <1>2, <2>1, <2>2 DEF Takes, Open
<1>3. QED  BY <1>1, <1>2, Bystands

LEMMA CreatesKeeps ==
    ASSUME RecordsInv, NEW k \in Clerk, NEW c \in Creation, NEW op \in Orders, CreatesOrg(k, c, op)
    PROVE  RecordsInv'
<1>1. PICK s \in Slug : Takes(k, op, [Done EXCEPT !.slug = s, !.id = c, !.pc = "look"])
  <2>1. 1 \in Slug
    BY OrganizationsAssumption
  <2>2. CASE op = "create"
    BY <2>2 DEF CreatesOrg
  <2>3. CASE op # "create"
    BY <2>1, <2>3 DEF CreatesOrg
  <2>4. QED  BY <2>2, <2>3
<1> DEFINE o == [Done EXCEPT !.slug = s, !.id = c, !.pc = "look"]
           N == [o EXCEPT !.op = op]
<1>2. o \in Order /\ o.pc = "look" /\ o.slug = s
  BY Defaults DEF Done, Order
<1>3. Takes(k, op, o) /\ op \in {"create", "derive"}
  BY <1>1 DEF CreatesOrg
<1> HIDE DEF o
<1>4. N \in Order /\ N.op = op /\ N.pc = "look" /\ N.slug = o.slug
  BY <1>2 DEF Order
<1>5. N = [o EXCEPT !.op = op]
  OBVIOUS
<1> HIDE DEF N
<1>6. Suits(N) /\ Draws(N)
  BY <1>3, <1>4 DEF Suits, Draws
<1>7. Suited' /\ Apart' /\ Existing' /\ Drawn'
  BY <1>2, <1>3, <1>4, <1>5, <1>6, Meets
<1>8. QED  BY <1>7, CreatesStep DEF RecordsInv

(* What is patched keeps its other fields. *)
LEMMA Patches ==
    ASSUME NEW d \in OrgDoc, NEW op, NEW v \in 0..1
    PROVE  /\ Patched(d, op, v) \in OrgDoc
           /\ Patched(d, op, v).status = IF op = "status" THEN Status(v) ELSE d.status
<1>1. CASE op = "status"
  BY <1>1 DEF Patched, OrgDoc, Status
<1>2. CASE op = "limit"
  BY <1>2 DEF Patched, OrgDoc, Status
<1>3. CASE op \notin {"status", "limit"}
  BY <1>3 DEF Patched, OrgDoc, Status
<1>4. QED  BY <1>1, <1>2, <1>3

(* What is read is what was asked for, and the audit trail agrees, unless  *)
(* somebody is met.                                                        *)
LEMMA EditsKeeps ==
    ASSUME RecordsInv, NEW k \in Clerk, NEW s \in Slug, NEW op \in Orders, NEW v \in 0..1,
           Edits(k, s, op, v)
    PROVE  RecordsInv'
<1> DEFINE d == Patched(organization[s], op, v)
           at == IF op = "status" /\ Status(v) # organization[s].status THEN "audit" ELSE "save"
           o == [Done EXCEPT !.slug = s, !.value = v, !.doc = d, !.pc = at]
           N == [o EXCEPT !.op = op]
<1>1. organization[s] \in OrgDoc
  BY DEF RecordsInv, OrganizationsInv, OrganizationsTypeOK
<1>2. d \in OrgDoc /\ d.status = IF op = "status" THEN Status(v) ELSE organization[s].status
  BY <1>1, Patches
<1>3. at \in {"audit", "save"} /\ (at = "audit" => op = "status")
  OBVIOUS
<1>4. op = "status" /\ at = "save" => d.status = organization[s].status
  BY <1>2
<1>5. Takes(k, op, o) /\ op \in Edit /\ organization[s] # NoOrg
  BY DEF Edits, Edit
<1>6. d = Patched(organization[s], op, v)
  OBVIOUS
<1> HIDE DEF d, at
<1>7. o \in Order /\ o.slug = s
  BY <1>2, <1>3, Defaults DEF Done, Order
<1>8. /\ N \in Order /\ N.op = op /\ N.pc = at /\ N.slug = s /\ N.doc = d /\ N.value = v
      /\ N = [o EXCEPT !.op = op]
  BY <1>2, <1>3, Defaults DEF Done, Order
<1> HIDE DEF o, N
<1>9. Suits(N)
  BY <1>3, <1>5, <1>8 DEF Suits
<1>10. minted[s] # {}
  BY <1>5 DEF RecordsInv, Existing
<1>11. ASSUME s \notin crossed' PROVE Draws(N)
  <2>1. ASSUME op = "status" PROVE told[s] = organization[s].status
    <3>1. Intact(s)
      BY <1>5, <1>11 DEF Takes, RecordsInv, Drawn
    <3>2. ASSUME NEW j \in Clerk, Noting(j, s) PROVE FALSE
      <4>1. Shares(op, order[j].op) /\ order[j].pc # "idle" /\ order[j].slug = s
        BY <2>1, <3>2, Sharing DEF Noting, Edit
      <4>2. QED  BY <1>5, <1>7, <1>11, <4>1 DEF Takes, Open
    <3>3. QED  BY <3>1, <3>2 DEF Intact
  <2>2. QED  BY <1>3, <1>4, <1>6, <1>8, <2>1 DEF Draws
<1>12. Suited' /\ Apart' /\ Existing' /\ Drawn'
  BY <1>5, <1>7, <1>8, <1>9, <1>10, <1>11, Meets
<1>13. QED  BY <1>12, EditsOrgStep DEF RecordsInv

LEMMA NotesKeeps ==
    ASSUME RecordsInv, NEW k \in Clerk, NEW s \in Slug, NEW op \in Orders,
           NEW mark \in Milestones \cup Checks \cup {"none"}, Notes(k, s, op, mark)
    PROVE  RecordsInv'
<1> DEFINE o == [Done EXCEPT !.slug = s, !.mark = mark, !.pc = "fetch"]
           N == [o EXCEPT !.op = op]
<1>1. o \in Order /\ o.slug = s
  BY Defaults DEF Done, Order
<1>2. Takes(k, op, o) /\ op \in Note /\ (op = "progress" => mark = "none")
  BY DEF Notes, Note
<1>3. /\ N \in Order /\ N.op = op /\ N.pc = "fetch" /\ N.slug = s /\ N.mark = mark
      /\ N = [o EXCEPT !.op = op]
  BY Defaults DEF Done, Order
<1> HIDE DEF o, N
<1>4. Suits(N) /\ Draws(N)
  BY <1>2, <1>3 DEF Suits, Draws
<1>5. Suited' /\ Apart' /\ Existing' /\ Drawn'
  BY <1>1, <1>2, <1>3, <1>4, Meets
<1>6. QED  BY <1>5, NotesStep DEF RecordsInv

(* A creation edits nothing, wherever it turns. *)
LEMMA RefusesKeeps ==
    ASSUME RecordsInv, NEW k \in Clerk, order[k].pc \in {"look", "reserve"}, Refused(k),
           UNCHANGED <<organization, onboarding, minted, wanted, told, marked, crossed>>
    PROVE  Suited' /\ Apart' /\ Existing' /\ Drawn'
<1> DEFINE M == [order[k] EXCEPT !.slug = order[k].slug + 1, !.pc = "look"]
           N == IF order[k].op = "derive" /\ order[k].slug < MaxSlug THEN M ELSE Done
<1>1. order[k] \in Order /\ order[k].slug \in Slug /\ order[k].op \in {"create", "derive"}
  BY DEF RecordsInv, OrganizationsInv, OrganizationsTypeOK, Fit, Fits, Suited, Suits
<1>2. order' = [order EXCEPT ![k] = N]
  BY DEF Refused
<1>3. /\ N \in Order /\ N.pc \in {"look", "idle"} /\ N.op \in {"create", "derive", "none"}
      /\ N.pc = "idle" => N.op = "none"
      /\ N.pc = "look" => N.op \in {"create", "derive"}
  <2>1. CASE order[k].op = "derive" /\ order[k].slug < MaxSlug
    <3>1. order[k].slug + 1 \in Slug
      BY <1>1, <2>1, OrganizationsAssumption
    <3>2. M \in Order /\ M.pc = "look" /\ M.op = order[k].op
      BY <1>1, <3>1 DEF Order
    <3> HIDE DEF M
    <3>3. QED  BY <1>1, <2>1, <3>2
  <2>2. CASE ~(order[k].op = "derive" /\ order[k].slug < MaxSlug)
    <3>1. Done.op = "none"
      BY DEF Done
    <3>2. QED  BY <2>2, <3>1, Defaults
  <2>3. QED  BY <2>1, <2>2
<1> HIDE DEF N
<1>4. Suits(N) /\ Draws(N)
  BY <1>3 DEF Suits, Draws
<1>5. \A op : ~Shares(op, N.op)
  BY <1>3, Sharing DEF Edit, Note
<1>6. QED  BY <1>1, <1>2, <1>3, <1>4, <1>5, Bystands

LEMMA LooksKeeps ==
    ASSUME RecordsInv, NEW k \in Clerk, LooksForOrg(k) \/ Reserves(k)
    PROVE  RecordsInv'
<1>1. /\ UNCHANGED <<organization, onboarding, minted, wanted, told, marked, crossed>>
      /\ order[k].pc \in {"look", "reserve"}
      /\ Refused(k) \/ \E pc \in {"reserve", "write"} : Turn(k, pc)
  BY DEF LooksForOrg, Reserves, records
<1>2. ASSUME NEW pc \in {"reserve", "write"}, Turn(k, pc)
      PROVE  Suited' /\ Apart' /\ Existing' /\ Drawn'
  <2> DEFINE N == [order[k] EXCEPT !.pc = pc]
  <2>1. order[k] \in Order /\ order[k].op \in {"create", "derive"}
    BY <1>1 DEF RecordsInv, OrganizationsInv, OrganizationsTypeOK, Suited, Suits
  <2>2. N \in Order /\ N.pc \in {"reserve", "write"} /\ N.op \in {"create", "derive"}
    BY <2>1 DEF Order
  <2>3. order' = [order EXCEPT ![k] = N]
    BY <1>2 DEF Turn
  <2> HIDE DEF N
  <2>4. Suits(N) /\ Draws(N)
    BY <2>2 DEF Suits, Draws
  <2>5. \A op : ~Shares(op, N.op)
    BY <2>2, Sharing DEF Edit, Note
  <2>6. QED  BY <1>1, <2>1, <2>2, <2>3, <2>4, <2>5, Bystands
<1>3. Suited' /\ Apart' /\ Existing' /\ Drawn'
  BY <1>1, <1>2, RefusesKeeps
<1>4. OrganizationsInv'
  BY LooksStep, ReservesStep DEF RecordsInv
<1>5. QED  BY <1>3, <1>4 DEF RecordsInv

(* An invocation at rest has nothing in hand. *)
LEMMA Resting == Suits(Done) /\ Draws(Done) /\ Done.op = "none" /\ \A op : ~Shares(op, Done.op)
<1>1. Done.op = "none" /\ Done.pc = "idle"
  BY DEF Done
<1>2. QED  BY <1>1, Sharing DEF Suits, Draws, Edit, Note

LEMMA GivesUpKeeps ==
    ASSUME RecordsInv, NEW k \in Clerk, GivesUp(k)
    PROVE  RecordsInv'
<1>1. /\ UNCHANGED <<organization, onboarding, minted, wanted, told, marked>> /\ crossed \subseteq crossed'
      /\ order' = [order EXCEPT ![k] = Done]
      /\ order[k].op = "status" => order[k].slug \in crossed'
  BY DEF GivesUp, Close, records
<1>2. Suited' /\ Apart' /\ Existing' /\ Drawn'
  BY <1>1, Defaults, Resting, Bystands
<1>3. QED  BY <1>2, GivesUpStep DEF RecordsInv

(* What is noted is noted beside what was there. *)
LEMMA Noteds ==
    ASSUME NEW b \in Record_O, NEW op \in Note, NEW mark, op = "observe" => mark \in Milestones,
           op = "check" => mark \in Checks, op = "progress" => mark = "none"
    PROVE  LET n == Noted(b, op, mark)
           IN  /\ n \in Record_O /\ n.stored
               /\ b.milestones \cup b.checklist \cup ({mark} \ {"none"}) \subseteq n.milestones \cup n.checklist
<1>1. CASE op = "observe"
  BY <1>1 DEF Noted, Record_O
<1>2. CASE op = "check"
  BY <1>2 DEF Noted, Record_O
<1>3. CASE op = "progress"
  BY <1>3 DEF Noted, Record_O
<1>4. QED  BY <1>1, <1>2, <1>3 DEF Note

LEMMA FetchesKeeps ==
    ASSUME RecordsInv, NEW k \in Clerk, Fetches(k)
    PROVE  RecordsInv'
<1> DEFINE o == order[k]
           b == onboarding[o.slug]
           n == Noted(b, o.op, o.mark)
           at == IF b.stored THEN "store" ELSE "default"
           M == [o EXCEPT !.pc = at, !.book = n]
           N == IF b.stored /\ o.op = "observe" /\ o.mark \in b.milestones THEN Done ELSE M
<1>1. /\ UNCHANGED <<organization, onboarding, minted, wanted, told, marked, crossed>>
      /\ order' = [order EXCEPT ![k] = N] /\ o.pc = "fetch"
  BY DEF Fetches, records
<1>2. o \in Order /\ Fits(o) /\ Suits(o) /\ o.slug \in Slug /\ b \in Record_O
  BY <1>1 DEF RecordsInv, OrganizationsInv, OrganizationsTypeOK, Fit, Fits, Suited
<1>3. /\ o.op \in Note /\ (o.op = "observe" => o.mark \in Milestones)
      /\ (o.op = "check" => o.mark \in Checks) /\ (o.op = "progress" => o.mark = "none")
  BY <1>1, <1>2 DEF Fits, Suits
<1> HIDE DEF o
<1>4. /\ n \in Record_O /\ n.stored
      /\ b.milestones \cup b.checklist \cup ({o.mark} \ {"none"}) \subseteq n.milestones \cup n.checklist
  BY <1>2, <1>3, Noteds
<1>5. at \in {"store", "default"}
  OBVIOUS
<1> HIDE DEF n, at
<1>6. /\ M \in Order /\ M.pc \in {"store", "default"} /\ M.book = n /\ M.op = o.op /\ M.mark = o.mark
      /\ M.slug = o.slug
  BY <1>2, <1>4, <1>5 DEF Order
<1> HIDE DEF M, b
<1>7. Suits(M)
  BY <1>3, <1>4, <1>6 DEF Suits
<1>8. ASSUME o.slug \notin crossed PROVE Draws(M)
  <2>1. marked[o.slug] \subseteq b.milestones \cup b.checklist
    BY <1>2, <1>8 DEF RecordsInv, Drawn, Intact, b
  <2>2. QED  BY <1>4, <1>6, <2>1 DEF Draws
<1>9. ASSUME NEW j \in Clerk, j # k, order[j].slug = o.slug, Shares(order[j].op, o.op)
      PROVE  o.slug \in crossed
  BY <1>9 DEF RecordsInv, Apart, o
<1>10. Suited' /\ Apart' /\ Existing' /\ Drawn'
  <2>1. o.op # "status"
    BY <1>3 DEF Note
  <2>2. CASE N = Done
    BY <1>1, <2>1, <2>2, Defaults, Resting, Bystands DEF o
  <2>3. CASE N = M
    <3>1. order' = [order EXCEPT ![k] = M] /\ crossed \subseteq crossed'
      BY <1>1, <2>3
    <3>2. ASSUME NEW j \in Clerk, j # k, order[j].slug = M.slug, Shares(order[j].op, M.op)
          PROVE  M.slug \in crossed'
      BY <1>1, <1>6, <1>9, <3>2
    <3>3. M.slug \notin crossed' => Draws(M)
      BY <1>1, <1>6, <1>8
    <3>4. M.pc \notin {"audit", "save"} /\ order[k].op # "status"
      BY <1>6, <2>1 DEF o
    <3>5. QED  BY <1>1, <1>6, <1>7, <3>1, <3>2, <3>3, <3>4, Bystands
  <2>4. QED  BY <2>2, <2>3
<1>11. QED  BY <1>10, FetchesStep DEF RecordsInv

(* Who else has the record of slug s in hand while clerk k does, met it.   *)
LEMMA AloneAtSlug ==
    ASSUME RecordsInv, NEW k \in Clerk, NEW j \in Clerk, j # k, order[j].slug = order[k].slug,
           order[k].slug \notin crossed
    PROVE  /\ order[k].pc = "save" \/ order[k].op \in Edit => order[j].pc \notin {"audit", "save"} /\ order[j].op \notin Edit
           /\ order[k].pc \in {"default", "store"} => order[j].pc \notin {"default", "store"}
<1>1. ~Shares(order[j].op, order[k].op)
  BY DEF RecordsInv, Apart
<1>2. Suits(order[j]) /\ Suits(order[k])
  BY DEF RecordsInv, Suited
<1>3. QED  BY <1>1, <1>2, Sharing DEF Suits, Edit

(* The organization is written where nobody edits one. *)
LEMMA WritesKeeps ==
    ASSUME RecordsInv, NEW k \in Clerk, WritesOrg(k)
    PROVE  RecordsInv'
<1> DEFINE s == order[k].slug
           c == order[k].id
<1>1. s \in Slug /\ c \in Creation /\ order[k].pc = "write" /\ order[k].op \in {"create", "derive"}
  BY DEF WritesOrg, RecordsInv, OrganizationsInv, Fit, Fits, Suited, Suits
<1>2. minted[s] = {}
  BY <1>1 DEF RecordsInv, OrganizationsInv, Sole
<1>3. /\ organization' = [organization EXCEPT ![s] = NewOrg(c)]
      /\ minted' = [minted EXCEPT ![s] = minted[s] \cup {c}]
      /\ wanted' = [wanted EXCEPT ![s] = NewOrg(c)]
      /\ told' = [told EXCEPT ![s] = "active"]
      /\ order' = [order EXCEPT ![k] = Done]
      /\ UNCHANGED <<onboarding, marked, crossed>>
  BY DEF WritesOrg, Close
<1>4. /\ organization'[s] = NewOrg(c) /\ wanted'[s] = NewOrg(c) /\ told'[s] = "active" /\ minted'[s] = {c}
      /\ \A t \in Slug : t # s => /\ organization'[t] = organization[t] /\ wanted'[t] = wanted[t]
                                  /\ told'[t] = told[t] /\ minted'[t] = minted[t]
  BY <1>1, <1>2, <1>3 DEF RecordsInv, OrganizationsInv, OrganizationsTypeOK
<1> HIDE DEF s, c
<1>5. /\ order'[k] = Done /\ Suited' /\ Apart'
      /\ \A j \in Clerk : j # k => order'[j] = order[j]
  BY <1>3, Defaults, Resting, Onwards DEF RecordsInv
<1>6. \A j \in Clerk : order[j].pc \in {"audit", "save"} => order[j].slug # s
  BY <1>2 DEF RecordsInv, Existing
<1>7. \A j \in Clerk : order[j].pc # "idle" => order[j].slug \in Slug
  BY DEF RecordsInv, OrganizationsInv, Fit, Fits
<1>8. Existing'
  <2>1. \A t \in Slug : organization'[t] # NoOrg => minted'[t] # {}
    BY <1>4 DEF RecordsInv, Existing
  <2>2. \A j \in Clerk : order'[j].pc \in {"audit", "save"} => minted'[order'[j].slug] # {}
    BY <1>4, <1>5, <1>6, <1>7, Defaults DEF RecordsInv, Existing
  <2>3. \A t \in Slug : ~onboarding'[t].stored => marked'[t] = {}
    BY <1>3 DEF RecordsInv, Existing
  <2>4. QED  BY <2>1, <2>2, <2>3 DEF Existing
<1>9. ASSUME NEW t \in Slug \ crossed' PROVE Intact(t)'
  <2>1. Intact(t)
    BY <1>3, <1>9 DEF RecordsInv, Drawn
  <2>2. CASE t = s
    <3>1. NewOrg(c).status = "active"
      BY DEF NewOrg
    <3>2. QED  BY <1>3, <1>4, <2>1, <2>2, <3>1 DEF Intact
  <2>3. CASE t # s
    <3>1. \A j \in Clerk : Noting(j, t) => Noting(j, t)'
      BY <1>1, <1>5 DEF Noting
    <3>2. QED  BY <1>3, <1>4, <2>1, <2>3, <3>1 DEF Intact
  <2>4. QED  BY <2>2, <2>3
<1>10. ASSUME NEW j \in Clerk, order'[j].pc # "idle", order'[j].slug \notin crossed'
      PROVE  Draws(order[j])'
  <2>1. j # k
    BY <1>5, <1>10, Defaults
  <2>2. order'[j] = order[j] /\ order[j].slug \in Slug
    BY <1>5, <1>7, <1>10, <2>1
  <2>3. Draws(order[j])
    BY <1>3, <1>10, <2>2 DEF RecordsInv, Drawn
  <2>4. order[j].pc \in {"audit", "save"} => /\ organization'[order[j].slug] = organization[order[j].slug]
                                             /\ told'[order[j].slug] = told[order[j].slug]
    BY <1>4, <1>6, <2>2
  <2>5. QED  BY <1>3, <2>2, <2>3, <2>4 DEF Draws
<1>11. Drawn'
  BY <1>9, <1>10 DEF Drawn
<1>12. QED  BY <1>5, <1>8, <1>11, WritesStep DEF RecordsInv

(* The change is on record; its invocation has still to make it. *)
LEMMA RecordsKeeps ==
    ASSUME RecordsInv, NEW k \in Clerk, RecordsStatus(k)
    PROVE  RecordsInv'
<1> DEFINE N == [order[k] EXCEPT !.pc = "save"]
           s == order[k].slug
<1>1. /\ UNCHANGED <<organization, onboarding, minted, wanted, marked, crossed>>
      /\ told' = [told EXCEPT ![s] = order[k].doc.status]
      /\ order' = [order EXCEPT ![k] = N] /\ order[k].pc = "audit"
  BY DEF RecordsStatus, Turn, records
<1>2. /\ order[k] \in Order /\ s \in Slug /\ order[k].op = "status" /\ minted[s] # {}
  BY <1>1 DEF RecordsInv, OrganizationsInv, OrganizationsTypeOK, Fit, Fits, Suited, Suits, Existing
<1>3. /\ N \in Order /\ N.pc = "save" /\ N.slug = s /\ N.op = "status" /\ N.doc = order[k].doc
      /\ N.value = order[k].value
  BY <1>2 DEF Order
<1>4. told'[s] = N.doc.status /\ \A t \in Slug : t # s => told'[t] = told[t]
  BY <1>1, <1>2, <1>3 DEF RecordsInv, OrganizationsInv, OrganizationsTypeOK
<1> HIDE DEF N
<1>5. Suits(N)
  BY <1>3 DEF Suits, Edit
<1>6. /\ order'[k] = N /\ Suited' /\ Apart'
      /\ \A j \in Clerk : j # k => order'[j] = order[j]
  <2>1. ASSUME NEW j \in Clerk, j # k, order[j].slug = N.slug, Shares(order[j].op, N.op)
        PROVE  N.slug \in crossed'
    BY <1>1, <1>2, <1>3, <2>1 DEF RecordsInv, Apart
  <2>2. QED  BY <1>1, <1>3, <1>5, <2>1, Onwards DEF RecordsInv
<1>7. Existing'
  BY <1>1, <1>2, <1>3, <1>6 DEF RecordsInv, Existing
<1>8. ASSUME NEW t \in Slug \ crossed' PROVE Intact(t)'
  <2>1. Intact(t)
    BY <1>1, <1>8 DEF RecordsInv, Drawn
  <2>2. CASE t = s
    <3>1. Noting(k, t)'
      BY <1>3, <1>6, <2>2 DEF Noting
    <3>2. QED  BY <1>1, <2>1, <3>1 DEF Intact
  <2>3. CASE t # s
    <3>1. \A j \in Clerk : Noting(j, t) => Noting(j, t)'
      BY <1>1, <1>6 DEF Noting
    <3>2. QED  BY <1>1, <1>4, <2>1, <2>3, <3>1 DEF Intact
  <2>4. QED  BY <2>2, <2>3
<1>9. ASSUME NEW j \in Clerk, order'[j].pc # "idle", order'[j].slug \notin crossed'
      PROVE  Draws(order[j])'
  <2>1. CASE j = k
    <3>1. Draws(order[k])
      BY <1>1, <1>3, <1>6, <1>9, <2>1 DEF RecordsInv, Drawn
    <3>2. N.doc = Patched(organization[s], N.op, N.value)
      BY <1>1, <1>2, <1>3, <3>1 DEF Draws
    <3>3. order'[j] = N /\ N.pc = "save"
      BY <1>3, <1>6, <2>1
    <3>4. organization'[N.slug] = organization[s] /\ told'[N.slug] = N.doc.status
      BY <1>1, <1>3, <1>4
    <3>5. QED  BY <3>2, <3>3, <3>4 DEF Draws
  <2>2. CASE j # k
    <3>1. order'[j] = order[j] /\ order[j].slug \in Slug
      BY <1>6, <1>9, <2>2 DEF RecordsInv, OrganizationsInv, Fit, Fits
    <3>2. Draws(order[j])
      BY <1>1, <1>9, <3>1 DEF RecordsInv, Drawn
    <3>3. order[j].pc = "save" => order[j].slug # s
      BY <1>1, <1>2, <1>9, <2>2, <3>1, AloneAtSlug DEF Edit
    <3>4. QED  BY <1>1, <1>4, <3>1, <3>2, <3>3 DEF Draws
  <2>3. QED  BY <2>1, <2>2
<1>10. Drawn'
  BY <1>8, <1>9 DEF Drawn
<1>11. QED  BY <1>6, <1>7, <1>10, RecordsStep DEF RecordsInv

(* The document that is saved is the one that was read, patched, and what  *)
(* was read is what was asked for.                                         *)
LEMMA SavesKeeps ==
    ASSUME RecordsInv, NEW k \in Clerk, SavesOrg(k)
    PROVE  RecordsInv'
<1> DEFINE s == order[k].slug
           o == order[k]
           w == Patched(wanted[s], o.op, o.value)
<1>1. /\ UNCHANGED <<onboarding, minted, told, marked, crossed>>
      /\ organization' = [organization EXCEPT ![s] = o.doc]
      /\ wanted' = [wanted EXCEPT ![s] = w]
      /\ order' = [order EXCEPT ![k] = Done] /\ o.pc = "save"
  BY DEF SavesOrg, Close
<1>2. /\ o \in Order /\ s \in Slug /\ o.op \in Edit /\ minted[s] # {} /\ o.value \in 0..1
      /\ organization[s] \in OrgDoc
  BY <1>1 DEF RecordsInv, OrganizationsInv, OrganizationsTypeOK, Fit, Fits, Suited, Suits, Existing, Order
<1>3. /\ organization'[s] = o.doc /\ wanted'[s] = w
      /\ \A t \in Slug : t # s => organization'[t] = organization[t] /\ wanted'[t] = wanted[t]
  BY <1>1, <1>2 DEF RecordsInv, OrganizationsInv, OrganizationsTypeOK
<1>4. /\ order'[k] = Done /\ Suited' /\ Apart'
      /\ \A j \in Clerk : j # k => order'[j] = order[j]
  BY <1>1, Defaults, Resting, Onwards DEF RecordsInv
<1>5. ASSUME s \notin crossed
      PROVE  /\ Intact(s) /\ o.doc = Patched(organization[s], o.op, o.value)
             /\ o.op = "status" => told[s] = o.doc.status
             /\ \A j \in Clerk : j # k /\ order[j].slug = s
                   => order[j].pc \notin {"audit", "save"} /\ order[j].op \notin Edit
  <2>1. Intact(s) /\ Draws(o)
    BY <1>1, <1>2, <1>5 DEF RecordsInv, Drawn
  <2>2. QED  BY <1>1, <1>2, <1>5, <2>1, AloneAtSlug DEF Draws
<1> HIDE DEF s, o, w
<1>6. Existing'
  <2>1. \A t \in Slug : organization'[t] # NoOrg => minted'[t] # {}
    BY <1>1, <1>2, <1>3 DEF RecordsInv, Existing
  <2>2. \A j \in Clerk : order'[j].pc \in {"audit", "save"} => minted'[order'[j].slug] # {}
    BY <1>1, <1>4, Defaults DEF RecordsInv, Existing
  <2>3. \A t \in Slug : ~onboarding'[t].stored => marked'[t] = {}
    BY <1>1 DEF RecordsInv, Existing
  <2>4. QED  BY <2>1, <2>2, <2>3 DEF Existing
<1>7. ASSUME NEW t \in Slug \ crossed' PROVE Intact(t)'
  <2>1. Intact(t)
    BY <1>1, <1>7 DEF RecordsInv, Drawn
  <2>2. CASE t = s
    <3>1. wanted[s] = organization[s]
      BY <2>1, <2>2 DEF Intact
    <3>2. w = o.doc
      BY <1>1, <1>5, <1>7, <2>2, <3>1 DEF w
    <3>3. told[s] = o.doc.status
      <4>1. CASE o.op = "status"
        BY <1>1, <1>5, <1>7, <2>2, <4>1
      <4>2. CASE o.op # "status"
        <5>1. o.doc.status = organization[s].status
          BY <1>1, <1>2, <1>5, <1>7, <2>2, <4>2, Patches
        <5>2. ASSUME NEW j \in Clerk, Noting(j, s) PROVE FALSE
          BY <1>1, <1>5, <1>7, <2>2, <4>2, <5>2 DEF Noting, o
        <5>3. QED  BY <2>1, <2>2, <5>1, <5>2 DEF Intact
      <4>3. QED  BY <4>1, <4>2
    <3>4. QED  BY <1>1, <1>3, <2>1, <2>2, <3>2, <3>3 DEF Intact
  <2>3. CASE t # s
    <3>1. \A j \in Clerk : Noting(j, t) => Noting(j, t)'
      BY <1>4, <2>3 DEF Noting, s
    <3>2. QED  BY <1>1, <1>3, <2>1, <2>3, <3>1 DEF Intact
  <2>4. QED  BY <2>2, <2>3
<1>8. ASSUME NEW j \in Clerk, order'[j].pc # "idle", order'[j].slug \notin crossed'
      PROVE  Draws(order[j])'
  <2>1. j # k
    BY <1>4, <1>8, Defaults
  <2>2. order'[j] = order[j] /\ order[j].slug \in Slug
    BY <1>4, <1>8, <2>1 DEF RecordsInv, OrganizationsInv, Fit, Fits
  <2>3. Draws(order[j])
    BY <1>1, <1>8, <2>2 DEF RecordsInv, Drawn
  <2>4. order[j].pc \in {"audit", "save"} => organization'[order[j].slug] = organization[order[j].slug]
    BY <1>1, <1>3, <1>5, <1>8, <2>1, <2>2
  <2>5. QED  BY <1>1, <2>2, <2>3, <2>4 DEF Draws
<1>9. Drawn'
  BY <1>7, <1>8 DEF Drawn
<1>10. QED  BY <1>4, <1>6, <1>9, SavesStep DEF RecordsInv

(* A default is stored where nothing was marked; the record that follows   *)
(* holds what was.                                                         *)
LEMMA DefaultKeeps ==
    ASSUME RecordsInv, NEW k \in Clerk, StoresDefault(k)
    PROVE  RecordsInv'
<1> DEFINE N == [order[k] EXCEPT !.pc = "store"]
           d == [DefaultOnboarding EXCEPT !.stored = TRUE]
           s == order[k].slug
<1>1. /\ UNCHANGED <<organization, minted, wanted, told, marked, crossed>>
      /\ onboarding' = [onboarding EXCEPT ![s] = IF onboarding[s].stored THEN onboarding[s] ELSE d]
      /\ order' = [order EXCEPT ![k] = N] /\ order[k].pc = "default"
  BY DEF StoresDefault, Turn
<1>2. order[k] \in Order /\ s \in Slug /\ Suits(order[k])
  BY <1>1 DEF RecordsInv, OrganizationsInv, OrganizationsTypeOK, Fit, Fits, Suited
<1>3. /\ N \in Order /\ N.pc = "store" /\ N.slug = s /\ N.op = order[k].op /\ N.mark = order[k].mark
      /\ N.book = order[k].book
  BY <1>2 DEF Order
<1>4. d.stored
  BY DEF DefaultOnboarding
<1> HIDE DEF N, d
<1>5. /\ onboarding'[s].stored /\ (onboarding[s].stored => onboarding'[s] = onboarding[s])
      /\ \A t \in Slug : t # s => onboarding'[t] = onboarding[t]
  BY <1>1, <1>2, <1>4 DEF RecordsInv, OrganizationsInv, OrganizationsTypeOK
<1>6. Suits(N)
  BY <1>1, <1>2, <1>3 DEF Suits
<1>7. /\ order'[k] = N /\ Suited' /\ Apart'
      /\ \A j \in Clerk : j # k => order'[j] = order[j]
  <2>1. ASSUME NEW j \in Clerk, j # k, order[j].slug = N.slug, Shares(order[j].op, N.op)
        PROVE  N.slug \in crossed'
    BY <1>1, <1>3, <2>1 DEF RecordsInv, Apart
  <2>2. QED  BY <1>1, <1>3, <1>6, <2>1, Onwards DEF RecordsInv
<1> HIDE DEF s
<1>8. Existing'
  BY <1>1, <1>3, <1>5, <1>7 DEF RecordsInv, Existing
<1>9. ASSUME NEW t \in Slug \ crossed' PROVE Intact(t)'
  <2>1. Intact(t)
    BY <1>1, <1>9 DEF RecordsInv, Drawn
  <2>2. marked'[t] \subseteq onboarding'[t].milestones \cup onboarding'[t].checklist
    <3>1. CASE onboarding'[t] = onboarding[t]
      BY <1>1, <2>1, <3>1 DEF Intact
    <3>2. CASE onboarding'[t] # onboarding[t]
      BY <1>1, <1>5, <3>2 DEF RecordsInv, Existing
    <3>3. QED  BY <3>1, <3>2
  <2>3. \A j \in Clerk : Noting(j, t) => Noting(j, t)'
    BY <1>1, <1>7 DEF Noting
  <2>4. QED  BY <1>1, <2>1, <2>2, <2>3 DEF Intact
<1>10. ASSUME NEW j \in Clerk, order'[j].pc # "idle", order'[j].slug \notin crossed'
       PROVE  Draws(order[j])'
  <2>1. CASE j = k
    <3>1. Draws(order[k])
      BY <1>1, <1>3, <1>7, <1>10, <2>1 DEF RecordsInv, Drawn, s
    <3>2. marked[N.slug] \cup ({N.mark} \ {"none"}) \subseteq N.book.milestones \cup N.book.checklist
      BY <1>1, <1>3, <3>1 DEF Draws, s
    <3>3. order'[j] = N /\ N.pc = "store"
      BY <1>3, <1>7, <2>1
    <3>4. QED  BY <1>1, <3>2, <3>3 DEF Draws
  <2>2. CASE j # k
    <3>1. order'[j] = order[j]
      BY <1>7, <2>2
    <3>2. Draws(order[j])
      BY <1>1, <1>10, <3>1 DEF RecordsInv, Drawn
    <3>3. QED  BY <1>1, <3>1, <3>2 DEF Draws
  <2>3. QED  BY <2>1, <2>2
<1>11. Drawn'
  BY <1>9, <1>10 DEF Drawn
<1>12. QED  BY <1>7, <1>8, <1>11, DefaultsStep DEF RecordsInv

(* What is stored holds what was there and what is noted. *)
LEMMA StoresKeeps ==
    ASSUME RecordsInv, NEW k \in Clerk, StoresBook(k)
    PROVE  RecordsInv'
<1> DEFINE s == order[k].slug
           o == order[k]
           more == marked[s] \cup ({o.mark} \ {"none"})
<1>1. /\ UNCHANGED <<organization, minted, wanted, told, crossed>>
      /\ onboarding' = [onboarding EXCEPT ![s] = o.book]
      /\ marked' = [marked EXCEPT ![s] = more]
      /\ order' = [order EXCEPT ![k] = Done] /\ o.pc = "store"
  BY DEF StoresBook, Close
<1>2. s \in Slug /\ o.book.stored
  BY <1>1 DEF RecordsInv, OrganizationsInv, Fit, Fits, Suited, Suits
<1>3. /\ onboarding'[s] = o.book /\ marked'[s] = more
      /\ \A t \in Slug : t # s => onboarding'[t] = onboarding[t] /\ marked'[t] = marked[t]
  BY <1>1, <1>2 DEF RecordsInv, OrganizationsInv, OrganizationsTypeOK
<1>4. /\ order'[k] = Done /\ Suited' /\ Apart'
      /\ \A j \in Clerk : j # k => order'[j] = order[j]
  BY <1>1, Defaults, Resting, Onwards DEF RecordsInv
<1>5. ASSUME s \notin crossed
      PROVE  /\ more \subseteq o.book.milestones \cup o.book.checklist
             /\ \A j \in Clerk : j # k /\ order[j].slug = s => order[j].pc \notin {"default", "store"}
  <2>1. Draws(o)
    BY <1>1, <1>5 DEF RecordsInv, Drawn
  <2>2. QED  BY <1>1, <1>5, <2>1, AloneAtSlug DEF Draws
<1>6. ~Noting(k, s)
  BY <1>1 DEF Noting
<1> HIDE DEF s, o, more
<1>7. Existing'
  <2>1. \A t \in Slug : organization'[t] # NoOrg => minted'[t] # {}
    BY <1>1 DEF RecordsInv, Existing
  <2>2. \A j \in Clerk : order'[j].pc \in {"audit", "save"} => minted'[order'[j].slug] # {}
    BY <1>1, <1>4, Defaults DEF RecordsInv, Existing
  <2>3. \A t \in Slug : ~onboarding'[t].stored => marked'[t] = {}
    BY <1>2, <1>3 DEF RecordsInv, Existing
  <2>4. QED  BY <2>1, <2>2, <2>3 DEF Existing
<1>8. ASSUME NEW t \in Slug \ crossed' PROVE Intact(t)'
  <2>1. Intact(t)
    BY <1>1, <1>8 DEF RecordsInv, Drawn
  <2>2. marked'[t] \subseteq onboarding'[t].milestones \cup onboarding'[t].checklist
    <3>1. CASE t = s
      BY <1>1, <1>3, <1>5, <1>8, <3>1
    <3>2. CASE t # s
      BY <1>3, <2>1, <3>2 DEF Intact
    <3>3. QED  BY <3>1, <3>2
  <2>3. \A j \in Clerk : Noting(j, t) => Noting(j, t)'
    <3>1. ~Noting(k, t)
      BY <1>1 DEF Noting, o
    <3>2. QED  BY <1>4, <3>1 DEF Noting
  <2>4. QED  BY <1>1, <2>1, <2>2, <2>3 DEF Intact
<1>9. ASSUME NEW j \in Clerk, order'[j].pc # "idle", order'[j].slug \notin crossed'
      PROVE  Draws(order[j])'
  <2>1. j # k
    BY <1>4, <1>9, Defaults
  <2>2. order'[j] = order[j] /\ order[j].slug \in Slug
    BY <1>4, <1>9, <2>1 DEF RecordsInv, OrganizationsInv, Fit, Fits
  <2>3. Draws(order[j])
    BY <1>1, <1>9, <2>2 DEF RecordsInv, Drawn
  <2>4. order[j].pc \in {"default", "store"} => marked'[order[j].slug] = marked[order[j].slug]
    BY <1>1, <1>3, <1>5, <1>9, <2>1, <2>2
  <2>5. QED  BY <1>1, <2>2, <2>3, <2>4 DEF Draws
<1>10. Drawn'
  BY <1>8, <1>9 DEF Drawn
<1>11. QED  BY <1>4, <1>7, <1>10, StoresStep DEF RecordsInv

(* A step that touches neither a record nor an invocation. *)
LEMMA RestKeeps ==
    ASSUME RecordsInv, UNCHANGED <<records, order, minted, wanted, told, marked, crossed>>
    PROVE  Suited' /\ Apart' /\ Existing' /\ Drawn'
<1>1. UNCHANGED <<organization, onboarding, order, minted, wanted, told, marked, crossed>>
  BY DEF records
<1>2. Suited' /\ Apart' /\ Existing'
  BY <1>1 DEF RecordsInv, Suited, Suits, Apart, Existing
<1>3. Drawn'
  BY <1>1 DEF RecordsInv, Drawn, Intact, Noting, Draws
<1>4. QED  BY <1>2, <1>3

LEMMA RecordsStays == RecordsInv /\ [Next_O]_vars_O => RecordsInv'
<1> SUFFICES ASSUME RecordsInv, [Next_O]_vars_O PROVE RecordsInv'
  OBVIOUS
<1>1. ASSUME NEW k \in Clerk, NEW c \in Creation, NEW op \in Orders, CreatesOrg(k, c, op)
      PROVE  RecordsInv'
  BY <1>1, CreatesKeeps
<1>2. ASSUME NEW k \in Clerk, NEW s \in Slug, NEW op \in Orders, NEW v \in 0..1, Edits(k, s, op, v)
      PROVE  RecordsInv'
  BY <1>2, EditsKeeps
<1>3. ASSUME NEW k \in Clerk, NEW s \in Slug, NEW op \in Orders,
             NEW mark \in Milestones \cup Checks \cup {"none"}, Notes(k, s, op, mark)
      PROVE  RecordsInv'
  BY <1>3, NotesKeeps
<1>4. ASSUME NEW k \in Clerk,
             LooksForOrg(k) \/ Reserves(k) \/ WritesOrg(k) \/ RecordsStatus(k) \/ SavesOrg(k)
      PROVE  RecordsInv'
  BY <1>4, LooksKeeps, WritesKeeps, RecordsKeeps, SavesKeeps
<1>5. ASSUME NEW k \in Clerk, Fetches(k) \/ StoresDefault(k) \/ StoresBook(k) \/ GivesUp(k)
      PROVE  RecordsInv'
  BY <1>5, FetchesKeeps, DefaultKeeps, StoresKeeps, GivesUpKeeps
<1>6. OrganizationsInv'
  BY OrganizationsStep DEF RecordsInv
<1>7. ASSUME NEW s \in Slug, RunCompletes(s) PROVE RecordsInv'
  <2>1. UNCHANGED <<records, order, minted, wanted, told, marked, crossed>>
    BY <1>7 DEF RunCompletes
  <2>2. QED  BY <1>6, <2>1, RestKeeps DEF RecordsInv
<1>8. CASE UNCHANGED vars_O
  <2>1. UNCHANGED <<records, order, minted, wanted, told, marked, crossed>>
    BY <1>8 DEF vars_O
  <2>2. QED  BY <1>6, <2>1, RestKeeps DEF RecordsInv
<1>9. QED  BY <1>1, <1>2, <1>3, <1>4, <1>5, <1>7, <1>8 DEF Next_O

LEMMA RecordsInit == Init_O => RecordsInv
<1> SUFFICES ASSUME Init_O PROVE RecordsInv
  OBVIOUS
<1>1. \A k \in Clerk : order[k] = Done
  BY DEF Init_O
<1>2. Suited /\ Apart
  BY <1>1, Resting DEF Suited, Apart
<1>3. Existing
  BY <1>1, Defaults DEF Init_O, Existing
<1>4. \A s \in Slug : Intact(s)
  BY DEF Init_O, Intact, NoOrg, NewOrg
<1>5. QED  BY <1>1, <1>2, <1>3, <1>4, Defaults, OrganizationsInit DEF RecordsInv, Drawn

(* An organization's document says of each field what its latest writer    *)
(* asked for, the audit trail says its status while nobody is at work on   *)
(* it, and nothing observed or checked off is lost, however many           *)
(* invocations run, unless two writers of the record met or a change of    *)
(* status died half way.                                                   *)
THEOREM RecordsAreKept == Spec_O => []RecordsKept
<1>1. RecordsInv => RecordsKept
  <2> SUFFICES ASSUME RecordsInv, NEW s \in Slug \ crossed
               PROVE  /\ organization[s] = wanted[s]
                      /\ s \notin {order[k].slug : k \in Clerk} => told[s] = organization[s].status
                      /\ marked[s] \subseteq onboarding[s].milestones \cup onboarding[s].checklist
    BY DEF RecordsKept
  <2>1. Intact(s)
    BY DEF RecordsInv, Drawn
  <2>2. QED  BY <2>1 DEF Intact, Noting
<1>2. QED  BY <1>1, RecordsInit, RecordsStays, PTL DEF Spec_O
=============================================================================

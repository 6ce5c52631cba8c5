---------------------------- MODULE CatalogProofs ----------------------------
(* WorkflowCatalog, for every number of workflows, runs, proposals and     *)
(* invocations and for every scope: a run keeps its definition, a resumed  *)
(* run follows the one it resumes, the limit is passed by less than the    *)
(* starts in flight, nothing unchecked is active, nothing reported applied *)
(* is unstored.                                                            *)
EXTENDS WorkflowCatalog, FiniteSetTheorems, TLAPS

(***************************************************************************)
(* The invariants                                                          *)
(***************************************************************************)
(* An invocation c carries what it is about to use.                        *)
Shape(c) ==
    /\ c.pc \in {"save", "record"} =>
          c.op \in {"edit", "impose", "apply"} /\ c.flow \in Workflow /\ c.doc \in Doc
    /\ c.pc \in {"org", "count"} => c.op = "start"
    /\ c.pc = "begin" => c.op \in {"start", "resume"}
    /\ c.pc \in {"org", "count", "begin"} => c.flow \in Workflow /\ c.doc \in Doc /\ c.run \in Run
    /\ c.op = "resume" => c.pc = "begin" /\ c.from \in Run
    /\ c.op = "start" => c.from = NoRun
    /\ c.op = "apply" \/ c.pc \in {"settle", "discard"} => c.action \in Action
Shaped == \A i \in Slot : Shape(call[i])

(* Holding a definition to begin a run with; about to write one.           *)
Holding(i)    == call[i].pc \in {"org", "count", "begin"}
Writing(i, w) == call[i].pc \in {"save", "record"} /\ call[i].flow = w

(* A workflow once saved stays; runs and starts are of such workflows, and *)
(* a proposal for a workflow has a document.                               *)
Known ==
    /\ \A r \in Started : run[r].flow \in Workflow /\ flow[run[r].flow] # NoDoc
    /\ \A i \in Slot : Holding(i) => flow[call[i].flow] # NoDoc
    /\ \A a \in Action : action[a].flow # NoWorkflow => action[a].doc \in Doc

CatalogInv == TypeOK /\ Shaped /\ Known

(* A document about to be written was checked like one that is written.    *)
Vetting ==
    /\ ActiveWasVetted
    /\ \A i \in Slot, w \in Workflow :
          Writing(i, w) /\ call[i].doc.status = "active" => <<w, call[i].doc.content>> \in vetted

(* A proposal is settled after its document is written.                    *)
Storing ==
    /\ AppliedWasStored
    /\ \A i \in Slot : call[i].pc = "settle" => call[i].action \in stored

(* Every start past the gate still counts against it.                      *)
Gated   == {r \in Live : run[r].gated}
Passed  == {i \in Slot : call[i].pc = "begin" /\ call[i].op = "start"}
Gating  == 0 \notin Limits =>
             Cardinality(Gated) + Cardinality(Passed) <= MaxLimit + Cardinality(Slot) - 1

(* A version record is filed under its own number.                         *)
Filed == \A w \in Workflow, v \in Version : edition[w][v] # NoDoc => edition[w][v].version = v

Latest(w) == IF flow[w] = NoDoc THEN 0 ELSE flow[w].version

(* A workflow whose saves neither overlap nor tear: one writer, whose      *)
(* document has the next version; every version before the last is on      *)
(* record, and so is the last unless the writer is between its writes.     *)
Orderly(w) ==
    /\ \A i \in Slot : Writing(i, w) =>
          /\ call[i].op = "edit"
          /\ \A j \in Slot : Writing(j, w) => j = i
          /\ call[i].pc = "save" => call[i].doc.version = Latest(w) + 1
          /\ call[i].pc = "record" => call[i].doc = flow[w] /\ edition[w][Latest(w)] = NoDoc
    /\ \A v \in Version : v > Latest(w) => edition[w][v] = NoDoc
    /\ \A v \in Version : v < Latest(w) => edition[w][v] # NoDoc
    /\ flow[w] # NoDoc => \/ edition[w][Latest(w)] = flow[w]
                          \/ \E i \in Slot : Writing(i, w) /\ call[i].pc = "record"

(* Document d of w is a version that was in force and can be found again.  *)
Pins(w, d) == d.version <= Latest(w) /\ Resolved(w, d.version) = d

(* Of such a workflow every definition a start holds can be found again,   *)
(* and every run's is what it began with.                                  *)
Pinning ==
    /\ Filed
    /\ \A w \in Workflow \ disturbed : Orderly(w)
    /\ \A i \in Slot : Holding(i) /\ call[i].flow \notin disturbed => Pins(call[i].flow, call[i].doc)
    /\ \A r \in Started : run[r].flow \notin disturbed =>
          /\ run[r].version <= Latest(run[r].flow)
          /\ Resolved(run[r].flow, run[r].version).content = began[r]

(* A run about to begin is nobody else's and has not begun; what it        *)
(* resumes has, and it will begin as that did.                             *)
Reserved ==
    \A i \in Slot : Holding(i) =>
        /\ call[i].run \notin Started
        /\ \A j \in Slot : Holding(j) /\ call[j].run = call[i].run => j = i
SameStart(w, d, old) ==
    old \in Started /\ run[old].flow = w
      /\ (w \notin disturbed => d.content = began[old] /\ d.version = run[old].version)
Resuming ==
    /\ Reserved
    /\ \A i \in Slot : call[i].op = "resume" => SameStart(call[i].flow, call[i].doc, call[i].from)
    /\ \A r \in Started : run[r].from # NoRun =>
          SameStart(run[r].flow, [version |-> run[r].version, content |-> began[r]], run[r].from)
    /\ \A r \in Run \ Started : run[r].from = NoRun

(***************************************************************************)
(* Types                                                                   *)
(***************************************************************************)
(* What is at rest is well typed. *)
LEMMA AtRest == AnyOrg \in OrgDoc /\ Idle \in Call /\ Shape(Idle)
<1>1. OrgDoc # {}
  <2>1. PICK l \in Limits : TRUE
    BY CatalogAssumption
  <2>2. [status |-> "active", limit |-> l] \in OrgDoc
    BY DEF OrgDoc
  <2>3. QED  BY <2>2
<1>2. AnyOrg \in OrgDoc
  BY <1>1 DEF AnyOrg
<1>3. Idle \in Call
  BY <1>2 DEF Idle, Call, OrgDoc
<1>4. Shape(Idle)
  BY DEF Idle, Shape
<1>5. QED  BY <1>2, <1>3, <1>4

LEMMA IdleFields == Idle.pc = "idle" /\ Idle.op = "none" /\ Idle.run = NoRun
BY DEF Idle

(* The fields of an invocation and of a document. *)
LEMMA CallFields ==
    ASSUME CatalogInv, NEW i \in Slot
    PROVE  /\ call[i] \in Call /\ Shape(call[i])
           /\ call[i].flow \in Workflow \cup {NoWorkflow}
           /\ call[i].doc \in Doc \cup {NoDoc}
           /\ call[i].org \in OrgDoc /\ call[i].limit \in Limits
           /\ call[i].run \in Run \cup {NoRun} /\ call[i].from \in Run \cup {NoRun}
           /\ call[i].action \in Action \cup {NoAction}
BY DEF CatalogInv, TypeOK, Shaped, Call

LEMMA DocFields ==
    ASSUME NEW d \in Doc
    PROVE  /\ d.status \in Status /\ d.version \in Version /\ d.content \in Content
           /\ d.version \in Nat /\ d.version >= 1 /\ d # NoDoc
BY NoDocAssumption, CatalogAssumption DEF Doc, Version

LEMMA FlowFields ==
    ASSUME CatalogInv, NEW w \in Workflow
    PROVE  /\ flow[w] \in Doc \cup {NoDoc}
           /\ \A v \in Version : edition[w][v] \in Doc \cup {NoDoc}
           /\ Latest(w) \in Nat
           /\ \A v \in Version : flow[w] # NoDoc => Resolved(w, v) \in Doc
<1>1. flow[w] \in Doc \cup {NoDoc} /\ \A v \in Version : edition[w][v] \in Doc \cup {NoDoc}
  BY DEF CatalogInv, TypeOK
<1>2. QED  BY <1>1, DocFields DEF Latest, Resolved

LEMMA VersionFields == \A v \in Version : v \in Nat /\ v >= 1
BY CatalogAssumption DEF Version

(* One invocation goes on, the others do not. *)
LEMMA Moves ==
    ASSUME CatalogInv, NEW i \in Slot, NEW N \in Call, Shape(N), call' = [call EXCEPT ![i] = N]
    PROVE  /\ call' \in [Slot -> Call] /\ Shaped' /\ call'[i] = N
           /\ \A j \in Slot \ {i} : call'[j] = call[j]
<1>1. call \in [Slot -> Call]
  BY DEF CatalogInv, TypeOK
<1>2. call' \in [Slot -> Call] /\ call'[i] = N /\ \A j \in Slot \ {i} : call'[j] = call[j]
  BY <1>1
<1>3. Shaped'
  <2> SUFFICES ASSUME NEW j \in Slot PROVE Shape(call'[j])
    BY DEF Shaped
  <2>1. CASE j = i
    BY <1>2, <2>1
  <2>2. CASE j # i
    BY <1>2, <2>2, CallFields
  <2>3. QED  BY <2>1, <2>2
<1>4. QED  BY <1>2, <1>3

(* ... or ends. *)
LEMMA Returns ==
    ASSUME CatalogInv, NEW i \in Slot, Return(i)
    PROVE  /\ call' \in [Slot -> Call] /\ Shaped' /\ call'[i] = Idle
           /\ \A j \in Slot \ {i} : call'[j] = call[j]
BY AtRest, Moves DEF Return

(* ... or changes what it does next. *)
LEMMA Turns ==
    ASSUME CatalogInv, NEW i \in Slot, NEW pc \in {"record", "settle"},
           call[i].pc = "save" \/ call[i].op = "apply", pc = "record" => call[i].pc = "save",
           pc = "settle" => call[i].op = "apply",
           call' = [call EXCEPT ![i].pc = pc]
    PROVE  /\ call' \in [Slot -> Call] /\ Shaped' /\ call'[i] = [call[i] EXCEPT !.pc = pc]
           /\ \A j \in Slot \ {i} : call'[j] = call[j]
<1> DEFINE N == [call[i] EXCEPT !.pc = pc]
<1>1. N \in Call
  BY CallFields DEF Call
<1>2. Shape(N)
  BY CallFields DEF Call, Shape
<1>3. call' = [call EXCEPT ![i] = N]
  BY DEF CatalogInv, TypeOK
<1>4. QED  BY <1>1, <1>2, <1>3, Moves

(***************************************************************************)
(* What a step is: what it does to definitions, runs and invocations       *)
(***************************************************************************)
(* A request begins that will write d in place of w; an edit writes the    *)
(* version after the one it read.                                          *)
Starts(i, w, op, d, a) ==
    /\ call[i].pc = "idle" /\ StartsSaving(i, op, w, d, a) /\ d \in Doc
    /\ op \in {"edit", "impose", "apply"}
    /\ op = "edit" => d.version = Latest(w) + 1
    /\ a \in Action \cup {NoAction}
    /\ op = "apply" => a \in Action
    /\ vetted \subseteq vetted' /\ vetted' \subseteq Workflow \X Content
    /\ d.status = "active" => <<w, d.content>> \in vetted'

(* An invocation that writes no workflow turns to N, which writes none and *)
(* holds no other definition than it did.                                  *)
Goes(i, N) ==
    /\ call[i].pc \notin {"save", "record"}
    /\ N \in Call /\ Shape(N) /\ call' = [call EXCEPT ![i] = N]
    /\ N.pc \notin {"save", "record"}
    /\ N.pc \in {"org", "count", "begin"} =>
          Holding(i) /\ N.op = "start" /\ N.flow = call[i].flow /\ N.doc = call[i].doc
            /\ N.run = call[i].run
    /\ N.pc = "begin" => BelowLimit(call[i].limit)
Aside ==
    /\ UNCHANGED <<scope, flow, edition, run, began, vetted, disturbed>>
    /\ call' = call \/ \E i \in Slot, N \in Call : Goes(i, N)

Kinds ==
    \/ \E i \in Slot, w \in Workflow, op \in Request \cup {"edit", "apply"}, d \in Doc,
          a \in Action \cup {NoAction} : Starts(i, w, op, d, a)
    \/ \E i \in Slot : SavesWorkflow(i) \/ RecordsVersion(i) \/ BeginsRun(i) \/ Dies(i)
    \/ \E i \in Slot, w \in Workflow, r \in Run : ReadsWorkflow(i, w, r)
    \/ \E i \in Slot, old, r \in Run : ResumesException(i, old, r)
    \/ \E r \in Run, s \in {"FAILED", "DONE"} : EndsRun(r, s)
    \/ Aside

LEMMA FreeIsIdle == ASSUME NEW i \in Slot, Free(i) PROVE call[i].pc = "idle"
BY DEF Free, Busy

(* A request that starts saving. *)
LEMMA StartsTyped ==
    ASSUME CatalogInv, NEW i \in Slot, NEW w \in Workflow, NEW op, NEW d, NEW a,
           Starts(i, w, op, d, a)
    PROVE  /\ CatalogInv' /\ op \in Request \cup {"edit", "apply"}
           /\ call'[i].pc = "save" /\ call'[i].flow = w /\ call'[i].doc = d /\ call'[i].op = op
           /\ call'[i].run = NoRun
           /\ \A j \in Slot \ {i} : call'[j] = call[j]
<1> DEFINE N == [Idle EXCEPT !.op = op, !.pc = "save", !.flow = w, !.doc = d, !.action = a]
<1>1. N \in Call
  BY AtRest DEF Starts, Call
<1>2. N.pc = "save" /\ N.flow = w /\ N.doc = d /\ N.op = op /\ N.run = NoRun /\ N.action = a
  BY DEF Idle
<1>3. call' = [call EXCEPT ![i] = N]
  BY DEF Starts, StartsSaving, Begin
<1> HIDE DEF N
<1>10. Shape(N)
  BY <1>2 DEF Starts, Shape
<1>4. /\ call' \in [Slot -> Call] /\ Shaped' /\ call'[i] = N
      /\ \A j \in Slot \ {i} : call'[j] = call[j]
  BY <1>1, <1>3, <1>10, Moves
<1>5. UNCHANGED <<scope, flow, edition, run, action, org, began, stored>> /\ disturbed' \subseteq Workflow
      /\ vetted' \subseteq Workflow \X Content
  BY DEF Starts, StartsSaving, CatalogInv, TypeOK
<1>6. Known'
  BY <1>2, <1>4, <1>5 DEF CatalogInv, Known, Holding, Started
<1>7. TypeOK'
  BY <1>4, <1>5 DEF CatalogInv, TypeOK
<1>8. op \in Request \cup {"edit", "apply"}
  BY DEF Starts, Request
<1>9. QED  BY <1>2, <1>4, <1>6, <1>7, <1>8 DEF CatalogInv

(* A step aside is typed when what it writes aside is. *)
LEMMA AsideTyped ==
    ASSUME CatalogInv, Aside, action' \in [Action -> Proposal], org' \in OrgDoc,
           stored' \subseteq Action,
           \A a \in Action : action'[a].flow # NoWorkflow => action'[a].doc \in Doc
    PROVE  CatalogInv'
<1>1. UNCHANGED <<scope, flow, edition, run, began, vetted, disturbed>>
  BY DEF Aside
<1>2. CASE call' = call
  BY <1>1, <1>2 DEF CatalogInv, TypeOK, Shaped, Shape, Known, Holding, Started
<1>3. CASE call' # call
  <2>1. PICK i \in Slot, N \in Call : Goes(i, N)
    BY <1>3 DEF Aside
  <2>2. /\ call' \in [Slot -> Call] /\ Shaped' /\ call'[i] = N
        /\ \A j \in Slot \ {i} : call'[j] = call[j]
    BY <2>1, Moves DEF Goes
  <2>3. TypeOK'
    BY <1>1, <2>2 DEF CatalogInv, TypeOK
  <2>4. Known'
    BY <1>1, <2>1, <2>2 DEF CatalogInv, Known, Goes, Holding, Started
  <2>5. QED  BY <2>2, <2>3, <2>4 DEF CatalogInv
<1>4. QED  BY <1>2, <1>3

(* Each action is of one kind.  First those that start a save. *)
LEMMA EditsDraftKind ==
    ASSUME CatalogInv, NEW i \in Slot, NEW w \in Workflow, NEW s \in Status, NEW c \in Content,
           EditsDraft(i, w, s, c) \/ CreatesDraft(i, w, s, c)
    PROVE  \E d \in Doc : Starts(i, w, "edit", d, NoAction)
<1>1. CASE EditsDraft(i, w, s, c)
  <2>1. flow[w] \in Doc /\ flow[w].version < scope.versions /\ scope.versions \in Version
    BY <1>1, FlowFields DEF EditsDraft, Editable, CatalogInv, TypeOK, Scope
  <2>2. flow[w].version + 1 \in Version
    BY <2>1, DocFields, VersionFields, CatalogAssumption DEF Version
  <2>3. Successor(flow[w], s, c) \in Doc /\ Successor(flow[w], s, c).version = Latest(w) + 1
          /\ Successor(flow[w], s, c).status = s
    BY <2>1, <2>2, DocFields DEF Successor, Doc, Latest
  <2>4. s # "active"
    BY <1>1 DEF EditsDraft
  <2>5. QED  BY <1>1, <2>3, <2>4, FreeIsIdle DEF EditsDraft, Starts, CatalogInv, TypeOK
<1>2. CASE CreatesDraft(i, w, s, c)
  <2> DEFINE d == [status |-> s, version |-> 1, content |-> c]
  <2>1. d \in Doc /\ d.version = Latest(w) + 1 /\ d.status # "active"
    BY <1>2, CatalogAssumption DEF CreatesDraft, Unused, Latest, Doc, Version
  <2>2. QED  BY <1>2, <2>1, FreeIsIdle DEF CreatesDraft, Starts, CatalogInv, TypeOK
<1>3. QED  BY <1>1, <1>2

LEMMA DuplicatesKind ==
    ASSUME CatalogInv, NEW i \in Slot, NEW w \in Workflow, NEW source \in Workflow,
           Duplicates(i, w, source)
    PROVE  \E d \in Doc : Starts(i, w, "edit", d, NoAction)
<1> DEFINE d == [status |-> "draft", version |-> 1, content |-> flow[source].content]
<1>1. flow[source] \in Doc
  BY FlowFields DEF Duplicates
<1>2. d \in Doc /\ d.version = Latest(w) + 1 /\ d.status # "active"
  BY <1>1, CatalogAssumption DEF Duplicates, Unused, Latest, Doc, Version, Status
<1>3. QED  BY <1>2, FreeIsIdle DEF Duplicates, Starts, CatalogInv, TypeOK

LEMMA PublishesKind ==
    ASSUME CatalogInv, NEW i \in Slot, NEW w \in Workflow,
           Publishes(i, w) \/ Unpublishes(i, w) \/ Archives(i, w)
    PROVE  \E d \in Doc : Starts(i, w, "edit", d, NoAction)
<1>1. flow[w] \in Doc /\ flow[w].version < scope.versions /\ scope.versions \in Version
  BY FlowFields DEF Publishes, Unpublishes, Archives, Editable, CatalogInv, TypeOK, Scope
<1>2. flow[w].version + 1 \in Version /\ flow[w].content \in Content
  BY <1>1, DocFields, VersionFields, CatalogAssumption DEF Version
<1>3. ASSUME NEW s \in Status, StartsSaving(i, "edit", w, Successor(flow[w], s, flow[w].content), NoAction),
             call[i].pc = "idle", vetted \subseteq vetted', vetted' \subseteq Workflow \X Content,
             s = "active" => <<w, flow[w].content>> \in vetted'
      PROVE  \E d \in Doc : Starts(i, w, "edit", d, NoAction)
  <2> DEFINE d == Successor(flow[w], s, flow[w].content)
  <2>1. d \in Doc /\ d.version = Latest(w) + 1 /\ d.status = s /\ d.content = flow[w].content
    BY <1>1, <1>2, DocFields DEF Successor, Doc, Latest
  <2>2. StartsSaving(i, "edit", w, d, NoAction)
    BY <1>3
  <2> HIDE DEF d
  <2>3. Starts(i, w, "edit", d, NoAction)
    BY <1>3, <2>1, <2>2 DEF Starts
  <2>4. QED  BY <2>1, <2>3
<1>4. "active" \in Status /\ "draft" \in Status /\ "archived" \in Status
  BY DEF Status
<1>5. vetted \subseteq Workflow \X Content
  BY DEF CatalogInv, TypeOK
<1>6. CASE Publishes(i, w)
  <2>1. /\ call[i].pc = "idle" /\ vetted' = vetted \cup {<<w, flow[w].content>>}
        /\ StartsSaving(i, "edit", w, Successor(flow[w], "active", flow[w].content), NoAction)
    BY <1>6, FreeIsIdle DEF Publishes
  <2>2. vetted \subseteq vetted' /\ <<w, flow[w].content>> \in vetted'
    BY <2>1
  <2>3. vetted' \subseteq Workflow \X Content
    BY <1>2, <1>5, <2>1
  <2>4. QED  BY <1>3, <1>4, <2>1, <2>2, <2>3
<1>7. CASE Unpublishes(i, w)
  <2>1. /\ call[i].pc = "idle" /\ UNCHANGED vetted
        /\ StartsSaving(i, "edit", w, Successor(flow[w], "draft", flow[w].content), NoAction)
    BY <1>7, FreeIsIdle DEF Unpublishes
  <2>2. QED  BY <1>3, <1>4, <1>5, <2>1
<1>8. CASE Archives(i, w)
  <2>1. /\ call[i].pc = "idle" /\ UNCHANGED vetted
        /\ StartsSaving(i, "edit", w, Successor(flow[w], "archived", flow[w].content), NoAction)
    BY <1>8, FreeIsIdle DEF Archives
  <2>2. QED  BY <1>3, <1>4, <1>5, <2>1
<1>9. QED  BY <1>6, <1>7, <1>8

LEMMA StaffSavesKind ==
    ASSUME CatalogInv, NEW i \in Slot, NEW w \in Workflow, NEW d \in Doc, StaffSaves(i, w, d)
    PROVE  Starts(i, w, "impose", d, NoAction)
BY FreeIsIdle, DocFields DEF StaffSaves, Checked, Starts, CatalogInv, TypeOK

LEMMA AppliesKind ==
    ASSUME CatalogInv, NEW i \in Slot, NEW a \in Action, AppliesWorkflow(i, a)
    PROVE  action[a].flow \in Workflow /\ Starts(i, action[a].flow, "apply", action[a].doc, a)
<1>1. action[a].flow \in Workflow /\ action[a].doc \in Doc
  BY DEF AppliesWorkflow, CatalogInv, TypeOK, Known, Proposal
<1>2. QED  BY <1>1, FreeIsIdle, DocFields DEF AppliesWorkflow, Checked, Starts, CatalogInv, TypeOK

(* The two writes of a save. *)
LEMMA SavesTyped ==
    ASSUME CatalogInv, NEW i \in Slot, SavesWorkflow(i)
    PROVE  /\ CatalogInv' /\ call'[i] = [call[i] EXCEPT !.pc = "record"]
           /\ \A j \in Slot \ {i} : call'[j] = call[j]
           /\ call[i].flow \in Workflow /\ call[i].doc \in Doc
           /\ flow'[call[i].flow] = call[i].doc
           /\ \A w \in Workflow \ {call[i].flow} : flow'[w] = flow[w]
<1>1. call[i].flow \in Workflow /\ call[i].doc \in Doc /\ call[i].pc = "save"
  BY CallFields DEF SavesWorkflow, Shape
<1>2. /\ call' \in [Slot -> Call] /\ Shaped' /\ call'[i] = [call[i] EXCEPT !.pc = "record"]
      /\ \A j \in Slot \ {i} : call'[j] = call[j]
  BY <1>1, Turns DEF SavesWorkflow
<1>3. /\ flow' \in [Workflow -> Doc \cup {NoDoc}] /\ flow'[call[i].flow] = call[i].doc
      /\ \A w \in Workflow \ {call[i].flow} : flow'[w] = flow[w]
  BY <1>1 DEF SavesWorkflow, CatalogInv, TypeOK
<1>4. TypeOK'
  BY <1>2, <1>3 DEF SavesWorkflow, CatalogInv, TypeOK
<1>5. \A w \in Workflow : flow[w] # NoDoc => flow'[w] # NoDoc
  BY <1>1, <1>3, DocFields
<1>6. Known'
  <2>1. \A r \in Started' : run'[r].flow \in Workflow /\ flow'[run'[r].flow] # NoDoc
    BY <1>5 DEF SavesWorkflow, CatalogInv, Known, Started
  <2>2. ASSUME NEW j \in Slot, Holding(j)' PROVE flow'[call'[j].flow] # NoDoc
    <3>1. j # i
      BY <1>2, <2>2, CallFields DEF Holding, Call
    <3>2. Holding(j) /\ call'[j] = call[j] /\ call[j].flow \in Workflow
      BY <1>2, <2>2, <3>1, CallFields DEF Holding, Shape
    <3>3. QED  BY <1>5, <3>2 DEF CatalogInv, Known
  <2>3. QED  BY <2>1, <2>2 DEF SavesWorkflow, CatalogInv, Known
<1>7. QED  BY <1>1, <1>2, <1>3, <1>4, <1>6 DEF CatalogInv

LEMMA RecordsTyped ==
    ASSUME CatalogInv, NEW i \in Slot, RecordsVersion(i)
    PROVE  /\ CatalogInv' /\ call'[i] \in {Idle, [call[i] EXCEPT !.pc = "settle"]}
           /\ call'[i].pc \in {"idle", "settle"}
           /\ \A j \in Slot \ {i} : call'[j] = call[j]
           /\ call[i].flow \in Workflow /\ call[i].doc \in Doc
           /\ edition'[call[i].flow] = [edition[call[i].flow] EXCEPT ![call[i].doc.version] = call[i].doc]
           /\ \A w \in Workflow \ {call[i].flow} : edition'[w] = edition[w]
<1>1. call[i].flow \in Workflow /\ call[i].doc \in Doc /\ call[i].doc.version \in Version
  BY CallFields, DocFields DEF RecordsVersion, Shape
<1>2. /\ call' \in [Slot -> Call] /\ Shaped' /\ call'[i] \in {Idle, [call[i] EXCEPT !.pc = "settle"]}
      /\ call'[i].pc \in {"idle", "settle"}
      /\ \A j \in Slot \ {i} : call'[j] = call[j]
  <2>1. CASE call[i].op = "apply"
    <3>1. call' = [call EXCEPT ![i].pc = "settle"]
      BY <2>1 DEF RecordsVersion, AfterRecord, CatalogInv, TypeOK
    <3>2. /\ call' \in [Slot -> Call] /\ Shaped' /\ call'[i] = [call[i] EXCEPT !.pc = "settle"]
          /\ \A j \in Slot \ {i} : call'[j] = call[j]
      BY <2>1, <3>1, Turns
    <3>3. [call[i] EXCEPT !.pc = "settle"].pc = "settle"
      BY CallFields DEF Call
    <3>4. QED  BY <3>2, <3>3
  <2>2. CASE call[i].op # "apply"
    BY <2>2, Returns DEF RecordsVersion, AfterRecord, Return, Idle
  <2>3. QED  BY <2>1, <2>2
<1>3. /\ edition' \in [Workflow -> [Version -> Doc \cup {NoDoc}]]
      /\ edition'[call[i].flow] = [edition[call[i].flow] EXCEPT ![call[i].doc.version] = call[i].doc]
      /\ \A w \in Workflow \ {call[i].flow} : edition'[w] = edition[w]
  BY <1>1 DEF RecordsVersion, CatalogInv, TypeOK
<1>4. stored' \subseteq Action
  BY CallFields DEF RecordsVersion, Shape, CatalogInv, TypeOK
<1>5. TypeOK'
  BY <1>2, <1>3, <1>4 DEF RecordsVersion, CatalogInv, TypeOK
<1>6. Known'
  <2>1. ASSUME NEW j \in Slot, Holding(j)' PROVE flow'[call'[j].flow] # NoDoc
    BY <1>2, <2>1 DEF Holding, RecordsVersion, CatalogInv, Known
  <2>2. QED  BY <2>1 DEF RecordsVersion, CatalogInv, Known, Started
<1>7. QED  BY <1>1, <1>2, <1>3, <1>5, <1>6 DEF CatalogInv

(* A run begins or ends. *)
LEMMA BeginsTyped ==
    ASSUME CatalogInv, NEW i \in Slot, BeginsRun(i)
    PROVE  /\ CatalogInv' /\ call'[i] = Idle /\ \A j \in Slot \ {i} : call'[j] = call[j]
           /\ call[i].run \in Run /\ call[i].flow \in Workflow /\ call[i].doc \in Doc
           /\ run'[call[i].run] = [flow |-> call[i].flow, version |-> call[i].doc.version,
                                   status |-> "LIVE", gated |-> call[i].op = "start",
                                   from |-> call[i].from]
           /\ began'[call[i].run] = call[i].doc.content
           /\ \A r \in Run \ {call[i].run} : run'[r] = run[r] /\ began'[r] = began[r]
           /\ Started' = Started \cup {call[i].run}
<1>1. call[i].flow \in Workflow /\ call[i].doc \in Doc /\ call[i].run \in Run
        /\ call[i].from \in Run \cup {NoRun}
  BY CallFields DEF BeginsRun, Shape
<1>2. /\ call' \in [Slot -> Call] /\ Shaped' /\ call'[i] = Idle
      /\ \A j \in Slot \ {i} : call'[j] = call[j]
  BY Returns DEF BeginsRun
<1> DEFINE R == [flow |-> call[i].flow, version |-> call[i].doc.version, status |-> "LIVE",
                 gated |-> call[i].op = "start", from |-> call[i].from]
<1>3. R \in RunDoc
  BY <1>1, DocFields DEF RunDoc
<1>4. run' = [run EXCEPT ![call[i].run] = R] /\ began' = [began EXCEPT ![call[i].run] = call[i].doc.content]
  BY DEF BeginsRun
<1>5. R.flow = call[i].flow /\ R.status = "LIVE"
  OBVIOUS
<1> HIDE DEF R
<1>6. /\ run' \in [Run -> RunDoc] /\ run'[call[i].run] = R
      /\ began' \in [Run -> Content \cup {NoContent}] /\ began'[call[i].run] = call[i].doc.content
      /\ \A r \in Run \ {call[i].run} : run'[r] = run[r] /\ began'[r] = began[r]
  BY <1>1, <1>3, <1>4, DocFields DEF CatalogInv, TypeOK
<1>7. Started' = Started \cup {call[i].run}
  BY <1>1, <1>5, <1>6 DEF Started
<1>8. TypeOK'
  BY <1>2, <1>6 DEF BeginsRun, CatalogInv, TypeOK
<1>9. Known'
  <2>1. flow[call[i].flow] # NoDoc
    BY DEF BeginsRun, CatalogInv, Known, Holding
  <2>2. \A r \in Started' : run'[r].flow \in Workflow /\ flow'[run'[r].flow] # NoDoc
    BY <1>1, <1>5, <1>6, <1>7, <2>1 DEF BeginsRun, CatalogInv, Known, Started
  <2>3. \A j \in Slot : Holding(j)' => flow'[call'[j].flow] # NoDoc
    BY <1>2 DEF BeginsRun, CatalogInv, Known, Holding, Idle
  <2>4. QED  BY <2>2, <2>3 DEF BeginsRun, CatalogInv, Known
<1>10. QED  BY <1>1, <1>2, <1>6, <1>7, <1>8, <1>9 DEF CatalogInv, R

LEMMA EndsTyped ==
    ASSUME CatalogInv, NEW r \in Run, NEW s \in {"FAILED", "DONE"}, EndsRun(r, s)
    PROVE  /\ CatalogInv' /\ run'[r] = [run[r] EXCEPT !.status = s]
           /\ \A q \in Run \ {r} : run'[q] = run[q]
           /\ Started' = Started
<1>1. run[r] \in RunDoc
  BY DEF CatalogInv, TypeOK
<1>2. [run[r] EXCEPT !.status = s] \in RunDoc /\ run[r].status = "LIVE"
  BY <1>1 DEF RunDoc, EndsRun
<1>3. /\ run' \in [Run -> RunDoc] /\ run'[r] = [run[r] EXCEPT !.status = s]
      /\ \A q \in Run \ {r} : run'[q] = run[q]
  BY <1>2 DEF EndsRun, CatalogInv, TypeOK
<1>4. run'[r].status = s /\ run'[r].flow = run[r].flow
  BY <1>1, <1>3 DEF RunDoc
<1>5. Started' = Started
  BY <1>2, <1>3, <1>4 DEF Started
<1>6. TypeOK'
  BY <1>3 DEF EndsRun, CatalogInv, TypeOK
<1>7. Known' /\ Shaped'
  <2>1. \A q \in Started' : run'[q].flow \in Workflow /\ flow'[run'[q].flow] # NoDoc
    BY <1>3, <1>4, <1>5 DEF EndsRun, CatalogInv, Known, Started
  <2>2. QED  BY <2>1 DEF EndsRun, CatalogInv, Known, Holding, Shaped, Shape
<1>8. QED  BY <1>3, <1>5, <1>6, <1>7 DEF CatalogInv

LEMMA DiesTyped ==
    ASSUME CatalogInv, NEW i \in Slot, Dies(i)
    PROVE  /\ CatalogInv' /\ call'[i] = Idle /\ \A j \in Slot \ {i} : call'[j] = call[j]
<1>1. /\ call' \in [Slot -> Call] /\ Shaped' /\ call'[i] = Idle
      /\ \A j \in Slot \ {i} : call'[j] = call[j]
  BY Returns DEF Dies
<1>2. disturbed' \subseteq Workflow
  BY CallFields DEF Dies, Shape, CatalogInv, TypeOK
<1>3. Known'
  BY <1>1 DEF Dies, CatalogInv, Known, Holding, Idle, Started
<1>4. TypeOK'
  BY <1>1, <1>2 DEF Dies, CatalogInv, TypeOK
<1>5. QED  BY <1>1, <1>3, <1>4 DEF CatalogInv

(* A start reads what it will begin with. *)
LEMMA HoldsTyped ==
    ASSUME CatalogInv, NEW i \in Slot, NEW N \in Call, N.pc \in {"org", "begin"},
           N.op = IF N.pc = "org" THEN "start" ELSE "resume",
           N.flow \in Workflow, N.doc \in Doc, N.run \in Run, flow[N.flow] # NoDoc,
           IF N.op = "resume" THEN N.from \in Run ELSE N.from = NoRun,
           call' = [call EXCEPT ![i] = N],
           UNCHANGED <<scope, flow, edition, run, action, org, began, vetted, stored, disturbed>>
    PROVE  CatalogInv' /\ call'[i] = N /\ \A j \in Slot \ {i} : call'[j] = call[j]
<1>1. Shape(N)
  BY DEF Shape
<1>2. /\ call' \in [Slot -> Call] /\ Shaped' /\ call'[i] = N
      /\ \A j \in Slot \ {i} : call'[j] = call[j]
  BY <1>1, Moves
<1>3. Known'
  BY <1>2 DEF CatalogInv, Known, Holding, Started
<1>4. TypeOK'
  BY <1>2 DEF CatalogInv, TypeOK
<1>5. QED  BY <1>2, <1>3, <1>4 DEF CatalogInv

LEMMA ReadsTyped ==
    ASSUME CatalogInv, NEW i \in Slot, NEW w \in Workflow, NEW r \in Run, ReadsWorkflow(i, w, r)
    PROVE  /\ CatalogInv' /\ \A j \in Slot \ {i} : call'[j] = call[j]
           /\ call'[i].op = "start" /\ call'[i].pc = "org" /\ call'[i].flow = w
           /\ call'[i].doc = flow[w] /\ call'[i].run = r /\ flow[w] \in Doc
<1> DEFINE N == [Idle EXCEPT !.op = "start", !.pc = "org", !.flow = w, !.doc = flow[w], !.run = r]
<1>1. flow[w] \in Doc /\ flow[w] # NoDoc
  BY FlowFields DEF ReadsWorkflow
<1>2. N \in Call
  BY <1>1, AtRest DEF Call
<1>3. N.op = "start" /\ N.pc = "org" /\ N.flow = w /\ N.doc = flow[w] /\ N.run = r /\ N.from = NoRun
  BY DEF Idle
<1>4. call' = [call EXCEPT ![i] = N]
        /\ UNCHANGED <<scope, flow, edition, run, action, org, began, vetted, stored, disturbed>>
  BY DEF ReadsWorkflow, Begin
<1> HIDE DEF N
<1>5. CatalogInv' /\ call'[i] = N /\ \A j \in Slot \ {i} : call'[j] = call[j]
  BY <1>1, <1>2, <1>3, <1>4, HoldsTyped
<1>6. QED  BY <1>1, <1>3, <1>5

LEMMA ResumesTyped ==
    ASSUME CatalogInv, NEW i \in Slot, NEW old \in Run, NEW r \in Run, ResumesException(i, old, r)
    PROVE  /\ CatalogInv' /\ \A j \in Slot \ {i} : call'[j] = call[j]
           /\ call'[i].op = "resume" /\ call'[i].pc = "begin" /\ call'[i].flow = run[old].flow
           /\ call'[i].doc = Resolved(run[old].flow, run[old].version)
           /\ call'[i].run = r /\ call'[i].from = old
           /\ old \in Started /\ run[old].flow \in Workflow /\ run[old].version \in Version
           /\ Resolved(run[old].flow, run[old].version) \in Doc
<1> DEFINE d == Resolved(run[old].flow, run[old].version)
           N == [Idle EXCEPT !.op = "resume", !.pc = "begin", !.flow = run[old].flow,
                             !.doc = d, !.run = r, !.from = old]
<1>1. old \in Started /\ run[old].flow \in Workflow /\ flow[run[old].flow] # NoDoc
        /\ run[old].version \in Version
  BY DEF ResumesException, Started, CatalogInv, Known, TypeOK, RunDoc
<1>2. d \in Doc
  BY <1>1, FlowFields
<1>3. N \in Call
  BY <1>1, <1>2, AtRest DEF Call
<1>4. N.op = "resume" /\ N.pc = "begin" /\ N.flow = run[old].flow /\ N.doc = d /\ N.run = r /\ N.from = old
  BY DEF Idle
<1>5. call' = [call EXCEPT ![i] = N]
        /\ UNCHANGED <<scope, flow, edition, run, action, org, began, vetted, stored, disturbed>>
  BY DEF ResumesException, Begin
<1> HIDE DEF N
<1>6. CatalogInv' /\ call'[i] = N /\ \A j \in Slot \ {i} : call'[j] = call[j]
  BY <1>1, <1>2, <1>3, <1>4, <1>5, HoldsTyped
<1>7. QED  BY <1>1, <1>2, <1>4, <1>6

(* The steps aside.  An invocation that ends is one of them. *)
LEMMA ReturnGoes ==
    ASSUME NEW i \in Slot, Return(i), call[i].pc \notin {"save", "record"}
    PROVE  Idle \in Call /\ Goes(i, Idle)
BY AtRest DEF Return, Goes, Idle

LEMMA ProposesTyped ==
    ASSUME CatalogInv, NEW a \in Action,
           \/ \E w \in Workflow : ProposesChange(a, w) \/ ProposesNew(a, w)
           \/ ProposesBranding(a)
    PROVE  CatalogInv' /\ Aside
<1>1. PICK w \in Workflow \cup {NoWorkflow}, d \in Doc \cup {NoDoc}, o \in OrgDoc :
         Proposes(a, w, d, o) /\ (w # NoWorkflow => d \in Doc)
  <2>1. ASSUME NEW w \in Workflow, ProposesChange(a, w)
        PROVE  \E d \in Doc : Proposes(a, w, d, AnyOrg)
    <3>1. PICK d \in CopilotTargets(flow[w]) : d.version \in Version /\ Proposes(a, w, d, AnyOrg)
      BY <2>1 DEF ProposesChange
    <3>2. flow[w] \in Doc
      BY <2>1, FlowFields DEF ProposesChange
    <3>3. d \in Doc
      BY <3>1, <3>2, DocFields DEF CopilotTargets, DraftFrom, Successor, Doc, Status
    <3>4. QED  BY <3>1, <3>3
  <2>2. ASSUME NEW w \in Workflow, ProposesNew(a, w)
        PROVE  \E d \in Doc : Proposes(a, w, d, AnyOrg)
    <3>1. PICK c \in Content :
             Proposes(a, w, [status |-> "draft", version |-> 1, content |-> c], AnyOrg)
      BY <2>2 DEF ProposesNew
    <3>2. [status |-> "draft", version |-> 1, content |-> c] \in Doc
      BY CatalogAssumption DEF Doc, Status, Version
    <3>3. QED  BY <3>1, <3>2
  <2>3. org \in OrgDoc
    BY DEF CatalogInv, TypeOK
  <2>4. QED  BY <2>1, <2>2, <2>3, AtRest DEF ProposesBranding
<1> DEFINE p == [status |-> "PENDING", flow |-> w, doc |-> d, org |-> o]
<1>2. p \in Proposal /\ p.flow = w /\ p.doc = d
  BY DEF Proposal
<1>3. action' = [action EXCEPT ![a] = p]
        /\ UNCHANGED <<scope, flow, edition, run, org, call, began, vetted, stored, disturbed>>
  BY <1>1 DEF Proposes
<1> HIDE DEF p
<1>4. action' \in [Action -> Proposal]
        /\ \A b \in Action : action'[b].flow # NoWorkflow => action'[b].doc \in Doc
  BY <1>1, <1>2, <1>3 DEF CatalogInv, TypeOK, Known
<1>5. Aside
  BY <1>3 DEF Aside
<1>6. QED  BY <1>3, <1>4, <1>5, AsideTyped DEF CatalogInv, TypeOK

LEMMA SettlesTyped ==
    ASSUME CatalogInv, NEW i \in Slot, SettlesAction(i) \/ Discards(i)
    PROVE  CatalogInv' /\ Aside
<1>1. call[i].action \in Action /\ Return(i)
  BY CallFields DEF SettlesAction, Discards, Shape
<1>2. PICK s \in {"APPLIED", "DISCARDED"} : action' = [action EXCEPT ![call[i].action].status = s]
  BY DEF SettlesAction, Discards
<1> DEFINE b == call[i].action
           p == [action[b] EXCEPT !.status = s]
<1>3. action \in [Action -> Proposal] /\ action[b] \in Proposal
  BY <1>1 DEF CatalogInv, TypeOK
<1>4. p \in Proposal /\ p.flow = action[b].flow /\ p.doc = action[b].doc
  BY <1>3 DEF Proposal
<1>5. action' \in [Action -> Proposal]
        /\ \A a \in Action : action'[a].flow = action[a].flow /\ action'[a].doc = action[a].doc
  <2>1. action' = [action EXCEPT ![b] = p]
    BY <1>2
  <2> HIDE DEF p, b
  <2>2. QED  BY <1>3, <1>4, <2>1
<1>6. Aside
  BY <1>1, ReturnGoes DEF SettlesAction, Discards, Aside
<1>7. org' \in OrgDoc /\ stored' \subseteq Action
  BY DEF SettlesAction, Discards, CatalogInv, TypeOK
<1>8. QED  BY <1>5, <1>6, <1>7, AsideTyped DEF CatalogInv, Known

(* An invocation that reads: what it begins with is no definition. *)
LEMMA BeginsAsideTyped ==
    ASSUME CatalogInv, NEW i \in Slot,
           \/ \E a \in Action : AppliesBranding(i, a) \/ ReadsForDiscard(i, a)
           \/ \E o \in OrgDoc : ReadsOrg(i, o)
    PROVE  CatalogInv' /\ Aside
<1>1. UNCHANGED <<scope, flow, edition, run, action, org, began, vetted, stored, disturbed>>
  BY DEF AppliesBranding, ReadsForDiscard, ReadsOrg
<1>8. call[i].pc = "idle"
  BY FreeIsIdle DEF AppliesBranding, ReadsForDiscard, ReadsOrg
<1>2. ASSUME NEW a \in Action, AppliesBranding(i, a) PROVE \E N \in Call : Goes(i, N)
  <2> DEFINE N == [Idle EXCEPT !.op = "apply", !.pc = "orgsave", !.org = action[a].org, !.action = a]
  <2>1. action[a].org \in OrgDoc
    BY DEF CatalogInv, TypeOK, Proposal
  <2>2. N \in Call
    BY <2>1, AtRest DEF Call
  <2>3. N.op = "apply" /\ N.pc = "orgsave" /\ N.action = a
    BY DEF Idle
  <2>4. call' = [call EXCEPT ![i] = N]
    BY <1>2 DEF AppliesBranding, Begin
  <2> HIDE DEF N
  <2>5. QED  BY <1>8, <2>2, <2>3, <2>4 DEF Goes, Shape
<1>3. ASSUME NEW a \in Action, ReadsForDiscard(i, a) PROVE \E N \in Call : Goes(i, N)
  <2> DEFINE N == [Idle EXCEPT !.op = "discard", !.pc = "discard", !.action = a]
  <2>1. N \in Call
    BY AtRest DEF Call
  <2>2. N.op = "discard" /\ N.pc = "discard" /\ N.action = a
    BY DEF Idle
  <2>3. call' = [call EXCEPT ![i] = N]
    BY <1>3 DEF ReadsForDiscard, Begin
  <2> HIDE DEF N
  <2>4. QED  BY <1>8, <2>1, <2>2, <2>3 DEF Goes, Shape
<1>4. ASSUME NEW o \in OrgDoc, ReadsOrg(i, o) PROVE \E N \in Call : Goes(i, N)
  <2> DEFINE N == [Idle EXCEPT !.op = "settings", !.pc = "orgsave", !.org = o]
  <2>1. N \in Call
    BY AtRest DEF Call
  <2>2. N.op = "settings" /\ N.pc = "orgsave"
    BY DEF Idle
  <2>3. call' = [call EXCEPT ![i] = N]
    BY <1>4 DEF ReadsOrg, Begin
  <2> HIDE DEF N
  <2>4. QED  BY <1>8, <2>1, <2>2, <2>3 DEF Goes, Shape
<1>5. \E N \in Call : Goes(i, N)
  BY <1>2, <1>3, <1>4
<1>6. Aside
  BY <1>1, <1>5 DEF Aside
<1>7. QED  BY <1>1, <1>6, AsideTyped DEF CatalogInv, TypeOK, Known

LEMMA SavesOrgTyped ==
    ASSUME CatalogInv, NEW i \in Slot, SavesOrg(i)
    PROVE  CatalogInv' /\ Aside
<1>1. \E N \in Call : Goes(i, N)
  <2>1. CASE call[i].op = "apply"
    <3> DEFINE N == [call[i] EXCEPT !.pc = "settle"]
    <3>1. N \in Call /\ N.pc = "settle" /\ N.op = "apply" /\ N.action \in Action
      BY <2>1, CallFields DEF Call, Shape
    <3>2. call' = [call EXCEPT ![i] = N]
      BY <2>1 DEF SavesOrg, AfterRecord
    <3> HIDE DEF N
    <3>3. QED  BY <3>1, <3>2 DEF SavesOrg, Goes, Shape
  <2>2. CASE call[i].op # "apply"
    BY <2>2, ReturnGoes DEF SavesOrg, AfterRecord, Return
  <2>3. QED  BY <2>1, <2>2
<1>2. Aside
  BY <1>1 DEF SavesOrg, Aside
<1>3. org' \in OrgDoc /\ stored' \subseteq Action
  BY CallFields DEF SavesOrg, Shape, CatalogInv, TypeOK
<1>4. QED  BY <1>2, <1>3, AsideTyped DEF SavesOrg, CatalogInv, TypeOK, Known

(* A start passes one gate and then the other, or is refused. *)
LEMMA GatesTyped ==
    ASSUME CatalogInv, NEW i \in Slot, GatesOnOrg(i) \/ CountsRuns(i) \/ PreflightRefuses(i)
    PROVE  CatalogInv' /\ Aside
<1>1. UNCHANGED <<scope, flow, edition, run, action, org, began, vetted, stored, disturbed>>
  BY DEF GatesOnOrg, CountsRuns, PreflightRefuses
<1>8. call[i].pc \in {"org", "count", "begin"}
  BY DEF GatesOnOrg, CountsRuns, PreflightRefuses
<1>2. ASSUME call' = [call EXCEPT ![i] = Idle] PROVE \E N \in Call : Goes(i, N)
  BY <1>2, <1>8, ReturnGoes DEF Return
<1>3. ASSUME GatesOnOrg(i), org.status = "active" PROVE \E N \in Call : Goes(i, N)
  <2> DEFINE N == [call[i] EXCEPT !.pc = "count", !.limit = org.limit]
  <2>1. org.limit \in Limits
    BY DEF CatalogInv, TypeOK, OrgDoc
  <2>2. N \in Call /\ N.pc = "count" /\ N.op = call[i].op /\ N.flow = call[i].flow
          /\ N.doc = call[i].doc /\ N.run = call[i].run /\ N.from = call[i].from
    BY <2>1, CallFields DEF Call
  <2>3. call' = [call EXCEPT ![i] = N]
    BY <1>3 DEF GatesOnOrg
  <2> HIDE DEF N
  <2>4. QED  BY <1>3, <2>2, <2>3, CallFields DEF GatesOnOrg, Goes, Shape, Holding
<1>4. ASSUME CountsRuns(i), BelowLimit(call[i].limit) PROVE \E N \in Call : Goes(i, N)
  <2> DEFINE N == [call[i] EXCEPT !.pc = "begin"]
  <2>1. N \in Call /\ N.pc = "begin" /\ N.op = call[i].op /\ N.flow = call[i].flow
          /\ N.doc = call[i].doc /\ N.run = call[i].run /\ N.from = call[i].from
    BY CallFields DEF Call
  <2>2. call' = [call EXCEPT ![i] = N]
    BY <1>4 DEF CountsRuns
  <2> HIDE DEF N
  <2>3. QED  BY <1>4, <2>1, <2>2, CallFields DEF CountsRuns, Goes, Shape, Holding
<1>5. \E N \in Call : Goes(i, N)
  BY <1>2, <1>3, <1>4 DEF GatesOnOrg, CountsRuns, PreflightRefuses, Return
<1>6. Aside
  BY <1>1, <1>5 DEF Aside
<1>7. QED  BY <1>1, <1>6, AsideTyped DEF CatalogInv, TypeOK, Known

(* Every step keeps the types and is of one of the kinds. *)
LEMMA StepKind == ASSUME CatalogInv, [Next]_vars PROVE CatalogInv' /\ Kinds
<1>1. ASSUME NEW i \in Slot, NEW w \in Workflow, NEW op \in {"edit", "impose", "apply"}, NEW d \in Doc,
             NEW a \in Action \cup {NoAction}, Starts(i, w, op, d, a)
      PROVE  CatalogInv' /\ Kinds
  BY <1>1, StartsTyped DEF Kinds
<1>2. ASSUME NEW i \in Slot, NEW w \in Workflow, NEW s \in Status, NEW c \in Content,
             EditsDraft(i, w, s, c) \/ CreatesDraft(i, w, s, c)
      PROVE  CatalogInv' /\ Kinds
  BY <1>1, <1>2, EditsDraftKind
<1>3. ASSUME NEW i \in Slot, NEW w \in Workflow, Publishes(i, w) \/ Unpublishes(i, w) \/ Archives(i, w)
      PROVE  CatalogInv' /\ Kinds
  BY <1>1, <1>3, PublishesKind
<1>4. ASSUME NEW i \in Slot, NEW w \in Workflow, NEW source \in Workflow, Duplicates(i, w, source)
      PROVE  CatalogInv' /\ Kinds
  BY <1>1, <1>4, DuplicatesKind
<1>5. ASSUME NEW i \in Slot, NEW w \in Workflow, NEW d \in Doc, StaffSaves(i, w, d)
      PROVE  CatalogInv' /\ Kinds
  BY <1>1, <1>5, StaffSavesKind
<1>6. ASSUME NEW i \in Slot, SavesWorkflow(i) \/ RecordsVersion(i) PROVE CatalogInv' /\ Kinds
  BY <1>6, SavesTyped, RecordsTyped DEF Kinds
<1>7. ASSUME NEW a \in Action, NEW w \in Workflow, ProposesChange(a, w) \/ ProposesNew(a, w)
      PROVE  CatalogInv' /\ Kinds
  BY <1>7, ProposesTyped DEF Kinds
<1>8. ASSUME NEW a \in Action, ProposesBranding(a) PROVE CatalogInv' /\ Kinds
  BY <1>8, ProposesTyped DEF Kinds
<1>9. ASSUME NEW i \in Slot, NEW a \in Action,
             AppliesWorkflow(i, a) \/ AppliesBranding(i, a) \/ ReadsForDiscard(i, a)
      PROVE  CatalogInv' /\ Kinds
  <2>1. CASE AppliesWorkflow(i, a)
    <3>1. action[a].flow \in Workflow /\ Starts(i, action[a].flow, "apply", action[a].doc, a)
      BY <2>1, AppliesKind
    <3>2. action[a].doc \in Doc
      BY <3>1 DEF Starts
    <3>3. QED  BY <1>1, <3>1, <3>2
  <2>2. CASE AppliesBranding(i, a) \/ ReadsForDiscard(i, a)
    BY <2>2, BeginsAsideTyped DEF Kinds
  <2>3. QED  BY <1>9, <2>1, <2>2
<1>10. ASSUME NEW i \in Slot, SettlesAction(i) \/ Discards(i) PROVE CatalogInv' /\ Kinds
  BY <1>10, SettlesTyped DEF Kinds
<1>11. ASSUME NEW i \in Slot, NEW o \in OrgDoc, ReadsOrg(i, o) PROVE CatalogInv' /\ Kinds
  BY <1>11, BeginsAsideTyped DEF Kinds
<1>12. ASSUME NEW i \in Slot, SavesOrg(i) PROVE CatalogInv' /\ Kinds
  BY <1>12, SavesOrgTyped DEF Kinds
<1>13. ASSUME NEW i \in Slot, GatesOnOrg(i) \/ CountsRuns(i) \/ PreflightRefuses(i)
       PROVE  CatalogInv' /\ Kinds
  BY <1>13, GatesTyped DEF Kinds
<1>14. ASSUME NEW i \in Slot, BeginsRun(i) \/ Dies(i) PROVE CatalogInv' /\ Kinds
  BY <1>14, BeginsTyped, DiesTyped DEF Kinds
<1>15. ASSUME NEW i \in Slot, NEW w \in Workflow, NEW r \in Run, ReadsWorkflow(i, w, r)
       PROVE  CatalogInv' /\ Kinds
  BY <1>15, ReadsTyped DEF Kinds
<1>16. ASSUME NEW i \in Slot, NEW old \in Run, NEW r \in Run, ResumesException(i, old, r)
       PROVE  CatalogInv' /\ Kinds
  BY <1>16, ResumesTyped DEF Kinds
<1>17. ASSUME NEW r \in Run, NEW s \in {"FAILED", "DONE"}, EndsRun(r, s) PROVE CatalogInv' /\ Kinds
  BY <1>17, EndsTyped DEF Kinds
<1>18. ASSUME UNCHANGED vars PROVE CatalogInv' /\ Kinds
  <2>1. Aside /\ UNCHANGED <<action, org, stored>>
    BY <1>18 DEF vars, Aside
  <2>2. QED  BY <2>1, AsideTyped DEF CatalogInv, TypeOK, Known, Kinds
<1>19. QED
  BY <1>2, <1>3, <1>4, <1>5, <1>6, <1>7, <1>8, <1>9, <1>10, <1>11, <1>12, <1>13, <1>14, <1>15,
     <1>16, <1>17, <1>18 DEF Next

LEMMA InitTyped == Init => CatalogInv
<1> SUFFICES ASSUME Init PROVE CatalogInv
  OBVIOUS
<1>1. TypeOK
  <2>1. NoRunYet \in RunDoc
    BY CatalogAssumption DEF NoRunYet, RunDoc, Version
  <2>2. [status |-> "NONE", flow |-> NoWorkflow, doc |-> NoDoc, org |-> AnyOrg] \in Proposal
    BY AtRest DEF Proposal
  <2>3. scope \in Scope
    BY ScopesAssumption DEF Init
  <2>4. QED  BY <2>1, <2>2, <2>3, AtRest DEF Init, TypeOK
<1>2. Shaped
  BY AtRest DEF Init, Shaped
<1>3. Known
  BY DEF Init, Known, Started, NoRunYet, Holding, Idle
<1>4. QED  BY <1>1, <1>2, <1>3 DEF CatalogInv

(* Definitions, runs, proposals and invocations are well typed; whoever    *)
(* begins a run holds a definition, and every run's workflow exists.       *)
THEOREM CatalogTyped == Spec => []CatalogInv
<1>1. CatalogInv /\ [Next]_vars => CatalogInv'
  BY StepKind
<1>2. QED  BY <1>1, InitTyped, PTL DEF Spec

(* Every document, record and invocation is of its kind, and versions stay *)
(* within the bound however edits overlap.                                 *)
THEOREM CatalogTypesHold == Spec => []TypeOK
<1>1. CatalogInv => TypeOK
  BY DEF CatalogInv
<1>2. QED  BY <1>1, CatalogTyped, PTL

(***************************************************************************)
(* Nothing unchecked is active                                             *)
(***************************************************************************)
(* A step that neither starts nor makes a first write leaves definitions   *)
(* alone, and who writes what.                                             *)
LEMMA NoNewWriter ==
    ASSUME CatalogInv, NEW i \in Slot, NEW N \in Call,
           \A j \in Slot \ {i} : call'[j] = call[j], call'[i] = N,
           N.pc \notin {"save", "record"}
    PROVE  \A j \in Slot, w \in Workflow :
              Writing(j, w)' => j # i /\ Writing(j, w) /\ call'[j] = call[j]
BY DEF Writing

LEMMA AsideWriters ==
    ASSUME CatalogInv, Aside
    PROVE  \A j \in Slot, w \in Workflow : Writing(j, w)' => Writing(j, w) /\ call'[j] = call[j]
<1>1. CASE call' = call
  BY <1>1 DEF Writing
<1>2. CASE call' # call
  <2>1. PICK i \in Slot, N \in Call : Goes(i, N)
    BY <1>2 DEF Aside
  <2>2. call'[i] = N /\ \A j \in Slot \ {i} : call'[j] = call[j]
    BY <2>1, Moves DEF Goes
  <2>3. QED  BY <2>1, <2>2, NoNewWriter DEF Goes
<1>3. QED  BY <1>1, <1>2

LEMMA VettingStep == ASSUME CatalogInv, Vetting, [Next]_vars PROVE Vetting'
<1>1. Kinds
  BY StepKind
<1>2. ASSUME flow' = flow, vetted \subseteq vetted',
             \A j \in Slot, w \in Workflow : Writing(j, w)' => Writing(j, w) /\ call'[j].doc = call[j].doc
      PROVE  Vetting'
  BY <1>2 DEF Vetting, ActiveWasVetted
<1>3. ASSUME NEW i \in Slot, NEW w \in Workflow, NEW op, NEW d \in Doc,
             NEW a \in Action \cup {NoAction}, Starts(i, w, op, d, a)
      PROVE  Vetting'
  <2>1. /\ call'[i].pc = "save" /\ call'[i].flow = w /\ call'[i].doc = d
        /\ \A j \in Slot \ {i} : call'[j] = call[j]
    BY <1>3, StartsTyped
  <2>2. flow' = flow /\ vetted \subseteq vetted' /\ (d.status = "active" => <<w, d.content>> \in vetted')
    BY <1>3 DEF Starts, StartsSaving
  <2>3. ASSUME NEW j \in Slot, NEW x \in Workflow, Writing(j, x)', call'[j].doc.status = "active"
        PROVE  <<x, call'[j].doc.content>> \in vetted'
    BY <2>1, <2>2, <2>3 DEF Vetting, Writing
  <2>4. QED  BY <2>2, <2>3 DEF Vetting, ActiveWasVetted
<1>4. ASSUME NEW i \in Slot, SavesWorkflow(i) PROVE Vetting'
  <2>1. /\ call'[i] = [call[i] EXCEPT !.pc = "record"] /\ \A j \in Slot \ {i} : call'[j] = call[j]
        /\ call[i].flow \in Workflow /\ flow'[call[i].flow] = call[i].doc
        /\ \A w \in Workflow \ {call[i].flow} : flow'[w] = flow[w]
    BY <1>4, SavesTyped
  <2>2. vetted' = vetted /\ Writing(i, call[i].flow)
    BY <1>4 DEF SavesWorkflow, Writing
  <2>3. call'[i].flow = call[i].flow /\ call'[i].doc = call[i].doc
    BY <2>1, CallFields DEF Call
  <2>4. ActiveWasVetted'
    BY <2>1, <2>2 DEF Vetting, ActiveWasVetted
  <2>5. ASSUME NEW j \in Slot, NEW w \in Workflow, Writing(j, w)', call'[j].doc.status = "active"
        PROVE  <<w, call'[j].doc.content>> \in vetted'
    BY <2>1, <2>2, <2>3, <2>5 DEF Vetting, Writing
  <2>6. QED  BY <2>4, <2>5 DEF Vetting
<1>5. ASSUME NEW i \in Slot, RecordsVersion(i) PROVE Vetting'
  <2>1. call'[i].pc \in {"idle", "settle"} /\ \A j \in Slot \ {i} : call'[j] = call[j]
    BY <1>5, RecordsTyped
  <2>2. QED  BY <1>2, <1>5, <2>1 DEF RecordsVersion, Writing
<1>6. ASSUME NEW i \in Slot, BeginsRun(i) \/ Dies(i) PROVE Vetting'
  <2>1. call'[i].pc = "idle" /\ \A j \in Slot \ {i} : call'[j] = call[j]
    BY <1>6, BeginsTyped, DiesTyped, IdleFields
  <2>2. QED  BY <1>2, <1>6, <2>1 DEF BeginsRun, Dies, Writing
<1>7. ASSUME NEW i \in Slot, NEW w \in Workflow, NEW r \in Run, ReadsWorkflow(i, w, r) PROVE Vetting'
  <2>1. call'[i].pc = "org" /\ \A j \in Slot \ {i} : call'[j] = call[j]
    BY <1>7, ReadsTyped
  <2>2. QED  BY <1>2, <1>7, <2>1 DEF ReadsWorkflow, Writing
<1>8. ASSUME NEW i \in Slot, NEW old \in Run, NEW r \in Run, ResumesException(i, old, r) PROVE Vetting'
  <2>1. call'[i].pc = "begin" /\ \A j \in Slot \ {i} : call'[j] = call[j]
    BY <1>8, ResumesTyped
  <2>2. QED  BY <1>2, <1>8, <2>1 DEF ResumesException, Writing
<1>9. ASSUME NEW r \in Run, NEW s \in {"FAILED", "DONE"}, EndsRun(r, s) PROVE Vetting'
  BY <1>2, <1>9 DEF EndsRun, Writing
<1>10. ASSUME Aside PROVE Vetting'
  BY <1>2, <1>10, AsideWriters DEF Aside
<1>11. QED  BY <1>1, <1>3, <1>4, <1>5, <1>6, <1>7, <1>8, <1>9, <1>10 DEF Kinds

(* Whatever stale copy, proposal or staff document is written in whatever  *)
(* order, no definition is active whose content was not checked.           *)
THEOREM OnlyVettedActive == Spec => []ActiveWasVetted
<1>1. Init => Vetting
  BY DEF Init, Vetting, ActiveWasVetted, Writing, Idle
<1>2. CatalogInv /\ Vetting /\ [Next]_vars => Vetting'
  BY VettingStep
<1>3. Vetting => ActiveWasVetted
  BY DEF Vetting
<1>4. QED  BY <1>1, <1>2, <1>3, CatalogTyped, PTL DEF Spec

(***************************************************************************)
(* Nothing reported applied is unstored                                    *)
(***************************************************************************)
LEMMA StoringStep == ASSUME CatalogInv, Storing, [Next]_vars PROVE Storing'
<1>1. ASSUME stored \subseteq stored', action' = action,
             \A j \in Slot : call'[j].pc = "settle" => call[j].pc = "settle" /\ call'[j].action = call[j].action
      PROVE  Storing'
  BY <1>1 DEF Storing, AppliedWasStored
<1>2. ASSUME NEW i \in Slot, NEW N, call' = [call EXCEPT ![i] = N], N.pc # "settle",
             stored \subseteq stored', action' = action
      PROVE  Storing'
  <2>1. \A j \in Slot : call'[j].pc = "settle" => call[j].pc = "settle" /\ call'[j].action = call[j].action
    BY <1>2 DEF CatalogInv, TypeOK
  <2>2. QED  BY <1>1, <1>2, <2>1
<1>3. ASSUME NEW i \in Slot, NEW w, NEW op, NEW d, NEW a, StartsSaving(i, op, w, d, a) PROVE Storing'
  <2> DEFINE N == [Idle EXCEPT !.op = op, !.pc = "save", !.flow = w, !.doc = d, !.action = a]
  <2>1. N.pc = "save"
    BY DEF Idle
  <2>2. call' = [call EXCEPT ![i] = N] /\ stored' = stored /\ action' = action
    BY <1>3 DEF StartsSaving, Begin
  <2> HIDE DEF N
  <2>3. QED  BY <1>2, <2>1, <2>2
<1>4. ASSUME NEW i \in Slot, call[i].pc \in {"record", "orgsave"}, RecordsVersion(i) \/ SavesOrg(i)
      PROVE  Storing'
  <2>1. CASE call[i].op = "apply"
    <3> DEFINE N == [call[i] EXCEPT !.pc = "settle"]
    <3>1. N.action = call[i].action
      BY CallFields DEF Call
    <3>2. call' = [call EXCEPT ![i] = N] /\ stored' = stored \cup {call[i].action} /\ action' = action
      BY <1>4, <2>1 DEF RecordsVersion, SavesOrg, AfterRecord
    <3> HIDE DEF N
    <3>3. call'[i] = N /\ \A j \in Slot \ {i} : call'[j] = call[j]
      BY <3>2 DEF CatalogInv, TypeOK
    <3>4. \A j \in Slot : call'[j].pc = "settle" => call'[j].action \in stored'
      BY <3>1, <3>2, <3>3 DEF Storing
    <3>5. QED  BY <3>2, <3>4 DEF Storing, AppliedWasStored
  <2>2. CASE call[i].op # "apply"
    <3>1. call' = [call EXCEPT ![i] = Idle] /\ stored' = stored /\ action' = action
      BY <1>4, <2>2 DEF RecordsVersion, SavesOrg, AfterRecord
    <3>2. QED  BY <1>2, <3>1, IdleFields
  <2>3. QED  BY <2>1, <2>2
<1>5. ASSUME NEW i \in Slot, SettlesAction(i) \/ Discards(i) PROVE Storing'
  <2>1. call'[i] = Idle /\ (\A j \in Slot \ {i} : call'[j] = call[j]) /\ stored' = stored
    BY <1>5, Returns DEF SettlesAction, Discards
  <2>2. \A j \in Slot : call'[j].pc = "settle" => call'[j].action \in stored'
    BY <2>1 DEF Storing, Idle
  <2>3. \E s \in {"APPLIED", "DISCARDED"} :
           /\ action' = [action EXCEPT ![call[i].action].status = s]
           /\ s = "APPLIED" => call[i].pc = "settle"
    BY <1>5 DEF SettlesAction, Discards
  <2>4. \A a \in Action : action'[a].status = "APPLIED" => a \in stored
    <3>1. \A a \in Action : action[a] \in Proposal
      BY DEF CatalogInv, TypeOK
    <3>2. QED  BY <2>3, <3>1 DEF Storing, AppliedWasStored, CatalogInv, TypeOK, Proposal
  <2>5. QED  BY <2>1, <2>2, <2>4 DEF Storing, AppliedWasStored
<1>6. ASSUME NEW a \in Action, NEW w, NEW d, NEW o, Proposes(a, w, d, o) PROVE Storing'
  <2>1. \A b \in Action : action'[b].status = "APPLIED" => action[b].status = "APPLIED"
    BY <1>6 DEF Proposes, CatalogInv, TypeOK
  <2>2. QED  BY <1>6, <2>1 DEF Proposes, Storing, AppliedWasStored
<1>7. ASSUME NEW i \in Slot, Return(i), stored' = stored, action' = action PROVE Storing'
  BY <1>2, <1>7, IdleFields DEF Return
<1>8. ASSUME NEW i \in Slot, NEW a \in Action, AppliesBranding(i, a) \/ ReadsForDiscard(i, a)
      PROVE  Storing'
  <2>1. \E N : /\ call' = [call EXCEPT ![i] = N] /\ N.pc # "settle"
               /\ stored' = stored /\ action' = action
    <3>1. /\ [Idle EXCEPT !.op = "apply", !.pc = "orgsave", !.org = action[a].org,
                          !.action = a].pc # "settle"
          /\ [Idle EXCEPT !.op = "discard", !.pc = "discard", !.action = a].pc # "settle"
      BY DEF Idle
    <3>2. QED  BY <1>8, <3>1 DEF AppliesBranding, ReadsForDiscard, Begin
  <2>2. QED  BY <1>2, <2>1
<1>9. ASSUME NEW i \in Slot, NEW o, ReadsOrg(i, o) PROVE Storing'
  <2>1. \E N : /\ call' = [call EXCEPT ![i] = N] /\ N.pc # "settle"
               /\ stored' = stored /\ action' = action
    <3>1. [Idle EXCEPT !.op = "settings", !.pc = "orgsave", !.org = o].pc # "settle"
      BY DEF Idle
    <3>2. QED  BY <1>9, <3>1 DEF ReadsOrg, Begin
  <2>2. QED  BY <1>2, <2>1
<1>10. ASSUME NEW i \in Slot, SavesWorkflow(i) \/ GatesOnOrg(i) \/ CountsRuns(i) PROVE Storing'
  <2>1. \E N : /\ call' = [call EXCEPT ![i] = N] /\ N.pc # "settle"
               /\ stored' = stored /\ action' = action
    <3>1. call[i] \in Call
      BY CallFields
    <3>2. CASE SavesWorkflow(i)
      <4>1. call' = [call EXCEPT ![i] = [call[i] EXCEPT !.pc = "record"]]
        BY <3>2 DEF SavesWorkflow
      <4>2. [call[i] EXCEPT !.pc = "record"].pc # "settle"
        BY <3>1 DEF Call
      <4>3. QED  BY <3>2, <4>1, <4>2 DEF SavesWorkflow
    <3>3. CASE GatesOnOrg(i) \/ CountsRuns(i)
      <4>1. \A l : [call[i] EXCEPT !.pc = "count", !.limit = l].pc # "settle"
        BY <3>1 DEF Call
      <4>2. [call[i] EXCEPT !.pc = "begin"].pc # "settle" /\ Idle.pc # "settle"
        BY <3>1 DEF Call, Idle
      <4>3. stored' = stored /\ action' = action
        BY <3>3 DEF GatesOnOrg, CountsRuns
      <4>4. \/ call' = [call EXCEPT ![i] = Idle]
            \/ call' = [call EXCEPT ![i] = [call[i] EXCEPT !.pc = "count", !.limit = org.limit]]
            \/ call' = [call EXCEPT ![i] = [call[i] EXCEPT !.pc = "begin"]]
        BY <3>3 DEF GatesOnOrg, CountsRuns
      <4>5. QED  BY <4>1, <4>2, <4>3, <4>4
    <3>4. QED  BY <1>10, <3>2, <3>3
  <2>2. QED  BY <1>2, <2>1
<1>11. ASSUME NEW i \in Slot, NEW w, NEW r, ReadsWorkflow(i, w, r) \/ ResumesException(i, w, r)
       PROVE  Storing'
  <2>1. \E N : /\ call' = [call EXCEPT ![i] = N] /\ N.pc # "settle"
               /\ stored' = stored /\ action' = action
    <3>1. /\ [Idle EXCEPT !.op = "start", !.pc = "org", !.flow = w, !.doc = flow[w],
                          !.run = r].pc # "settle"
          /\ [Idle EXCEPT !.op = "resume", !.pc = "begin", !.flow = run[w].flow,
                          !.doc = Resolved(run[w].flow, run[w].version), !.run = r,
                          !.from = w].pc # "settle"
      BY DEF Idle
    <3>2. QED  BY <1>11, <3>1 DEF ReadsWorkflow, ResumesException, Begin
  <2>2. QED  BY <1>2, <2>1
<1>12. ASSUME UNCHANGED <<stored, action, call>> PROVE Storing'
  BY <1>1, <1>12
<1>13. CASE Next
  <2>1. ASSUME NEW i \in Slot, SavesOrg(i) \/ RecordsVersion(i) PROVE Storing'
    BY <1>4, <2>1 DEF SavesOrg, RecordsVersion
  <2>2. ASSUME NEW i \in Slot, PreflightRefuses(i) \/ BeginsRun(i) \/ Dies(i) PROVE Storing'
    BY <1>7, <2>2 DEF PreflightRefuses, BeginsRun, Dies
  <2>3. ASSUME NEW a \in Action, NEW w \in Workflow,
               ProposesChange(a, w) \/ ProposesNew(a, w) \/ ProposesBranding(a)
        PROVE  Storing'
    BY <1>6, <2>3 DEF ProposesChange, ProposesNew, ProposesBranding
  <2>11. ASSUME NEW a \in Action, ProposesBranding(a) PROVE Storing'
    BY <1>6, <2>11 DEF ProposesBranding
  <2>4. ASSUME NEW i \in Slot, NEW w \in Workflow, NEW s \in Status, NEW c \in Content,
               EditsDraft(i, w, s, c) \/ CreatesDraft(i, w, s, c)
        PROVE  Storing'
    BY <1>3, <2>4 DEF EditsDraft, CreatesDraft
  <2>5. ASSUME NEW i \in Slot, NEW w \in Workflow, Publishes(i, w) \/ Unpublishes(i, w) \/ Archives(i, w)
        PROVE  Storing'
    BY <1>3, <2>5 DEF Publishes, Unpublishes, Archives
  <2>6. ASSUME NEW i \in Slot, NEW w \in Workflow, NEW source \in Workflow, Duplicates(i, w, source)
        PROVE  Storing'
    BY <1>3, <2>6 DEF Duplicates
  <2>7. ASSUME NEW i \in Slot, NEW w \in Workflow, NEW d \in Doc, StaffSaves(i, w, d) PROVE Storing'
    BY <1>3, <2>7 DEF StaffSaves
  <2>8. ASSUME NEW i \in Slot, NEW a \in Action, AppliesWorkflow(i, a) PROVE Storing'
    BY <1>3, <2>8 DEF AppliesWorkflow
  <2>9. ASSUME NEW r \in Run, NEW s, EndsRun(r, s) PROVE Storing'
    BY <1>12, <2>9 DEF EndsRun
  <2>10. QED
    BY <1>5, <1>8, <1>9, <1>10, <1>11, <1>13, <2>1, <2>2, <2>3, <2>11, <2>4, <2>5, <2>6, <2>7, <2>8,
       <2>9 DEF Next
<1>14. QED  BY <1>12, <1>13 DEF vars

(* However often it is applied, discarded or cut short, a proposal is      *)
(* reported applied only when its document was written.                    *)
THEOREM AppliedAreStored == Spec => []AppliedWasStored
<1>1. Init => Storing
  BY DEF Init, Storing, AppliedWasStored, Idle
<1>2. CatalogInv /\ Storing /\ [Next]_vars => Storing'
  BY StoringStep
<1>3. Storing => AppliedWasStored
  BY DEF Storing
<1>4. QED  BY <1>1, <1>2, <1>3, CatalogTyped, PTL DEF Spec

(***************************************************************************)
(* The limit on runs                                                       *)
(***************************************************************************)
LEMMA Countable ==
    /\ IsFiniteSet(Live) /\ IsFiniteSet(Gated) /\ IsFiniteSet(Passed) /\ IsFiniteSet(Slot)
    /\ Cardinality(Live) \in Nat /\ Cardinality(Gated) \in Nat /\ Cardinality(Passed) \in Nat
    /\ Cardinality(Slot) \in Nat /\ Cardinality(Slot) >= 1
    /\ Cardinality(Gated) <= Cardinality(Live) /\ Cardinality(Passed) <= Cardinality(Slot)
<1>1. Live \subseteq Run /\ Gated \subseteq Live /\ Passed \subseteq Slot
  BY DEF Live, Gated, Passed
<1>2. IsFiniteSet(Live) /\ IsFiniteSet(Gated) /\ IsFiniteSet(Passed) /\ IsFiniteSet(Slot)
  BY <1>1, FS_Subset, CatalogAssumption
<1>3. Cardinality(Gated) <= Cardinality(Live) /\ Cardinality(Passed) <= Cardinality(Slot)
  BY <1>1, <1>2, FS_Subset
<1>4. Cardinality(Slot) # 0
  BY <1>2, FS_EmptySet, CatalogAssumption
<1>5. QED  BY <1>2, <1>3, <1>4, FS_CardinalityType

(* The sum only matters when it grows. *)
LEMMA Shrinks == ASSUME Gating, Gated' \subseteq Gated, Passed' \subseteq Passed PROVE Gating'
<1>1. Cardinality(Gated') <= Cardinality(Gated) /\ Cardinality(Passed') <= Cardinality(Passed)
  BY Countable, FS_Subset
<1>2. IsFiniteSet(Gated') /\ IsFiniteSet(Passed')
  BY Countable, FS_Subset
<1>3. Cardinality(Gated') \in Nat /\ Cardinality(Passed') \in Nat
  BY <1>2, FS_CardinalityType
<1>4. QED  BY <1>1, <1>3, Countable, CatalogAssumption DEF Gating

(* A start that was counted leaves its place to the run it begins. *)
LEMMA GatingBegins == ASSUME CatalogInv, Gating, NEW i \in Slot, BeginsRun(i) PROVE Gating'
<1> DEFINE r == call[i].run
<1>1. /\ call'[i] = Idle /\ \A j \in Slot \ {i} : call'[j] = call[j]
      /\ r \in Run /\ \A q \in Run \ {r} : run'[q] = run[q]
      /\ run'[r].gated = (call[i].op = "start")
  <2>1. /\ call'[i] = Idle /\ \A j \in Slot \ {i} : call'[j] = call[j]
        /\ r \in Run /\ \A q \in Run \ {r} : run'[q] = run[q]
        /\ run'[r] = [flow |-> call[i].flow, version |-> call[i].doc.version, status |-> "LIVE",
                      gated |-> call[i].op = "start", from |-> call[i].from]
    BY BeginsTyped
  <2> HIDE DEF r
  <2>2. run'[r].gated = (call[i].op = "start")
    BY <2>1
  <2>3. QED  BY <2>1, <2>2
<1>2. Passed' = Passed \ {i}
  BY <1>1, IdleFields DEF Passed
<1>3. CASE call[i].op = "start"
  <2>1. i \in Passed
    BY <1>3 DEF BeginsRun, Passed
  <2>2. Cardinality(Passed') = Cardinality(Passed) - 1 /\ Cardinality(Passed') \in Nat
    BY <1>2, <2>1, Countable, FS_RemoveElement, FS_CardinalityType
  <2>3. Gated' \subseteq Gated \cup {r}
    BY <1>1 DEF Gated, Live
  <2>4. Cardinality(Gated') <= Cardinality(Gated) + 1 /\ Cardinality(Gated') \in Nat
    <3> HIDE DEF r
    <3>1. IsFiniteSet(Gated \cup {r}) /\ Cardinality(Gated \cup {r}) <= Cardinality(Gated) + 1
            /\ Cardinality(Gated \cup {r}) \in Nat
      <4>1. IsFiniteSet(Gated) /\ Cardinality(Gated) \in Nat
        BY Countable
      <4>2. /\ IsFiniteSet(Gated \cup {r})
            /\ Cardinality(Gated \cup {r}) = IF r \in Gated THEN Cardinality(Gated)
                                             ELSE Cardinality(Gated) + 1
        BY <4>1, FS_AddElement
      <4>3. QED  BY <4>1, <4>2
    <3>2. IsFiniteSet(Gated') /\ Cardinality(Gated') <= Cardinality(Gated \cup {r})
      BY <2>3, <3>1, FS_Subset
    <3>3. Cardinality(Gated') \in Nat
      BY <3>2, FS_CardinalityType
    <3>4. QED  BY <3>1, <3>2, <3>3, Countable
  <2>5. QED  BY <2>2, <2>4, Countable, CatalogAssumption DEF Gating
<1>4. CASE call[i].op # "start"
  <2>1. Gated' \subseteq Gated
    BY <1>1, <1>4 DEF Gated, Live
  <2>2. QED  BY <1>2, <2>1, Shrinks
<1>5. QED  BY <1>3, <1>4

(* A start that is counted found fewer live runs than the limit, and no    *)
(* more starts have passed than there are invocations.                     *)
LEMMA GatingCounts ==
    ASSUME CatalogInv, NEW i \in Slot, BelowLimit(call[i].limit), Gated' = Gated
    PROVE  Gating'
<1> SUFFICES ASSUME 0 \notin Limits
             PROVE  Cardinality(Gated') + Cardinality(Passed') <= MaxLimit + Cardinality(Slot) - 1
  BY DEF Gating
<1>1. call[i].limit \in Limits /\ call[i].limit \in 0..MaxLimit
  BY CallFields, CatalogAssumption
<1>2. Cardinality(Live) < call[i].limit
  BY <1>1 DEF BelowLimit
<1>3. IsFiniteSet(Passed') /\ Cardinality(Passed') <= Cardinality(Slot)
  <2>1. Passed' \subseteq Slot
    BY DEF Passed
  <2>2. QED  BY <2>1, Countable, FS_Subset
<1>4. Cardinality(Passed') \in Nat
  BY <1>3, FS_CardinalityType
<1>5. QED  BY <1>1, <1>2, <1>3, <1>4, Countable, CatalogAssumption

LEMMA GatingStep == ASSUME CatalogInv, Gating, [Next]_vars PROVE Gating'
<1>1. Kinds
  BY StepKind
<1>2. ASSUME NEW i \in Slot, run' = run, \A j \in Slot \ {i} : call'[j] = call[j],
             call'[i].pc # "begin" \/ call'[i].op # "start"
      PROVE  Gating'
  <2>1. Gated' \subseteq Gated /\ Passed' \subseteq Passed
    BY <1>2 DEF Gated, Live, Passed
  <2>2. QED  BY <2>1, Shrinks
<1>3. ASSUME NEW i \in Slot, NEW w \in Workflow, NEW op, NEW d \in Doc,
             NEW a \in Action \cup {NoAction}, Starts(i, w, op, d, a)
      PROVE  Gating'
  BY <1>2, <1>3, StartsTyped DEF Starts, StartsSaving
<1>4. ASSUME NEW i \in Slot, SavesWorkflow(i) PROVE Gating'
  <2>1. call'[i].pc = "record"
    BY <1>4, SavesTyped, CallFields DEF Call
  <2>2. QED  BY <1>2, <1>4, <2>1, SavesTyped DEF SavesWorkflow
<1>5. ASSUME NEW i \in Slot, RecordsVersion(i) PROVE Gating'
  BY <1>2, <1>5, RecordsTyped DEF RecordsVersion
<1>6. ASSUME NEW i \in Slot, Dies(i) PROVE Gating'
  BY <1>2, <1>6, DiesTyped, IdleFields DEF Dies
<1>7. ASSUME NEW i \in Slot, NEW w \in Workflow, NEW r \in Run, ReadsWorkflow(i, w, r) PROVE Gating'
  BY <1>2, <1>7, ReadsTyped DEF ReadsWorkflow
<1>8. ASSUME NEW i \in Slot, NEW old \in Run, NEW r \in Run, ResumesException(i, old, r) PROVE Gating'
  BY <1>2, <1>8, ResumesTyped DEF ResumesException
<1>9. ASSUME NEW r \in Run, NEW s \in {"FAILED", "DONE"}, EndsRun(r, s) PROVE Gating'
  <2>1. run'[r].status = s
    BY <1>9 DEF EndsRun, CatalogInv, TypeOK, RunDoc
  <2>2. Gated' \subseteq Gated
    BY <1>9, <2>1, EndsTyped DEF Gated, Live
  <2>3. Passed' = Passed
    BY <1>9 DEF EndsRun, Passed
  <2>4. QED  BY <2>2, <2>3, Shrinks
<1>10. ASSUME Aside PROVE Gating'
  <2>1. Gated' = Gated
    BY <1>10 DEF Aside, Gated, Live
  <2>2. CASE call' = call
    BY <2>1, <2>2, Shrinks DEF Passed
  <2>3. CASE call' # call
    <3>1. PICK i \in Slot, N \in Call : Goes(i, N)
      BY <1>10, <2>3 DEF Aside
    <3>2. call'[i] = N /\ \A j \in Slot \ {i} : call'[j] = call[j]
      BY <3>1, Moves DEF Goes
    <3>3. CASE N.pc = "begin"
      BY <2>1, <3>1, <3>3, GatingCounts DEF Goes
    <3>4. CASE N.pc # "begin"
      BY <1>2, <1>10, <3>2, <3>4 DEF Aside
    <3>5. QED  BY <3>3, <3>4
  <2>4. QED  BY <2>2, <2>3
<1>11. QED  BY <1>1, <1>3, <1>4, <1>5, <1>6, <1>7, <1>8, <1>9, <1>10, GatingBegins DEF Kinds

(* However starts and resumptions interleave with the runs that end and    *)
(* with changes of the limit, the runs past the gate exceed it by fewer    *)
(* than there are invocations.                                             *)
THEOREM GateBounded == Spec => []GateBound
<1>1. Init => Gating
  <2> SUFFICES ASSUME Init PROVE Gating
    OBVIOUS
  <2>1. Gated = {} /\ Passed = {}
    BY IdleFields DEF Init, Gated, Live, Passed, NoRunYet
  <2>2. QED  BY <2>1, Countable, FS_EmptySet, CatalogAssumption DEF Gating
<1>2. CatalogInv /\ Gating /\ [Next]_vars => Gating'
  BY GatingStep
<1>3. Gating => GateBound
  <2> SUFFICES ASSUME Gating, 0 \notin Limits
               PROVE  Cardinality(Gated) <= MaxLimit + Cardinality(Slot) - 1
    BY DEF GateBound, Gated
  <2>1. Cardinality(Gated) + Cardinality(Passed) <= MaxLimit + Cardinality(Slot) - 1
    BY DEF Gating
  <2>2. QED  BY <2>1, Countable, CatalogAssumption
<1>4. QED  BY <1>1, <1>2, <1>3, CatalogTyped, PTL DEF Spec

(***************************************************************************)
(* A run keeps its definition                                              *)
(***************************************************************************)
(* Up to its last version an undisturbed workflow resolves to what is on   *)
(* record; the last is on record too unless its writer is about to file it. *)
LEMMA OnRecord ==
    ASSUME CatalogInv, Filed, NEW w \in Workflow, Orderly(w), flow[w] # NoDoc,
           NEW v \in Version, v <= Latest(w)
    PROVE  Pins(w, Resolved(w, v)) /\ Resolved(w, v).version = v /\ Resolved(w, v) \in Doc
<1>1. Resolved(w, v) \in Doc /\ flow[w] \in Doc /\ v \in Nat /\ Latest(w) \in Nat
  BY FlowFields, VersionFields
<1>2. CASE edition[w][v] # NoDoc
  BY <1>1, <1>2 DEF Filed, Resolved, Pins
<1>3. CASE edition[w][v] = NoDoc
  <2>1. v = Latest(w)
    BY <1>1, <1>3 DEF Orderly
  <2>2. Resolved(w, v) = flow[w] /\ flow[w].version = v
    BY <1>3, <2>1 DEF Resolved, Latest
  <2>3. QED  BY <1>1, <1>3, <2>1, <2>2 DEF Pins, Resolved
<1>4. QED  BY <1>2, <1>3

(* The document in force is the last version. *)
LEMMA LastPins ==
    ASSUME CatalogInv, NEW w \in Workflow, Orderly(w), flow[w] # NoDoc
    PROVE  Pins(w, flow[w]) /\ Latest(w) \in Version
<1>1. flow[w] \in Doc /\ Latest(w) = flow[w].version /\ Latest(w) \in Version /\ Latest(w) \in Nat
  BY FlowFields, DocFields DEF Latest
<1>2. edition[w][Latest(w)] \in {NoDoc, flow[w]}
  BY DEF Orderly
<1>3. QED  BY <1>1, <1>2 DEF Pins, Resolved

(* Where nothing is written, and nobody begins or stops writing, all stays *)
(* in order.                                                               *)
LEMMA OrderlyKept ==
    ASSUME NEW w \in Workflow, Orderly(w), flow'[w] = flow[w], edition'[w] = edition[w],
           \A j \in Slot : (Writing(j, w)' <=> Writing(j, w)) /\ (Writing(j, w) => call'[j] = call[j])
    PROVE  Orderly(w)'
<1>1. Latest(w)' = Latest(w)
  BY DEF Latest
<1>2. ASSUME NEW j \in Slot, Writing(j, w)'
      PROVE  /\ call'[j].op = "edit"
             /\ \A k \in Slot : Writing(k, w)' => k = j
             /\ call'[j].pc = "save" => call'[j].doc.version = Latest(w)' + 1
             /\ call'[j].pc = "record" => call'[j].doc = flow'[w] /\ edition'[w][Latest(w)'] = NoDoc
  BY <1>1, <1>2 DEF Orderly
<1>3. /\ \A v \in Version : v > Latest(w)' => edition'[w][v] = NoDoc
      /\ \A v \in Version : v < Latest(w)' => edition'[w][v] # NoDoc
  BY <1>1 DEF Orderly
<1>4. flow'[w] # NoDoc => \/ edition'[w][Latest(w)'] = flow'[w]
                          \/ \E j \in Slot : Writing(j, w)' /\ call'[j].pc = "record"
  BY <1>1 DEF Orderly
<1>5. QED  BY <1>2, <1>3, <1>4 DEF Orderly

(* A step that writes no definition keeps every pin, if it keeps the       *)
(* undisturbed workflows in order and what starts hold can be found.       *)
LEMMA PinningKept ==
    ASSUME CatalogInv, CatalogInv', Pinning, UNCHANGED <<flow, edition, run, began>>,
           disturbed \subseteq disturbed',
           \A w \in Workflow \ disturbed' : Orderly(w)',
           \A i \in Slot : Holding(i)' /\ call'[i].flow \notin disturbed' =>
              Pins(call'[i].flow, call'[i].doc)
    PROVE  Pinning'
<1>1. Filed'
  BY DEF Pinning, Filed
<1>3. ASSUME NEW i \in Slot, Holding(i)', call'[i].flow \notin disturbed'
      PROVE  Pins(call[i].flow, call[i].doc)'
  BY <1>3 DEF Pins, Latest, Resolved
<1>4. ASSUME NEW r \in Started', run'[r].flow \notin disturbed'
      PROVE  /\ run'[r].version <= Latest(run[r].flow)'
             /\ Resolved(run[r].flow, run[r].version)'.content = began'[r]
  BY <1>4 DEF Pinning, Started, Latest, Resolved
<1>5. QED  BY <1>1, <1>3, <1>4 DEF Pinning

(* A save begins: of an undisturbed workflow it is the only one. *)
LEMMA PinningStarts ==
    ASSUME CatalogInv, Pinning, NEW i \in Slot, NEW w \in Workflow, NEW op, NEW d \in Doc, NEW a,
           Starts(i, w, op, d, a)
    PROVE  Pinning'
<1>1. /\ CatalogInv' /\ call'[i].pc = "save" /\ call'[i].flow = w /\ call'[i].doc = d
      /\ call'[i].op = op /\ \A j \in Slot \ {i} : call'[j] = call[j]
  BY StartsTyped
<1>2. UNCHANGED <<flow, edition, run, began>> /\ call[i].pc = "idle"
      /\ disturbed' = disturbed \cup IF BusyOn(w) \/ op # "edit" THEN {w} ELSE {}
  BY DEF Starts, StartsSaving
<1>3. ASSUME NEW x \in Workflow, x \notin disturbed' PROVE Orderly(x)'
  <2>1. Orderly(x)
    BY <1>2, <1>3 DEF Pinning
  <2>2. CASE x # w
    <3>1. \A j \in Slot : (Writing(j, x)' <=> Writing(j, x)) /\ (Writing(j, x) => call'[j] = call[j])
      BY <1>1, <1>2, <2>2 DEF Writing
    <3>2. QED  BY <1>2, <2>1, <3>1, OrderlyKept
  <2>3. CASE x = w
    <3>1. op = "edit" /\ ~BusyOn(w) /\ d.version = Latest(w) + 1
      BY <1>2, <1>3, <2>3 DEF Starts
    <3>2. \A j \in Slot : ~Writing(j, w)
      BY <3>1, CatalogAssumption DEF BusyOn, Editing, Writing
    <3>3. \A j \in Slot : Writing(j, w)' => j = i
      BY <1>1, <3>2 DEF Writing
    <3>4. Latest(w)' = Latest(w)
      BY <1>2 DEF Latest
    <3>5. flow[w] # NoDoc => edition[w][Latest(w)] = flow[w]
      BY <2>1, <2>3, <3>2 DEF Orderly
    <3>6. /\ \A v \in Version : v > Latest(w) => edition[w][v] = NoDoc
          /\ \A v \in Version : v < Latest(w) => edition[w][v] # NoDoc
      BY <2>1, <2>3 DEF Orderly
    <3>7. Orderly(w)'
      BY <1>1, <1>2, <3>1, <3>3, <3>4, <3>5, <3>6 DEF Orderly
    <3>8. QED  BY <2>3, <3>7
  <2>4. QED  BY <2>2, <2>3
<1>4. \A j \in Slot : Holding(j)' /\ call'[j].flow \notin disturbed' => Pins(call'[j].flow, call'[j].doc)
  BY <1>1, <1>2 DEF Pinning, Holding
<1>5. QED  BY <1>1, <1>2, <1>3, <1>4, PinningKept

(* The first write of an undisturbed save: the next version comes into     *)
(* force, every one before it is on record.                                *)
LEMMA PinningSaves ==
    ASSUME CatalogInv, Pinning, NEW i \in Slot, NEW w \in Workflow, NEW d \in Doc,
           SavesWorkflow(i), call[i].flow = w, call[i].doc = d
    PROVE  Pinning'
<1>1. /\ CatalogInv' /\ call'[i] = [call[i] EXCEPT !.pc = "record"]
      /\ \A j \in Slot \ {i} : call'[j] = call[j]
      /\ flow'[w] = d
      /\ \A x \in Workflow \ {w} : flow'[x] = flow[x]
  BY SavesTyped
<1>2. UNCHANGED <<edition, run, began, disturbed>> /\ Writing(i, w) /\ call[i].pc = "save"
  BY DEF SavesWorkflow, Writing
<1>3. call'[i].pc = "record" /\ call'[i].flow = w /\ call'[i].doc = d /\ call'[i].op = call[i].op
  BY <1>1, CallFields DEF Call
<1>4. ASSUME w \notin disturbed
      PROVE  /\ Orderly(w)' /\ Latest(w)' = Latest(w) + 1 /\ Latest(w) \in Nat
             /\ \A v \in Version : v <= Latest(w) => edition[w][v] # NoDoc /\ edition'[w][v] = edition[w][v]
  <2>1. Orderly(w)
    BY <1>1, <1>4 DEF Pinning
  <2>2. call[i].op = "edit" /\ d.version = Latest(w) + 1 /\ \A j \in Slot : Writing(j, w) => j = i
    BY <1>1, <1>2, <2>1 DEF Orderly
  <2>3. Latest(w)' = Latest(w) + 1 /\ d # NoDoc /\ d.version \in Version /\ Latest(w) \in Nat
    BY <1>1, <2>2, DocFields, FlowFields DEF Latest
  <2>4. \A v \in Version : v <= Latest(w) => edition[w][v] # NoDoc
    <3> SUFFICES ASSUME NEW v \in Version, v <= Latest(w) PROVE edition[w][v] # NoDoc
      OBVIOUS
    <3>1. v \in Nat /\ v >= 1
      BY VersionFields
    <3>2. flow[w] # NoDoc
      BY <3>1 DEF Latest
    <3>3. edition[w][Latest(w)] = flow[w]
      BY <1>2, <2>1, <2>2, <3>2 DEF Orderly
    <3>4. CASE v = Latest(w)
      BY <3>2, <3>3, <3>4
    <3>5. CASE v < Latest(w)
      BY <2>1, <3>5 DEF Orderly
    <3>6. QED  BY <2>3, <3>1, <3>4, <3>5
  <2>5. \A v \in Version : v > Latest(w) => edition[w][v] = NoDoc
    BY <2>1 DEF Orderly
  <2>6. \A j \in Slot : Writing(j, w)' => j = i
    BY <1>1, <2>2 DEF Writing
  <2>7. edition'[w][Latest(w)'] = NoDoc
    BY <1>2, <2>2, <2>3, <2>5
  <2>8. /\ \A v \in Version : v > Latest(w)' => edition'[w][v] = NoDoc
        /\ \A v \in Version : v < Latest(w)' => edition'[w][v] # NoDoc
    BY <1>2, <2>3, <2>4, <2>5, VersionFields
  <2>9. Writing(i, w)'
    BY <1>3 DEF Writing
  <2>10. Orderly(w)'
    BY <1>1, <1>3, <2>2, <2>6, <2>7, <2>8, <2>9 DEF Orderly
  <2>11. QED  BY <1>2, <2>3, <2>4, <2>10
<1>5. ASSUME NEW x \in Workflow, x \notin disturbed' PROVE Orderly(x)'
  <2>1. CASE x = w
    BY <1>2, <1>4, <1>5, <2>1
  <2>2. CASE x # w
    <3>1. \A j \in Slot : (Writing(j, x)' <=> Writing(j, x)) /\ (Writing(j, x) => call'[j] = call[j])
      BY <1>1, <1>2, <1>3, <2>2 DEF Writing
    <3>2. Orderly(x)
      BY <1>2, <1>5 DEF Pinning
    <3>3. QED  BY <1>1, <1>2, <2>2, <3>1, <3>2, OrderlyKept
  <2>3. QED  BY <2>1, <2>2
<1>6. \A x \in Workflow : x \notin disturbed =>
         \A v \in Version : v <= Latest(x) => v <= Latest(x)' /\ Resolved(x, v)' = Resolved(x, v)
  <2> SUFFICES ASSUME NEW x \in Workflow, x \notin disturbed, NEW v \in Version, v <= Latest(x)
               PROVE  v <= Latest(x)' /\ Resolved(x, v)' = Resolved(x, v)
    OBVIOUS
  <2>1. CASE x = w
    BY <1>4, <2>1, VersionFields DEF Resolved
  <2>2. CASE x # w
    BY <1>1, <1>2, <2>2 DEF Resolved, Latest
  <2>3. QED  BY <2>1, <2>2
<1>7. ASSUME NEW j \in Slot, Holding(j)', call'[j].flow \notin disturbed'
      PROVE  Pins(call[j].flow, call[j].doc)'
  <2>1. j # i
    BY <1>3, <1>7 DEF Holding
  <2>2. call'[j] = call[j] /\ Holding(j)
    BY <1>1, <1>7, <2>1 DEF Holding
  <2>3. call[j].flow \in Workflow /\ call[j].doc \in Doc /\ Pins(call[j].flow, call[j].doc)
        /\ call[j].doc.version \in Version
    BY <1>2, <1>7, <2>2, CallFields, DocFields DEF Holding, Shape, Pinning
  <2>4. /\ call[j].doc.version <= Latest(call[j].flow)' 
        /\ Resolved(call[j].flow, call[j].doc.version)' = Resolved(call[j].flow, call[j].doc.version)
    BY <1>2, <1>6, <1>7, <2>2, <2>3 DEF Pins, Resolved, Latest
  <2>5. QED  BY <2>2, <2>3, <2>4 DEF Pins
<1>8. ASSUME NEW r \in Started', run'[r].flow \notin disturbed'
      PROVE  /\ run'[r].version <= Latest(run[r].flow)'
             /\ Resolved(run[r].flow, run[r].version)'.content = began'[r]
  <2>1. r \in Started /\ run[r].flow \in Workflow /\ run[r].version \in Version
    BY <1>2, <1>8 DEF Started, CatalogInv, TypeOK, Known, RunDoc
  <2>2. /\ run[r].version <= Latest(run[r].flow)
        /\ Resolved(run[r].flow, run[r].version).content = began[r]
    BY <1>2, <1>8, <2>1 DEF Pinning
  <2>3. QED  BY <1>2, <1>6, <1>8, <2>1, <2>2 DEF Resolved, Latest
<1>9. Filed'
  BY <1>2 DEF Pinning, Filed
<1>10. QED  BY <1>5, <1>7, <1>8, <1>9 DEF Pinning

(* The second write: the version in force is filed, nothing else is found  *)
(* where it was not.                                                       *)
LEMMA PinningRecords ==
    ASSUME CatalogInv, Pinning, NEW i \in Slot, NEW w \in Workflow, NEW d \in Doc,
           RecordsVersion(i), call[i].flow = w, call[i].doc = d
    PROVE  Pinning'
<1>1. /\ CatalogInv' /\ call'[i].pc \in {"idle", "settle"}
      /\ \A j \in Slot \ {i} : call'[j] = call[j]
      /\ edition'[w] = [edition[w] EXCEPT ![d.version] = d]
      /\ \A x \in Workflow \ {w} : edition'[x] = edition[x]
  BY RecordsTyped
<1>2. UNCHANGED <<flow, run, began, disturbed>> /\ Writing(i, w) /\ call[i].pc = "record"
      /\ d.version \in Version /\ edition[w] \in [Version -> Doc \cup {NoDoc}]
  BY DocFields DEF RecordsVersion, Writing, CatalogInv, TypeOK
<1>3. edition'[w][d.version] = d /\ \A v \in Version \ {d.version} : edition'[w][v] = edition[w][v]
  BY <1>1, <1>2
<1>4. \A x \in Workflow : Latest(x)' = Latest(x)
  BY <1>2 DEF Latest
<1>5. ASSUME w \notin disturbed
      PROVE  /\ Orderly(w)' /\ \A v \in Version : Resolved(w, v)' = Resolved(w, v) \/ v > Latest(w)
  <2>1. Orderly(w)
    BY <1>5 DEF Pinning
  <2>2. d = flow[w] /\ edition[w][Latest(w)] = NoDoc /\ \A j \in Slot : Writing(j, w) => j = i
    BY <1>2, <2>1 DEF Orderly
  <2>3. Latest(w) = d.version /\ d # NoDoc
    BY <2>2, DocFields DEF Latest
  <2>4. \A j \in Slot : ~Writing(j, w)'
    BY <1>1, <2>2 DEF Writing
  <2>5. /\ \A v \in Version : v > Latest(w) => edition'[w][v] = NoDoc
        /\ \A v \in Version : v < Latest(w) => edition'[w][v] # NoDoc
    BY <1>3, <2>1, <2>3, VersionFields DEF Orderly
  <2>6. Orderly(w)'
    BY <1>2, <1>3, <1>4, <2>2, <2>3, <2>4, <2>5 DEF Orderly
  <2>7. \A v \in Version : Resolved(w, v)' = Resolved(w, v)
    BY <1>2, <1>3, <2>2, <2>3 DEF Resolved
  <2>8. QED  BY <2>6, <2>7
<1>6. ASSUME NEW x \in Workflow, x \notin disturbed'
      PROVE  Orderly(x)' /\ \A v \in Version : v <= Latest(x) => Resolved(x, v)' = Resolved(x, v)
  <2>1. CASE x = w
    BY <1>2, <1>5, <1>6, <2>1, FlowFields, VersionFields
  <2>2. CASE x # w
    <3>1. \A j \in Slot : (Writing(j, x)' <=> Writing(j, x)) /\ (Writing(j, x) => call'[j] = call[j])
      BY <1>1, <1>2, <2>2 DEF Writing
    <3>2. Orderly(x)
      BY <1>2, <1>6 DEF Pinning
    <3>3. Orderly(x)'
      BY <1>1, <1>2, <2>2, <3>1, <3>2, OrderlyKept
    <3>4. QED  BY <1>1, <1>2, <2>2, <3>3 DEF Resolved
  <2>3. QED  BY <2>1, <2>2
<1>7. ASSUME NEW j \in Slot, Holding(j)', call'[j].flow \notin disturbed'
      PROVE  Pins(call[j].flow, call[j].doc)'
  <2>1. call'[j] = call[j] /\ Holding(j)
    BY <1>1, <1>7 DEF Holding
  <2>2. call[j].flow \in Workflow /\ call[j].doc \in Doc /\ Pins(call[j].flow, call[j].doc)
        /\ call[j].doc.version \in Version
    BY <1>2, <1>7, <2>1, CallFields, DocFields DEF Holding, Shape, Pinning
  <2>3. Resolved(call[j].flow, call[j].doc.version)' = Resolved(call[j].flow, call[j].doc.version)
    BY <1>6, <1>7, <2>1, <2>2 DEF Pins, Resolved
  <2>4. QED  BY <1>4, <2>1, <2>2, <2>3 DEF Pins, Latest
<1>8. ASSUME NEW r \in Started', run'[r].flow \notin disturbed'
      PROVE  /\ run'[r].version <= Latest(run[r].flow)'
             /\ Resolved(run[r].flow, run[r].version)'.content = began'[r]
  <2>1. r \in Started /\ run[r].flow \in Workflow /\ run[r].version \in Version
    BY <1>2, <1>8 DEF Started, CatalogInv, TypeOK, Known, RunDoc
  <2>2. /\ run[r].version <= Latest(run[r].flow)
        /\ Resolved(run[r].flow, run[r].version).content = began[r]
    BY <1>2, <1>8, <2>1 DEF Pinning
  <2>3. QED  BY <1>2, <1>6, <1>8, <2>1, <2>2 DEF Resolved, Latest
<1>9. Filed'
  BY <1>1, <1>2, <1>3 DEF Pinning, Filed
<1>10. QED  BY <1>6, <1>7, <1>8, <1>9 DEF Pinning

(* An invocation dies: between the two writes it disturbs, before them it  *)
(* leaves the workflow as it was.                                          *)
LEMMA PinningDies == ASSUME CatalogInv, Pinning, NEW i \in Slot, Dies(i) PROVE Pinning'
<1>1. CatalogInv' /\ call'[i] = Idle /\ \A j \in Slot \ {i} : call'[j] = call[j]
  BY DiesTyped
<1>2. UNCHANGED <<flow, edition, run, began>>
      /\ disturbed' = disturbed \cup IF call[i].pc = "record" THEN {call[i].flow} ELSE {}
  BY DEF Dies
<1>3. ASSUME NEW x \in Workflow, x \notin disturbed' PROVE Orderly(x)'
  <2>1. Orderly(x)
    BY <1>2, <1>3 DEF Pinning
  <2>2. CASE ~Writing(i, x)
    <3>1. \A j \in Slot : (Writing(j, x)' <=> Writing(j, x)) /\ (Writing(j, x) => call'[j] = call[j])
      BY <1>1, <2>2, IdleFields DEF Writing
    <3>2. QED  BY <1>2, <2>1, <3>1, OrderlyKept
  <2>3. CASE Writing(i, x)
    <3>1. call[i].pc = "save" /\ \A j \in Slot : Writing(j, x) => j = i
      BY <1>2, <1>3, <2>1, <2>3 DEF Orderly, Writing
    <3>2. \A j \in Slot : ~Writing(j, x)'
      BY <1>1, <3>1, IdleFields DEF Writing
    <3>3. flow[x] # NoDoc => edition[x][Latest(x)] = flow[x]
      BY <2>1, <3>1 DEF Orderly
    <3>4. Latest(x)' = Latest(x)
      BY <1>2 DEF Latest
    <3>5. /\ \A v \in Version : v > Latest(x) => edition[x][v] = NoDoc
          /\ \A v \in Version : v < Latest(x) => edition[x][v] # NoDoc
      BY <2>1 DEF Orderly
    <3>6. QED  BY <1>2, <3>2, <3>3, <3>4, <3>5 DEF Orderly
  <2>4. QED  BY <2>2, <2>3
<1>4. \A j \in Slot : Holding(j)' /\ call'[j].flow \notin disturbed' => Pins(call'[j].flow, call'[j].doc)
  BY <1>1, <1>2, IdleFields DEF Pinning, Holding
<1>5. QED  BY <1>1, <1>2, <1>3, <1>4, PinningKept

(* A run begins with what its start holds. *)
LEMMA PinningBegins ==
    ASSUME CatalogInv, Pinning, NEW i \in Slot, NEW w \in Workflow, NEW d \in Doc, NEW q \in Run,
           BeginsRun(i), call[i].flow = w, call[i].doc = d, call[i].run = q
    PROVE  Pinning'
<1>1. /\ CatalogInv' /\ call'[i] = Idle /\ \A j \in Slot \ {i} : call'[j] = call[j]
      /\ run'[q] = [flow |-> w, version |-> d.version, status |-> "LIVE",
                    gated |-> call[i].op = "start", from |-> call[i].from]
      /\ began'[q] = d.content
      /\ \A r \in Run \ {q} : run'[r] = run[r] /\ began'[r] = began[r]
      /\ Started' = Started \cup {q}
  BY BeginsTyped
<1>2. UNCHANGED <<flow, edition, disturbed>> /\ call[i].pc = "begin"
  BY DEF BeginsRun
<1>3. run'[q].flow = w /\ run'[q].version = d.version
  BY <1>1
<1>4. \A x \in Workflow : Latest(x)' = Latest(x) /\ \A v : Resolved(x, v)' = Resolved(x, v)
  BY <1>2 DEF Latest, Resolved
<1>5. \A x \in Workflow : x \notin disturbed' => Orderly(x)'
  <2> SUFFICES ASSUME NEW x \in Workflow, x \notin disturbed' PROVE Orderly(x)'
    OBVIOUS
  <2>1. \A j \in Slot : (Writing(j, x)' <=> Writing(j, x)) /\ (Writing(j, x) => call'[j] = call[j])
    BY <1>1, <1>2, IdleFields DEF Writing
  <2>2. QED  BY <1>2, <2>1, OrderlyKept DEF Pinning
<1>6. ASSUME NEW j \in Slot, Holding(j)', call'[j].flow \notin disturbed'
      PROVE  Pins(call[j].flow, call[j].doc)'
  <2>1. call'[j] = call[j] /\ Holding(j)
    BY <1>1, <1>6, IdleFields DEF Holding
  <2>2. call[j].flow \in Workflow /\ Pins(call[j].flow, call[j].doc)
    BY <1>2, <1>6, <2>1, CallFields DEF Holding, Shape, Pinning
  <2>3. QED  BY <1>2, <2>1, <2>2 DEF Pins, Latest, Resolved
<1>7. ASSUME NEW r \in Started', run'[r].flow \notin disturbed'
      PROVE  /\ run'[r].version <= Latest(run[r].flow)'
             /\ Resolved(run[r].flow, run[r].version)'.content = began'[r]
  <2>1. CASE r = q
    <3>1. Pins(w, d)
      BY <1>2, <1>3, <1>7, <2>1 DEF Pinning, Holding
    <3>2. d.version <= Latest(w) /\ Resolved(w, d.version).content = d.content
      BY <3>1 DEF Pins
    <3>3. QED  BY <1>1, <1>2, <1>3, <2>1, <3>2 DEF Latest, Resolved
  <2>2. CASE r # q
    <3>1. r \in Started /\ run'[r] = run[r] /\ began'[r] = began[r]
      BY <1>1, <2>2 DEF Started
    <3>2. QED  BY <1>2, <1>7, <3>1 DEF Pinning, Latest, Resolved
  <2>3. QED  BY <2>1, <2>2
<1>8. Filed'
  BY <1>2 DEF Pinning, Filed
<1>9. QED  BY <1>5, <1>6, <1>7, <1>8 DEF Pinning

(* A start holds what is in force, a resumption what its run was pinned to. *)
LEMMA PinningHolds ==
    ASSUME CatalogInv, Pinning, NEW i \in Slot,
           \/ \E w \in Workflow, r \in Run : ReadsWorkflow(i, w, r)
           \/ \E old \in Run, r \in Run : ResumesException(i, old, r)
    PROVE  Pinning'
<1>1. /\ CatalogInv' /\ \A j \in Slot \ {i} : call'[j] = call[j]
      /\ call'[i].pc \in {"org", "begin"} /\ call[i].pc = "idle"
      /\ UNCHANGED <<flow, edition, run, began, disturbed>>
  BY ReadsTyped, ResumesTyped, FreeIsIdle DEF ReadsWorkflow, ResumesException
<1>2. \A x \in Workflow : x \notin disturbed' => Orderly(x)'
  <2> SUFFICES ASSUME NEW x \in Workflow, x \notin disturbed' PROVE Orderly(x)'
    OBVIOUS
  <2>1. \A j \in Slot : (Writing(j, x)' <=> Writing(j, x)) /\ (Writing(j, x) => call'[j] = call[j])
    BY <1>1 DEF Writing
  <2>2. QED  BY <1>1, <2>1, OrderlyKept DEF Pinning
<1>3. call'[i].flow \notin disturbed => Pins(call'[i].flow, call'[i].doc)
  <2>1. ASSUME NEW w \in Workflow, NEW r \in Run, ReadsWorkflow(i, w, r), w \notin disturbed
        PROVE  call'[i].flow = w /\ Pins(w, call'[i].doc)
    <3>1. call'[i].flow = w /\ call'[i].doc = flow[w] /\ flow[w] # NoDoc
      BY <2>1, ReadsTyped DEF ReadsWorkflow
    <3>2. QED  BY <2>1, <3>1, LastPins DEF Pinning
  <2>2. ASSUME NEW old \in Run, NEW r \in Run, ResumesException(i, old, r), run[old].flow \notin disturbed
        PROVE  call'[i].flow = run[old].flow /\ Pins(run[old].flow, call'[i].doc)
    <3>1. /\ call'[i].flow = run[old].flow /\ old \in Started
          /\ call'[i].doc = Resolved(run[old].flow, run[old].version)
          /\ run[old].flow \in Workflow /\ run[old].version \in Version
      BY <2>2, ResumesTyped
    <3>2. flow[run[old].flow] # NoDoc /\ run[old].version <= Latest(run[old].flow)
            /\ Orderly(run[old].flow) /\ Filed
      BY <2>2, <3>1 DEF Pinning, CatalogInv, Known
    <3>3. QED  BY <3>1, <3>2, OnRecord
  <2>3. QED  BY <2>1, <2>2, ReadsTyped, ResumesTyped
<1>4. \A j \in Slot : Holding(j)' /\ call'[j].flow \notin disturbed' => Pins(call'[j].flow, call'[j].doc)
  BY <1>1, <1>3 DEF Pinning, Holding
<1>5. QED  BY <1>1, <1>2, <1>4, PinningKept

(* A run ends. *)
LEMMA PinningEnds ==
    ASSUME CatalogInv, Pinning, NEW q \in Run, NEW s \in {"FAILED", "DONE"}, EndsRun(q, s)
    PROVE  Pinning'
<1>1. UNCHANGED <<flow, edition, began, disturbed, call>> /\ Started' = Started
  BY EndsTyped DEF EndsRun
<1>2. \A r \in Run : run'[r].flow = run[r].flow /\ run'[r].version = run[r].version
  <2>1. run[q] \in RunDoc
    BY DEF CatalogInv, TypeOK
  <2>2. run'[q].flow = run[q].flow /\ run'[q].version = run[q].version
    BY <2>1, EndsTyped DEF RunDoc
  <2>3. QED  BY <2>2, EndsTyped
<1>3. \A x \in Workflow : x \notin disturbed' => Orderly(x)'
  BY <1>1 DEF Pinning, Orderly, Writing, Latest
<1>4. ASSUME NEW r \in Started', run'[r].flow \notin disturbed'
      PROVE  /\ run'[r].version <= Latest(run[r].flow)'
             /\ Resolved(run[r].flow, run[r].version)'.content = began'[r]
  <2>1. r \in Started /\ r \in Run
    BY <1>1 DEF Started
  <2>2. run[r].version <= Latest(run[r].flow)
          /\ Resolved(run[r].flow, run[r].version).content = began[r]
    BY <1>1, <1>2, <1>4, <2>1 DEF Pinning
  <2>3. QED  BY <1>1, <1>2, <2>1, <2>2 DEF Latest, Resolved
<1>5. \A j \in Slot : Holding(j)' /\ call'[j].flow \notin disturbed' => Pins(call[j].flow, call[j].doc)'
  BY <1>1 DEF Pinning, Holding, Pins, Latest, Resolved
<1>6. Filed'
  BY <1>1 DEF Pinning, Filed
<1>7. QED  BY <1>3, <1>4, <1>5, <1>6 DEF Pinning

LEMMA PinningAside == ASSUME CatalogInv, CatalogInv', Pinning, Aside PROVE Pinning'
<1>1. UNCHANGED <<flow, edition, run, began, disturbed>>
  BY DEF Aside
<1>2. ASSUME NEW i \in Slot, NEW N \in Call, Goes(i, N) PROVE Pinning'
  <2>1. call'[i] = N /\ \A j \in Slot \ {i} : call'[j] = call[j]
    BY <1>2, Moves DEF Goes
  <2>2. \A x \in Workflow : x \notin disturbed' => Orderly(x)'
    <3> SUFFICES ASSUME NEW x \in Workflow, x \notin disturbed' PROVE Orderly(x)'
      OBVIOUS
    <3>1. \A j \in Slot : (Writing(j, x)' <=> Writing(j, x)) /\ (Writing(j, x) => call'[j] = call[j])
      BY <1>2, <2>1 DEF Writing, Goes
    <3>2. QED  BY <1>1, <3>1, OrderlyKept DEF Pinning
  <2>3. \A j \in Slot : Holding(j)' /\ call'[j].flow \notin disturbed' => Pins(call'[j].flow, call'[j].doc)
    BY <1>1, <1>2, <2>1 DEF Pinning, Holding, Goes
  <2>4. QED  BY <1>1, <2>2, <2>3, PinningKept
<1>3. CASE call' = call
  BY <1>1, <1>3 DEF Pinning, Filed, Orderly, Writing, Holding, Pins, Latest, Resolved, Started
<1>4. QED  BY <1>2, <1>3 DEF Aside

LEMMA PinningStep == ASSUME CatalogInv, Pinning, [Next]_vars PROVE Pinning'
<1>1. CatalogInv' /\ Kinds
  BY StepKind
<1>2. ASSUME NEW i \in Slot, SavesWorkflow(i) \/ RecordsVersion(i) \/ BeginsRun(i) \/ Dies(i)
      PROVE  Pinning'
  BY <1>2, SavesTyped, RecordsTyped, BeginsTyped, PinningSaves, PinningRecords, PinningBegins,
     PinningDies
<1>3. QED  BY <1>1, <1>2, PinningStarts, PinningHolds, PinningEnds, PinningAside DEF Kinds

LEMMA InitPins == Init => Pinning
<1> SUFFICES ASSUME Init PROVE Pinning
  OBVIOUS
<1>1. Started = {} /\ \A i \in Slot : call[i].pc = "idle"
  BY IdleFields DEF Init, Started, NoRunYet
<1>2. \A w \in Workflow : flow[w] = NoDoc /\ \A v \in Version : edition[w][v] = NoDoc
  BY DEF Init
<1>3. Filed
  BY <1>2 DEF Filed
<1>4. \A w \in Workflow : Orderly(w)
  BY <1>1, <1>2, VersionFields DEF Orderly, Writing, Latest
<1>5. QED  BY <1>1, <1>3, <1>4 DEF Pinning, Holding

(* Whatever is saved, published or archived while a run is in flight, the  *)
(* run's version resolves to the content it began with, unless saves of    *)
(* its workflow overlapped, tore or brought a version of their own.        *)
THEOREM PinsAreKept == Spec => []PinsHold
<1>2. CatalogInv /\ Pinning /\ [Next]_vars => Pinning'
  BY PinningStep
<1>3. Pinning => PinsHold
  BY DEF Pinning, PinsHold, Started
<1>4. QED  BY <1>2, <1>3, InitPins, CatalogTyped, PTL DEF Spec

(***************************************************************************)
(* A resumed run follows the one it resumes                                *)
(***************************************************************************)
(* What began stays as it began, as long as runs keep what they were       *)
(* pinned to and nobody new is about to begin one.                         *)
LEMMA ResumingKept ==
    ASSUME Resuming, disturbed \subseteq disturbed', Started' = Started, began' = began,
           \A r \in Run : /\ run'[r].flow = run[r].flow /\ run'[r].version = run[r].version
                          /\ run'[r].from = run[r].from,
           \A j \in Slot : Holding(j)' =>
              /\ Holding(j) /\ call'[j].run = call[j].run,
           \A j \in Slot : call'[j].op = "resume" => call'[j] = call[j]
    PROVE  Resuming'
<1>1. Started \subseteq Run
  BY DEF Started
<1>2. Reserved'
  BY DEF Resuming, Reserved
<1>3. ASSUME NEW j \in Slot, call'[j].op = "resume"
      PROVE  SameStart(call[j].flow, call[j].doc, call[j].from)'
  BY <1>1, <1>3 DEF Resuming, SameStart
<1>4. ASSUME NEW r \in Started', run'[r].from # NoRun
      PROVE  SameStart(run[r].flow, [version |-> run[r].version, content |-> began[r]], run[r].from)'
  BY <1>1, <1>4 DEF Resuming, SameStart
<1>5. \A r \in Run \ Started' : run'[r].from = NoRun
  BY DEF Resuming
<1>6. QED  BY <1>2, <1>3, <1>4, <1>5 DEF Resuming

LEMMA ResumingAside == ASSUME CatalogInv, Resuming, Aside PROVE Resuming'
<1>1. UNCHANGED <<run, began, disturbed>> /\ Started' = Started
  BY DEF Aside, Started
<1>2. ASSUME NEW i \in Slot, NEW N \in Call, Goes(i, N) PROVE Resuming'
  <2>1. call'[i] = N /\ \A j \in Slot \ {i} : call'[j] = call[j]
    BY <1>2, Moves DEF Goes
  <2>2. N.op # "resume"
    BY <1>2 DEF Goes, Shape
  <2>3. \A j \in Slot : Holding(j)' => Holding(j) /\ call'[j].run = call[j].run
    BY <1>2, <2>1 DEF Holding, Goes
  <2>4. QED  BY <1>1, <2>1, <2>2, <2>3, ResumingKept
<1>3. CASE call' = call
  BY <1>1, <1>3, ResumingKept DEF Holding
<1>4. QED  BY <1>2, <1>3 DEF Aside

(* A new holder has a run of its own. *)
LEMMA ReservedHolds ==
    ASSUME CatalogInv, Reserved, NEW i \in Slot, NEW r \in Run, Fresh(r), run' = run,
           call'[i].run = r, \A j \in Slot \ {i} : call'[j] = call[j]
    PROVE  Reserved'
<1>1. r \notin Started /\ (\A j \in Slot : call[j].run # r) /\ Started' = Started
  BY DEF Fresh, Started
<1>2. QED  BY <1>1 DEF Reserved, Holding

LEMMA ResumingReads ==
    ASSUME CatalogInv, Resuming, NEW i \in Slot, NEW w \in Workflow, NEW r \in Run,
           ReadsWorkflow(i, w, r)
    PROVE  Resuming'
<1>1. /\ call'[i].op = "start" /\ call'[i].run = r /\ \A j \in Slot \ {i} : call'[j] = call[j]
  BY ReadsTyped
<1>2. UNCHANGED <<run, began, disturbed>> /\ Fresh(r) /\ Started' = Started
  BY DEF ReadsWorkflow, Started
<1>3. Reserved'
  BY <1>1, <1>2, ReservedHolds DEF Resuming
<1>4. QED  BY <1>1, <1>2, <1>3 DEF Resuming, SameStart

(* A resumption takes up the definition that was pinned. *)
LEMMA ResumingResumes ==
    ASSUME CatalogInv, Pinning, Resuming, NEW i \in Slot, NEW old \in Run, NEW r \in Run,
           ResumesException(i, old, r)
    PROVE  Resuming'
<1>1. /\ call'[i].run = r /\ call'[i].from = old /\ call'[i].flow = run[old].flow
      /\ call'[i].doc = Resolved(run[old].flow, run[old].version)
      /\ old \in Started /\ run[old].flow \in Workflow /\ run[old].version \in Version
      /\ \A j \in Slot \ {i} : call'[j] = call[j]
  BY ResumesTyped
<1>2. UNCHANGED <<flow, edition, run, began, disturbed>> /\ Fresh(r) /\ Started' = Started
  BY DEF ResumesException, Started
<1>3. Reserved'
  BY <1>1, <1>2, ReservedHolds DEF Resuming
<1>4. run[old].flow \notin disturbed =>
        /\ Resolved(run[old].flow, run[old].version).content = began[old]
        /\ Resolved(run[old].flow, run[old].version).version = run[old].version
  <2> SUFFICES ASSUME run[old].flow \notin disturbed
               PROVE  /\ Resolved(run[old].flow, run[old].version).content = began[old]
                      /\ Resolved(run[old].flow, run[old].version).version = run[old].version
    OBVIOUS
  <2>1. flow[run[old].flow] # NoDoc /\ run[old].version <= Latest(run[old].flow)
          /\ Orderly(run[old].flow) /\ Filed
          /\ Resolved(run[old].flow, run[old].version).content = began[old]
    BY <1>1 DEF Pinning, CatalogInv, Known
  <2>2. QED  BY <1>1, <2>1, OnRecord
<1>6. ASSUME NEW j \in Slot, call'[j].op = "resume"
      PROVE  SameStart(call[j].flow, call[j].doc, call[j].from)'
  <2>1. CASE j = i
    BY <1>1, <1>2, <1>4, <2>1 DEF SameStart
  <2>2. CASE j # i
    BY <1>1, <1>2, <1>6, <2>2 DEF Resuming, SameStart
  <2>3. QED  BY <2>1, <2>2
<1>7. QED  BY <1>2, <1>3, <1>6 DEF Resuming, SameStart

(* It begins as what it resumes began, and is itself not yet resumed. *)
LEMMA ResumingBegins ==
    ASSUME CatalogInv, Resuming, NEW i \in Slot, NEW w \in Workflow, NEW d \in Doc, NEW q \in Run,
           NEW old, BeginsRun(i), call[i].flow = w, call[i].doc = d, call[i].run = q,
           call[i].from = old
    PROVE  Resuming'
<1>1. /\ call'[i] = Idle /\ \A j \in Slot \ {i} : call'[j] = call[j]
      /\ run'[q] = [flow |-> w, version |-> d.version, status |-> "LIVE",
                    gated |-> call[i].op = "start", from |-> old]
      /\ began'[q] = d.content
      /\ \A r \in Run \ {q} : run'[r] = run[r] /\ began'[r] = began[r]
      /\ Started' = Started \cup {q}
  BY BeginsTyped
<1>2. disturbed' = disturbed /\ Holding(i) /\ call[i].op \in {"start", "resume"}
      /\ (call[i].op = "start" => old = NoRun)
  BY CallFields DEF BeginsRun, Holding, Shape
<1>3. run'[q].flow = w /\ run'[q].version = d.version /\ run'[q].from = old
  BY <1>1
<1>4. q \notin Started /\ \A j \in Slot : Holding(j) /\ call[j].run = q => j = i
  BY <1>2 DEF Resuming, Reserved
<1>5. Reserved'
  BY <1>1, <1>4, IdleFields DEF Resuming, Reserved, Holding
<1>6. \A r \in Started : r # q /\ run'[r] = run[r] /\ began'[r] = began[r]
  BY <1>1, <1>4 DEF Started
<1>7. ASSUME NEW j \in Slot, call'[j].op = "resume"
      PROVE  SameStart(call[j].flow, call[j].doc, call[j].from)'
  <2>1. call'[j] = call[j] /\ SameStart(call[j].flow, call[j].doc, call[j].from)
    BY <1>1, <1>7, IdleFields DEF Resuming
  <2>2. QED  BY <1>1, <1>2, <1>6, <2>1 DEF SameStart
<1>8. ASSUME NEW r \in Started', run'[r].from # NoRun
      PROVE  SameStart(run[r].flow, [version |-> run[r].version, content |-> began[r]], run[r].from)'
  <2>1. CASE r = q
    <3>1. SameStart(w, d, old)
      BY <1>2, <1>3, <1>8, <2>1 DEF Resuming
    <3>2. QED  BY <1>1, <1>2, <1>3, <1>6, <2>1, <3>1 DEF SameStart
  <2>2. CASE r # q
    <3>1. r \in Started /\ run'[r] = run[r] /\ began'[r] = began[r]
      BY <1>1, <1>6, <2>2
    <3>2. SameStart(run[r].flow, [version |-> run[r].version, content |-> began[r]], run[r].from)
      BY <1>8, <3>1 DEF Resuming
    <3>3. QED  BY <1>1, <1>2, <1>6, <3>1, <3>2 DEF SameStart
  <2>3. QED  BY <2>1, <2>2
<1>9. \A r \in Run \ Started' : run'[r].from = NoRun
  BY <1>1 DEF Resuming
<1>10. QED  BY <1>5, <1>7, <1>8, <1>9 DEF Resuming

LEMMA ResumingStep == ASSUME CatalogInv, Pinning, Resuming, [Next]_vars PROVE Resuming'
<1>1. Kinds
  BY StepKind
<1>2. ASSUME NEW i \in Slot, UNCHANGED <<run, began>>, disturbed \subseteq disturbed',
             \A j \in Slot \ {i} : call'[j] = call[j], call'[i].op # "resume", ~Holding(i)'
      PROVE  Resuming'
  BY <1>2, ResumingKept DEF Started, Holding
<1>3. ASSUME NEW i \in Slot, NEW w \in Workflow, NEW op, NEW d \in Doc,
             NEW a \in Action \cup {NoAction}, Starts(i, w, op, d, a)
      PROVE  Resuming'
  <2>1. /\ call'[i].pc = "save" /\ call'[i].op = op /\ \A j \in Slot \ {i} : call'[j] = call[j]
    BY <1>3, StartsTyped
  <2>2. QED  BY <1>2, <1>3, <2>1 DEF Starts, StartsSaving, Holding
<1>4. ASSUME NEW i \in Slot, SavesWorkflow(i) PROVE Resuming'
  <2>1. call'[i].pc = "record" /\ call'[i].op = call[i].op /\ call[i].op # "resume"
    <3>1. call[i].pc = "save" /\ Shape(call[i]) /\ call[i] \in Call
      BY <1>4, CallFields DEF SavesWorkflow
    <3>2. call[i].op # "resume"
      BY <3>1 DEF Shape
    <3>3. QED  BY <1>4, <3>1, <3>2, SavesTyped DEF Call
  <2>2. QED  BY <1>2, <1>4, <2>1, SavesTyped DEF SavesWorkflow, Holding
<1>5. ASSUME NEW i \in Slot, RecordsVersion(i) PROVE Resuming'
  <2>1. call'[i].op # "resume"
    <3>1. call[i].pc = "record" /\ Shape(call[i]) /\ call[i] \in Call
      BY <1>5, CallFields DEF RecordsVersion
    <3>2. call[i].op # "resume"
      BY <3>1 DEF Shape
    <3>3. [call[i] EXCEPT !.pc = "settle"].op = call[i].op
      BY <3>1 DEF Call
    <3>4. QED  BY <1>5, <3>2, <3>3, RecordsTyped, IdleFields
  <2>2. QED  BY <1>2, <1>5, <2>1, RecordsTyped DEF RecordsVersion, Holding
<1>6. ASSUME NEW i \in Slot, Dies(i) PROVE Resuming'
  BY <1>2, <1>6, DiesTyped, IdleFields DEF Dies, Holding
<1>7. ASSUME NEW i \in Slot, BeginsRun(i) PROVE Resuming'
  BY <1>7, BeginsTyped, ResumingBegins
<1>8. ASSUME NEW r \in Run, NEW s \in {"FAILED", "DONE"}, EndsRun(r, s) PROVE Resuming'
  <2>1. run[r] \in RunDoc
    BY DEF CatalogInv, TypeOK
  <2>2. run'[r].flow = run[r].flow /\ run'[r].version = run[r].version /\ run'[r].from = run[r].from
    BY <1>8, <2>1, EndsTyped DEF RunDoc
  <2>3. QED  BY <1>8, <2>2, EndsTyped, ResumingKept DEF EndsRun, Holding
<1>9. QED
  BY <1>1, <1>3, <1>4, <1>5, <1>6, <1>7, <1>8, ResumingReads, ResumingResumes, ResumingAside DEF Kinds

(* However its workflow is edited in between, a run that resumes a failed  *)
(* one begins with the content and the version the failed one began with.  *)
THEOREM ResumedFollows == Spec => []ResumedAsBegun
<1>1. Init => Resuming
  BY DEF Init, Resuming, Reserved, Holding, Started, NoRunYet, Idle
<1>2. CatalogInv /\ Pinning /\ Resuming /\ [Next]_vars => Resuming'
  BY ResumingStep
<1>3. Resuming => ResumedAsBegun
  BY DEF Resuming, ResumedAsBegun, SameStart, Started
<1>4. Init => Pinning
  BY InitPins
<1>5. CatalogInv /\ Pinning /\ [Next]_vars => Pinning'
  BY PinningStep
<1>6. QED  BY <1>1, <1>2, <1>3, <1>4, <1>5, CatalogTyped, PTL DEF Spec
=============================================================================

--------------------------- MODULE WorkflowCatalog ---------------------------
(* Workflow definitions, their version records, the copilot's proposals    *)
(* and the gate a run passes to start.                                     *)
(* (services/control-plane/src/handler.ts: saveWorkflowWithVersion,        *)
(* getWorkflowVersion, the /workflows routes, applyCopilotAction,          *)
(* POST /workflows/{id}/runs, resumeRunFromException.)                     *)
(*                                                                         *)
(* A request reads documents, decides, and writes whole documents back;    *)
(* every write is a step, and what was read stays in call[i] until then.   *)
EXTENDS Naturals, FiniteSets

CONSTANTS
    Workflow, Run, Action,  \* ids of workflows, of runs, of proposals
    Slot,                   \* invocations that may be in flight
    Content,                \* what the steps of a definition may say
    MaxVersion,             \* bound: no workflow is edited past this version
    Limits, MaxLimit,       \* run limits an organization may be given; 0 is none
    Scopes,                 \* see Scope
    NoDoc, NoContent, NoWorkflow, NoRun, NoAction

ASSUME CatalogAssumption ==
    /\ IsFiniteSet(Run) /\ IsFiniteSet(Slot) /\ Slot # {}
    /\ MaxVersion \in Nat \ {0} /\ MaxLimit \in Nat /\ Limits \subseteq 0..MaxLimit
    /\ Limits # {}
    /\ NoContent \notin Content /\ NoWorkflow \notin Workflow
    /\ NoRun \notin Run /\ NoAction \notin Action

Version   == 1..MaxVersion
Request   == {"draft", "create", "duplicate", "publish", "impose", "copilot", "copilotnew",
              "copilotorg", "settings", "start", "resume", "end"}

(* What is asked together in one behaviour, and the bounds it is asked in: *)
(* the last version a workflow is edited to, how many invocations are in   *)
(* flight, workflows in existence and runs started; whether invocations die *)
Scope     == [ops : SUBSET Request, versions : Version, inFlight : Nat, flows : Nat,
              runs : Nat, crashes : BOOLEAN]

ASSUME ScopesAssumption == Scopes \subseteq Scope

Status    == {"draft", "testing", "active", "archived"}
Runnable  == {"active", "testing"}
Doc       == [status : Status, version : Version, content : Content]
ASSUME NoDocAssumption == NoDoc \notin Doc
OrgDoc    == [status : {"active", "paused", "suspended"}, limit : Limits]

(* LIVE stands for LIVE_RUN_STATUSES, FAILED for the statuses that may be  *)
(* resumed, DONE for the rest.                                             *)
RunDoc    == [flow : Workflow \cup {NoWorkflow}, version : Version,
              status : {"NONE", "LIVE", "FAILED", "DONE"}, gated : BOOLEAN,
              from : Run \cup {NoRun}]
NoRunYet  == [flow |-> NoWorkflow, version |-> 1, status |-> "NONE", gated |-> FALSE,
              from |-> NoRun]

(* A proposal to save a workflow, or, with flow NoWorkflow, an organization. *)
Proposal  == [status : {"NONE", "PENDING", "APPLIED", "DISCARDED"},
              flow : Workflow \cup {NoWorkflow}, doc : Doc \cup {NoDoc}, org : OrgDoc]

VARIABLES
    scope,      \* what this behaviour is about
    flow,       \* WORKFLOW# documents
    edition,    \* WORKFLOWVERSION# records, by version
    run,        \* RUN# documents, what concerns the gate and the pin
    action,     \* COPILOTACTION# documents
    org,        \* the ORG# document
    call,       \* invocations in flight
    began,      \* history: the content each run was started with
    vetted,     \* history: contents that passed a publication check
    stored,     \* history: proposals whose document was written
    disturbed   \* history: workflows with overlapping, torn or imposed saves
vars == <<scope, flow, edition, run, action, org, call, began, vetted, stored, disturbed>>

Call == [op : {"none", "edit", "impose", "apply", "discard", "start", "resume", "settings"},
         pc : {"idle", "save", "record", "settle", "discard", "org", "count", "begin",
               "orgsave"},
         flow : Workflow \cup {NoWorkflow}, doc : Doc \cup {NoDoc}, org : OrgDoc,
         limit : Limits, run : Run \cup {NoRun}, from : Run \cup {NoRun},
         action : Action \cup {NoAction}]
AnyOrg  == CHOOSE o \in OrgDoc : TRUE
Idle    == [op |-> "none", pc |-> "idle", flow |-> NoWorkflow, doc |-> NoDoc, org |-> AnyOrg,
            limit |-> AnyOrg.limit, run |-> NoRun, from |-> NoRun, action |-> NoAction]

(***************************************************************************)
(* What a definition resolves to, and who is at work                       *)
(***************************************************************************)
(* getWorkflowVersion: the version record, or else the current document.   *)
Resolved(w, v) == IF edition[w][v] # NoDoc THEN edition[w][v] ELSE flow[w]

Busy        == {j \in Slot : call[j].pc # "idle"}
Free(i)     == i \notin Busy /\ Cardinality(Busy) < scope.inFlight
Editing(i)  == call[i].pc \in {"save", "record"} /\ call[i].flow # NoWorkflow
BusyOn(w)   == \E j \in Slot : Editing(j) /\ call[j].flow = w
Live        == {r \in Run : run[r].status = "LIVE"}
Started     == {r \in Run : run[r].status # "NONE"}
Fresh(r)    == /\ r \notin Started /\ \A j \in Slot : call[j].run # r
               /\ Cardinality(Started) < scope.runs
Unused(w)   == /\ flow[w] = NoDoc /\ ~BusyOn(w)
               /\ Cardinality({x \in Workflow : flow[x] # NoDoc}) < scope.flows

Begin(i, c) == call' = [call EXCEPT ![i] = c]
Return(i)   == call' = [call EXCEPT ![i] = Idle]

Init ==
    /\ scope \in Scopes
    /\ flow = [w \in Workflow |-> NoDoc]
    /\ edition = [w \in Workflow |-> [v \in Version |-> NoDoc]]
    /\ run = [r \in Run |-> NoRunYet]
    /\ action = [a \in Action |->
                   [status |-> "NONE", flow |-> NoWorkflow, doc |-> NoDoc, org |-> AnyOrg]]
    /\ org \in OrgDoc /\ org.status = "active"
    /\ call = [i \in Slot |-> Idle]
    /\ began = [r \in Run |-> NoContent]
    /\ vetted = {} /\ stored = {} /\ disturbed = {}

(***************************************************************************)
(* Saving a workflow                                                       *)
(***************************************************************************)
(* A request that read workflow w and will save d in its place. Unless it  *)
(* is an edit, the document was composed elsewhere, version included.      *)
StartsSaving(i, op, w, d, a) ==
    /\ Begin(i, [Idle EXCEPT !.op = op, !.pc = "save", !.flow = w, !.doc = d, !.action = a])
    /\ disturbed' = disturbed \cup IF BusyOn(w) \/ op # "edit" THEN {w} ELSE {}
    /\ UNCHANGED <<scope, flow, edition, run, action, org, began, stored>>

(* Faulty variant: a publication changes the status alone.                 *)
SameVersion(d, s, c) == [status |-> s, version |-> d.version, content |-> c]

(* The next version of what was read, with another status or content.      *)
Successor(d, s, c) == [status |-> s, version |-> d.version + 1, content |-> c]

Editable(w) == flow[w] # NoDoc /\ flow[w].version < scope.versions

(* POST /workflows/{id}/draft on a workflow that exists, whatever its status. *)
EditsDraft(i, w, s, c) ==
    /\ "draft" \in scope.ops /\ Free(i) /\ Editable(w)
    /\ s \in {"draft", "testing"}
    /\ StartsSaving(i, "edit", w, Successor(flow[w], s, c), NoAction)
    /\ UNCHANGED vetted

(* The draft route with `new`, and POST /workflows/generate: an id nobody  *)
(* else has, version 1.                                                    *)
CreatesDraft(i, w, s, c) ==
    /\ "create" \in scope.ops /\ Free(i) /\ Unused(w)
    /\ s \in {"draft", "testing"}
    /\ StartsSaving(i, "edit", w, [status |-> s, version |-> 1, content |-> c], NoAction)
    /\ UNCHANGED vetted

(* A copy under a new id is an unpublished first version.                  *)
Duplicates(i, w, source) ==
    /\ "duplicate" \in scope.ops /\ Free(i) /\ Unused(w) /\ flow[source] # NoDoc
    /\ StartsSaving(i, "edit", w,
                    [status |-> "draft", version |-> 1, content |-> flow[source].content], NoAction)
    /\ UNCHANGED vetted

(* Publication, once every managed connection is found active.             *)
Publishes(i, w) ==
    /\ "publish" \in scope.ops /\ Free(i) /\ Editable(w) /\ flow[w].status # "active"
    /\ StartsSaving(i, "edit", w, Successor(flow[w], "active", flow[w].content), NoAction)
    /\ vetted' = vetted \cup {<<w, flow[w].content>>}

Unpublishes(i, w) ==
    /\ "publish" \in scope.ops /\ Free(i) /\ Editable(w) /\ flow[w].status = "active"
    /\ StartsSaving(i, "edit", w, Successor(flow[w], "draft", flow[w].content), NoAction)
    /\ UNCHANGED vetted

Archives(i, w) ==
    /\ "publish" \in scope.ops /\ Free(i) /\ Editable(w) /\ flow[w].status # "archived"
    /\ StartsSaving(i, "edit", w, Successor(flow[w], "archived", flow[w].content), NoAction)
    /\ UNCHANGED vetted

(* Faulty variant: whatever was once checked for another content passes.   *)
CheckedByStatus(w, d) == UNCHANGED vetted

(* Only a document that is to be active has its connections checked.       *)
Checked(w, d) == vetted' = vetted \cup IF d.status = "active" THEN {<<w, d.content>>} ELSE {}

(* POST /workflows: staff save the document they hold, version and all.    *)
StaffSaves(i, w, d) ==
    /\ "impose" \in scope.ops /\ Free(i) /\ d.version <= scope.versions
    /\ StartsSaving(i, "impose", w, d, NoAction)
    /\ Checked(w, d)

(* Faulty variant: a proposal is settled once its document is written.     *)
SavesAndSettles(i) ==
    /\ call[i].pc = "save" /\ call[i].flow # NoWorkflow
    /\ flow' = [flow EXCEPT ![call[i].flow] = call[i].doc]
    /\ call' = [call EXCEPT ![i].pc = IF call[i].op = "apply" THEN "settle" ELSE "record"]
    /\ UNCHANGED <<scope, edition, run, action, org, began, vetted, stored, disturbed>>

(* saveWorkflowWithVersion, first write.                                   *)
SavesWorkflow(i) ==
    /\ call[i].pc = "save" /\ call[i].flow # NoWorkflow
    /\ flow' = [flow EXCEPT ![call[i].flow] = call[i].doc]
    /\ call' = [call EXCEPT ![i].pc = "record"]
    /\ UNCHANGED <<scope, edition, run, action, org, began, vetted, stored, disturbed>>

(* Second write; an applied proposal is settled after it.                  *)
AfterRecord(i) == IF call[i].op = "apply" THEN [call[i] EXCEPT !.pc = "settle"] ELSE Idle

RecordsVersion(i) ==
    /\ call[i].pc = "record"
    /\ edition' = [edition EXCEPT ![call[i].flow][call[i].doc.version] = call[i].doc]
    /\ call' = [call EXCEPT ![i] = AfterRecord(i)]
    /\ stored' = stored \cup IF call[i].op = "apply" THEN {call[i].action} ELSE {}
    /\ UNCHANGED <<scope, flow, run, action, org, began, vetted, disturbed>>

(***************************************************************************)
(* The copilot's proposals                                                 *)
(***************************************************************************)
(* draftFrom                                                               *)
DraftFrom(d) == Successor(d, "draft", d.content)

(* Faulty variant: the proposed status is whatever the model says.         *)
CopilotTargetsUnvalidated(d) == {[d EXCEPT !.status = s] : s \in Status \cup {"live"}}

(* What runCopilotTool proposes for a workflow it has read: a new draft, a *)
(* draft with other steps (the document itself if it is a draft), another  *)
(* status, other roles.                                                    *)
CopilotTargets(d) ==
    LET draft == IF d.status = "draft" THEN d ELSE DraftFrom(d)
    IN  {DraftFrom(d), d} \cup {[draft EXCEPT !.content = c] : c \in Content}
          \cup {[d EXCEPT !.status = s] : s \in Status}

(* proposeAction: the snapshot is stored with the proposal.                *)
Proposes(a, w, d, o) ==
    /\ action[a].status = "NONE"
    /\ action' = [action EXCEPT ![a] =
                    [status |-> "PENDING", flow |-> w, doc |-> d, org |-> o]]
    /\ UNCHANGED <<scope, flow, edition, run, org, call, began, vetted, stored, disturbed>>

ProposesChange(a, w) ==
    /\ "copilot" \in scope.ops /\ flow[w] # NoDoc
    /\ \E d \in CopilotTargets(flow[w]) : d.version \in Version /\ Proposes(a, w, d, AnyOrg)

(* duplicate_workflow and generation: the new id is the model's to choose. *)
ProposesNew(a, w) ==
    /\ "copilotnew" \in scope.ops
    /\ \E c \in Content :
        Proposes(a, w, [status |-> "draft", version |-> 1, content |-> c], AnyOrg)

(* update_organization_branding: all else as it was read.                  *)
ProposesBranding(a) == "copilotorg" \in scope.ops /\ Proposes(a, NoWorkflow, NoDoc, org)

(* applyCopilotAction reads the proposal; only a pending one is applied.   *)
AppliesWorkflow(i, a) ==
    /\ Free(i) /\ action[a].status = "PENDING" /\ action[a].flow # NoWorkflow
    /\ StartsSaving(i, "apply", action[a].flow, action[a].doc, a)
    /\ Checked(action[a].flow, action[a].doc)

AppliesBranding(i, a) ==
    /\ Free(i) /\ action[a].status = "PENDING" /\ action[a].flow = NoWorkflow
    /\ Begin(i, [Idle EXCEPT !.op = "apply", !.pc = "orgsave", !.org = action[a].org,
                             !.action = a])
    /\ UNCHANGED <<scope, flow, edition, run, action, org, began, vetted, stored, disturbed>>

SettlesAction(i) ==
    /\ call[i].pc = "settle"
    /\ action' = [action EXCEPT ![call[i].action].status = "APPLIED"]
    /\ Return(i)
    /\ UNCHANGED <<scope, flow, edition, run, org, began, vetted, stored, disturbed>>

ReadsForDiscard(i, a) ==
    /\ Free(i) /\ action[a].status = "PENDING"
    /\ Begin(i, [Idle EXCEPT !.op = "discard", !.pc = "discard", !.action = a])
    /\ UNCHANGED <<scope, flow, edition, run, action, org, began, vetted, stored, disturbed>>

Discards(i) ==
    /\ call[i].pc = "discard"
    /\ action' = [action EXCEPT ![call[i].action].status = "DISCARDED"]
    /\ Return(i)
    /\ UNCHANGED <<scope, flow, edition, run, org, began, vetted, stored, disturbed>>

(***************************************************************************)
(* The organization                                                        *)
(***************************************************************************)
(* The profile and settings routes read the organization, ...              *)
ReadsOrg(i, o) ==
    /\ "settings" \in scope.ops /\ Free(i)
    /\ \/ o.status = org.status /\ o.limit # org.limit
       \/ o.limit = org.limit /\ o.status # org.status
    /\ Begin(i, [Idle EXCEPT !.op = "settings", !.pc = "orgsave", !.org = o])
    /\ UNCHANGED <<scope, flow, edition, run, action, org, began, vetted, stored, disturbed>>

(* ... and save all of it.                                                 *)
SavesOrg(i) ==
    /\ call[i].pc = "orgsave"
    /\ org' = call[i].org
    /\ call' = [call EXCEPT ![i] = AfterRecord(i)]
    /\ stored' = stored \cup IF call[i].op = "apply" THEN {call[i].action} ELSE {}
    /\ UNCHANGED <<scope, flow, edition, run, action, began, vetted, disturbed>>

(***************************************************************************)
(* Starting a run                                                          *)
(***************************************************************************)
(* POST /workflows/{id}/runs reads the workflow, ...                       *)
ReadsWorkflow(i, w, r) ==
    /\ "start" \in scope.ops /\ Free(i) /\ Fresh(r)
    /\ flow[w] # NoDoc /\ flow[w].status \in Runnable
    /\ Begin(i, [Idle EXCEPT !.op = "start", !.pc = "org", !.flow = w, !.doc = flow[w],
                             !.run = r])
    /\ UNCHANGED <<scope, flow, edition, run, action, org, began, vetted, stored, disturbed>>

(* ... then the organization, which must be active, ...                    *)
GatesOnOrg(i) ==
    /\ call[i].pc = "org"
    /\ call' = [call EXCEPT ![i] = IF org.status = "active"
                                   THEN [call[i] EXCEPT !.pc = "count", !.limit = org.limit]
                                   ELSE Idle]
    /\ UNCHANGED <<scope, flow, edition, run, action, org, began, vetted, stored, disturbed>>

(* Faulty variant: the limit itself still passes.                          *)
AtMostLimit(limit) == limit = 0 \/ Cardinality(Live) <= limit

(* ... then counts the runs in flight.                                     *)
BelowLimit(limit) == limit = 0 \/ Cardinality(Live) < limit

CountsRuns(i) ==
    /\ call[i].pc = "count"
    /\ call' = [call EXCEPT ![i] = IF BelowLimit(call[i].limit)
                                   THEN [call[i] EXCEPT !.pc = "begin"] ELSE Idle]
    /\ UNCHANGED <<scope, flow, edition, run, action, org, began, vetted, stored, disturbed>>

(* Preflight may still refuse; a failed read of the request's body too.    *)
PreflightRefuses(i) ==
    /\ call[i].pc = "begin" /\ call[i].op = "start"
    /\ Return(i)
    /\ UNCHANGED <<scope, flow, edition, run, action, org, began, vetted, stored, disturbed>>

(* WorkflowEngine.start: the run is pinned to the version of the document  *)
(* the request holds.                                                      *)
BeginsRun(i) ==
    /\ call[i].pc = "begin"
    /\ run' = [run EXCEPT ![call[i].run] =
                 [flow |-> call[i].flow, version |-> call[i].doc.version, status |-> "LIVE",
                  gated |-> call[i].op = "start", from |-> call[i].from]]
    /\ began' = [began EXCEPT ![call[i].run] = call[i].doc.content]
    /\ Return(i)
    /\ UNCHANGED <<scope, flow, edition, action, org, vetted, stored, disturbed>>

(* Faulty variant: the resumed run follows the workflow as it is now.      *)
ResumesCurrent(i, old, r) ==
    /\ "resume" \in scope.ops /\ Free(i) /\ Fresh(r) /\ run[old].status = "FAILED"
    /\ Begin(i, [Idle EXCEPT !.op = "resume", !.pc = "begin", !.flow = run[old].flow,
                             !.doc = flow[run[old].flow], !.run = r, !.from = old])
    /\ UNCHANGED <<scope, flow, edition, run, action, org, began, vetted, stored, disturbed>>

(* resumeRunFromException: a new run, pinned to what the old one was pinned *)
(* to; neither the workflow's status nor the organization is looked at.    *)
ResumesException(i, old, r) ==
    /\ "resume" \in scope.ops /\ Free(i) /\ Fresh(r) /\ run[old].status = "FAILED"
    /\ Begin(i, [Idle EXCEPT !.op = "resume", !.pc = "begin", !.flow = run[old].flow,
                             !.doc = Resolved(run[old].flow, run[old].version), !.run = r,
                             !.from = old])
    /\ UNCHANGED <<scope, flow, edition, run, action, org, began, vetted, stored, disturbed>>

(* A run ends; how is the business of another module.                      *)
EndsRun(r, s) ==
    /\ "end" \in scope.ops /\ run[r].status = "LIVE" /\ s \in {"FAILED", "DONE"}
    /\ run' = [run EXCEPT ![r].status = s]
    /\ UNCHANGED <<scope, flow, edition, action, org, call, began, vetted, stored, disturbed>>

(* An invocation dies, or one of its writes fails; between the two writes  *)
(* of a save that leaves a workflow without its version record.            *)
Dies(i) ==
    /\ scope.crashes /\ i \in Busy
    /\ Return(i)
    /\ disturbed' = disturbed \cup IF call[i].pc = "record" THEN {call[i].flow} ELSE {}
    /\ UNCHANGED <<scope, flow, edition, run, action, org, began, vetted, stored>>

Next ==
    \/ \E i \in Slot, w \in Workflow, s \in Status, c \in Content :
          EditsDraft(i, w, s, c) \/ CreatesDraft(i, w, s, c)
    \/ \E i \in Slot, w \in Workflow : Publishes(i, w) \/ Unpublishes(i, w) \/ Archives(i, w)
    \/ \E i \in Slot, w, source \in Workflow : Duplicates(i, w, source)
    \/ \E i \in Slot, w \in Workflow, d \in Doc : StaffSaves(i, w, d)
    \/ \E i \in Slot : SavesWorkflow(i) \/ RecordsVersion(i)
    \/ \E a \in Action, w \in Workflow : ProposesChange(a, w) \/ ProposesNew(a, w)
    \/ \E a \in Action : ProposesBranding(a)
    \/ \E i \in Slot, a \in Action :
          AppliesWorkflow(i, a) \/ AppliesBranding(i, a) \/ ReadsForDiscard(i, a)
    \/ \E i \in Slot : SettlesAction(i) \/ Discards(i)
    \/ \E i \in Slot, o \in OrgDoc : ReadsOrg(i, o)
    \/ \E i \in Slot : SavesOrg(i) \/ GatesOnOrg(i) \/ CountsRuns(i)
                         \/ PreflightRefuses(i) \/ BeginsRun(i) \/ Dies(i)
    \/ \E i \in Slot, w \in Workflow, r \in Run : ReadsWorkflow(i, w, r)
    \/ \E i \in Slot, old, r \in Run : ResumesException(i, old, r)
    \/ \E r \in Run, s \in {"FAILED", "DONE"} : EndsRun(r, s)

Spec == Init /\ [][Next]_vars

(***************************************************************************)
(* Properties                                                              *)
(***************************************************************************)
TypeOK ==
    /\ scope \in Scope
    /\ flow \in [Workflow -> Doc \cup {NoDoc}]
    /\ edition \in [Workflow -> [Version -> Doc \cup {NoDoc}]]
    /\ run \in [Run -> RunDoc] /\ action \in [Action -> Proposal]
    /\ org \in OrgDoc /\ call \in [Slot -> Call]
    /\ began \in [Run -> Content \cup {NoContent}]
    /\ vetted \subseteq Workflow \X Content /\ stored \subseteq Action
    /\ disturbed \subseteq Workflow

(* A run goes on as it began: whatever is edited, published or archived    *)
(* meanwhile, its pinned version resolves to the content it was started    *)
(* with. Only overlapping edits of the workflow, a save torn between its   *)
(* two writes, or a document saved with a version chosen elsewhere can     *)
(* change that (saveWorkflowWithVersion, getWorkflowVersion).              *)
PinsHold ==
    \A r \in Run : run[r].status # "NONE" /\ run[r].flow \notin disturbed =>
        Resolved(run[r].flow, run[r].version).content = began[r]

(* The same without the exception: what the comment on the version record  *)
(* and the test of the pin say.                                            *)
RunsKeepTheirDefinition ==
    \A r \in Run : run[r].status # "NONE" =>
        Resolved(run[r].flow, run[r].version).content = began[r]

(* A run that resumes a failed one follows the definition the failed one   *)
(* followed, not what the workflow says by now (resumeRunFromException).   *)
ResumedAsBegun ==
    \A r \in Run : run[r].from # NoRun /\ run[r].flow \notin disturbed =>
        /\ began[r] = began[run[r].from]
        /\ run[r].version = run[run[r].from].version

(* However many starts race between the count and the save, the runs that  *)
(* passed the gate exceed the limit by fewer than there are invocations.   *)
GateBound ==
    0 \notin Limits =>
        Cardinality({r \in Live : run[r].gated}) <= MaxLimit + Cardinality(Slot) - 1

(* Nothing is active whose connections were not checked for its content:   *)
(* neither a stale copy nor a proposal puts unchecked steps in force.      *)
ActiveWasVetted ==
    \A w \in Workflow : flow[w] # NoDoc /\ flow[w].status = "active" =>
        <<w, flow[w].content>> \in vetted

(* A proposal reported as applied is in the table, version record          *)
(* included, whatever died on the way (applyCopilotAction settles last).   *)
AppliedWasStored ==
    \A a \in Action : action[a].status = "APPLIED" => a \in stored
=============================================================================

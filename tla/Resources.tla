------------------------------ MODULE Resources ------------------------------
(* The data a signed-in page shows: what it reads, when it reads it again, *)
(* and what becomes of answers that come late, fail or are refused.        *)
(* (packages/domain-ui/src/resource-provider.tsx, apps/customer/app/       *)
(* page.tsx; apps/web/app/app/ops/data.tsx and actions.ts)                 *)
(*                                                                         *)
(* A request whose session ends never returns, and the page is left        *)
(* (Sessions); here pages stay.                                            *)
EXTENDS Naturals, FiniteSets

CONSTANTS
    Resource,       \* keys of what is read
    LiveResource,   \* those read again at every tick
    Me,             \* the key of GET /me
    MaxFact,        \* states of a collection; 0 is the empty one
    MaxReads,       \* reads of one resource in flight
    Pages           \* see Page

Fact == 0..MaxFact
Read == 1..MaxReads
(* Which provider the page is built on, if there is a page; what the       *)
(* claims of the token and what the membership let the person read; how    *)
(* often requests fail, and the person acts, reloads or hides the tab.     *)
Page == [kind : {"none", "shared", "ops"}, claims : SUBSET Resource, member : SUBSET Resource,
         faults : Nat, asks : Nat]

ASSUME ResourcesAssumption ==
    /\ LiveResource \subseteq Resource \ {Me} /\ Me \in Resource
    /\ MaxFact \in Nat \ {0} /\ MaxReads \in Nat \ {0}
    /\ Pages \subseteq {p \in Page : p.kind = "none" \/ Me \in p.claims \cap p.member}

VARIABLES
    page,       \* what this behaviour is about
    fact,       \* the control plane's collections
    slot,       \* what the page shows of each, and how it says it is
    reading,    \* reads in flight
    allowed,    \* what the page takes the person to be allowed to read
    hidden,     \* the tab is in the background
    armed,      \* the timer of the poll is set
    acting,     \* the person's request in flight
    used,       \* changes of visibility, reloads and acts so far
    failed,     \* failed requests so far
    overlapped  \* history: resources of which two reads, or a read and an act, met
vars_R == <<page, fact, slot, reading, allowed, hidden, armed, acting, used, failed, overlapped>>

Slot    == [value : Fact, state : {"loading", "ready", "error", "unavailable"}]
ReadDoc == [pc : {"none", "sent", "answered", "refused", "failed"}, value : Fact]
Act     == [pc : {"none", "sent", "done"}, on : Resource, value : Fact]
Blank   == [value |-> 0, state |-> "loading"]
NoRead  == [pc |-> "none", value |-> 0]
NoAct   == [pc |-> "none", on |-> Me, value |-> 0]

Shared == page.kind = "shared"
Mounted == page.kind # "none"
InFlight(k) == {n \in Read : reading[k][n] # NoRead}

(* loadOne, for all of keys at once, under what the page takes for allowed:*)
(* a read is sent; what is not allowed is unavailable, unasked.            *)
Free(k)     == CHOOSE n \in Read : n \notin InFlight(k)
CanPass(keys) == \A k \in keys : InFlight(k) # Read
Passes(keys, may) ==
    /\ reading' = [k \in Resource |->
                     IF k \in keys \cap may THEN [reading[k] EXCEPT ![Free(k)] = [pc |-> "sent", value |-> 0]]
                     ELSE reading[k]]
    /\ slot' = [k \in Resource |->
                     IF k \in keys \ may THEN [value |-> 0, state |-> "unavailable"] ELSE slot[k]]
    /\ overlapped' = overlapped \cup
                     {k \in keys \cap may : InFlight(k) # {} \/ (~Shared /\ acting # NoAct /\ acting.on = k)}

(* The page mounts and reads everything.                                   *)
Init_R ==
    /\ page \in Pages
    /\ fact = [k \in Resource |-> 1] /\ allowed = page.claims
    /\ slot = [k \in Resource |-> IF k \in page.claims THEN Blank ELSE [value |-> 0, state |-> "unavailable"]]
    /\ reading = [k \in Resource |-> [n \in Read |-> IF Mounted /\ n = 1 /\ k \in page.claims
                                                     THEN [pc |-> "sent", value |-> 0] ELSE NoRead]]
    /\ hidden = FALSE /\ armed = Mounted /\ acting = NoAct
    /\ used = 0 /\ failed = 0 /\ overlapped = {}

(***************************************************************************)
(* Reads                                                                   *)
(***************************************************************************)
(* The control plane answers with what there is, or refuses.               *)
Replies(k, n) ==
    /\ reading[k][n].pc = "sent"
    /\ reading' = [reading EXCEPT ![k][n] = IF k \in page.member THEN [pc |-> "answered", value |-> fact[k]]
                                            ELSE [pc |-> "refused", value |-> 0]]
    /\ UNCHANGED <<page, fact, slot, allowed, hidden, armed, acting, used, failed, overlapped>>

Breaks(k, n) ==
    /\ reading[k][n].pc = "sent" /\ failed < page.faults /\ failed' = failed + 1
    /\ reading' = [reading EXCEPT ![k][n].pc = "failed"]
    /\ UNCHANGED <<page, fact, slot, allowed, hidden, armed, acting, used, overlapped>>

(* Faulty variant: a resource that failed is reset to empty.               *)
LandsBlank(k, n) ==
    LET r == reading[k][n]
    IN  /\ r.pc \in {"answered", "refused", "failed"}
        /\ slot' = [slot EXCEPT ![k] = IF r.pc = "answered" THEN [value |-> r.value, state |-> "ready"]
                                       ELSE [value |-> 0, state |-> "error"]]
        /\ reading' = [reading EXCEPT ![k][n] = NoRead]
        /\ UNCHANGED <<page, fact, allowed, hidden, armed, acting, used, failed, overlapped>>

(* The answer is shown, whatever was shown or sent since; an error leaves  *)
(* the value before.                                                       *)
Lands(k, n) ==
    LET r == reading[k][n]
    IN  /\ r.pc \in {"answered", "refused", "failed"}
        /\ slot' = [slot EXCEPT ![k] = IF r.pc = "answered" THEN [value |-> r.value, state |-> "ready"]
                                       ELSE [@ EXCEPT !.state = "error"]]
        /\ reading' = [reading EXCEPT ![k][n] = NoRead]
        /\ UNCHANGED <<page, fact, allowed, hidden, armed, acting, used, failed, overlapped>>

(* refinePrincipal: once GET /me is ready the membership's role replaces   *)
(* the one guessed from the claims, and everything is read again.          *)
Refines ==
    /\ Shared /\ slot[Me].state = "ready" /\ allowed # page.member /\ CanPass(Resource)
    /\ allowed' = page.member
    /\ Passes(Resource, page.member)
    /\ UNCHANGED <<page, fact, hidden, armed, acting, used, failed>>

(***************************************************************************)
(* When to read                                                            *)
(***************************************************************************)
(* Faulty variant: the timer is set again only while the tab is visible.   *)
TicksWhileVisible ==
    /\ armed /\ armed' = ~hidden
    /\ IF hidden THEN UNCHANGED <<reading, slot, overlapped>>
       ELSE CanPass(LiveResource) /\ Passes(LiveResource, allowed)
    /\ UNCHANGED <<page, fact, allowed, hidden, acting, used, failed>>

(* refreshLive every fifteen seconds, not while the tab is hidden.         *)
Ticks ==
    /\ armed /\ armed' = TRUE
    /\ IF hidden THEN UNCHANGED <<reading, slot, overlapped>>
       ELSE CanPass(LiveResource) /\ Passes(LiveResource, allowed)
    /\ UNCHANGED <<page, fact, allowed, hidden, acting, used, failed>>

(* visibilitychange: on return a read at once, without waiting for a tick. *)
Hides ==
    /\ Mounted /\ ~hidden /\ used < page.asks /\ used' = used + 1 /\ hidden' = TRUE
    /\ UNCHANGED <<page, fact, slot, reading, allowed, armed, acting, failed, overlapped>>
Returns ==
    /\ hidden /\ CanPass(LiveResource) /\ hidden' = FALSE
    /\ Passes(LiveResource, allowed)
    /\ UNCHANGED <<page, fact, allowed, armed, acting, used, failed>>

(* refresh, asked for or because a renewed session makes another client.   *)
Refreshes ==
    /\ used < page.asks /\ used' = used + 1 /\ CanPass(Resource)
    /\ Passes(Resource, allowed)
    /\ UNCHANGED <<page, fact, allowed, hidden, armed, acting, failed>>

(***************************************************************************)
(* Acting                                                                  *)
(***************************************************************************)
(* A request that changes a collection, the control plane's part of it,    *)
(* and what the page does with the answer: it is applied in the operations *)
(* console; the customer surface reads everything again.                   *)
Acts(k) ==
    /\ k # Me /\ slot[k].state = "ready" /\ acting = NoAct /\ used < page.asks /\ used' = used + 1
    /\ acting' = [pc |-> "sent", on |-> k, value |-> 0]
    /\ overlapped' = overlapped \cup (IF ~Shared /\ InFlight(k) # {} THEN {k} ELSE {})
    /\ UNCHANGED <<page, fact, slot, reading, allowed, hidden, armed, failed>>

ActLands ==
    /\ acting.pc = "sent"
    /\ IF fact[acting.on] < MaxFact
       THEN /\ fact' = [fact EXCEPT ![acting.on] = @ + 1]
            /\ acting' = [acting EXCEPT !.pc = "done", !.value = fact[acting.on] + 1]
       ELSE acting' = NoAct /\ UNCHANGED fact
    /\ UNCHANGED <<page, slot, reading, allowed, hidden, armed, used, failed, overlapped>>

Applies ==
    /\ acting.pc = "done" /\ acting' = NoAct
    /\ IF Shared THEN CanPass(Resource) /\ Passes(Resource, allowed)
       ELSE /\ slot' = [slot EXCEPT ![acting.on] = [value |-> acting.value, state |-> "ready"]]
            /\ UNCHANGED <<reading, overlapped>>
    /\ UNCHANGED <<page, fact, allowed, hidden, armed, used, failed>>

(* Somebody else, or a run, changes a collection.                          *)
Changes(k) ==
    /\ Mounted /\ k # Me /\ fact[k] < MaxFact
    /\ fact' = [fact EXCEPT ![k] = @ + 1]
    /\ UNCHANGED <<page, slot, reading, allowed, hidden, armed, acting, used, failed, overlapped>>

Next_R ==
    \/ \E k \in Resource, n \in Read : Replies(k, n) \/ Breaks(k, n) \/ Lands(k, n)
    \/ Refines \/ Ticks \/ Hides \/ Returns \/ Refreshes \/ ActLands \/ Applies
    \/ \E k \in Resource : Acts(k) \/ Changes(k)

(* Requests return, the timer fires, effects run.                          *)
Fairness_R ==
    /\ WF_vars_R(Ticks) /\ WF_vars_R(Refines) /\ WF_vars_R(ActLands) /\ WF_vars_R(Applies)
    /\ \A k \in Resource, n \in Read : WF_vars_R(Replies(k, n)) /\ WF_vars_R(Lands(k, n))
Spec_R == Init_R /\ [][Next_R]_vars_R /\ Fairness_R

(***************************************************************************)
(* Properties                                                              *)
(***************************************************************************)
ResourcesTypeOK ==
    /\ page \in Page /\ fact \in [Resource -> Fact] /\ slot \in [Resource -> Slot]
    /\ reading \in [Resource -> [Read -> ReadDoc]] /\ allowed \subseteq Resource
    /\ hidden \in BOOLEAN /\ armed \in BOOLEAN /\ acting \in Act
    /\ used \in Nat /\ failed \in Nat /\ overlapped \subseteq Resource

(* What is shown never goes back to something older, nor to nothing while  *)
(* the person may read it, whatever fails or is refused in between; unless *)
(* two reads of it, or a read and an act, were in flight together.         *)
NeverBackwards ==
    [][\A k \in Resource \ overlapped' :
          slot'[k].state # "unavailable" => slot'[k].value >= slot[k].value]_vars_R

(* With the tab in view from some time on and the membership's role known, *)
(* the page comes to show of every live resource what there is, or that it *)
(* is unavailable, and stays so: also after reads that overlapped.         *)
Settled(k) == IF k \in page.member THEN slot[k] = [value |-> fact[k], state |-> "ready"]
              ELSE slot[k].state = "unavailable"
Settles ==
    <>[](~hidden /\ allowed = page.member) => <>[](\A k \in LiveResource : Settled(k))
=============================================================================

------------------------------ MODULE Sessions ------------------------------
(* Signed-in browser tabs: the session they share through the storage of   *)
(* their origin, its silent renewal in the middle of a request, and its    *)
(* end.  (packages/api-client/src/index.ts, apps/customer/app/session.ts,  *)
(* apps/web/app/lib)                                                       *)
(*                                                                         *)
(* The identity provider is external: it mints an id token for a refresh   *)
(* token that is not revoked, and tokens lapse.                            *)
EXTENDS Naturals, FiniteSets

CONSTANTS
    Tab, MaxFetches,\* tabs of one origin; requests in flight
    MaxSignIns,     \* sign-ins of a behaviour
    MaxTokens,      \* id tokens of a sign-in that are told apart
    Surfaces        \* see Surface

Fetch   == 1..MaxFetches
SignIn  == 1..MaxSignIns
(* Which surface the tabs show, how often somebody signs in and requests   *)
(* are made, whether the network and the servers fail.                     *)
Surface == [kind : {"web", "customer"}, signIns : 0..MaxSignIns, asks : Nat, faults : BOOLEAN]

ASSUME SessionsAssumption ==
    /\ MaxSignIns \in Nat /\ MaxFetches \in Nat /\ MaxTokens \in Nat \ {0}
    /\ 0 \notin Tab /\ Surfaces \subseteq Surface

(* A session: the sign-in its refresh token is of, and its id token.       *)
Session   == [by : 0..MaxSignIns, age : 0..MaxTokens]
NoSession == [by |-> 0, age |-> 0]

VARIABLES
    surface,    \* what this behaviour is about
    stored,     \* the item under "amazflow_session"
    minted_S,   \* id tokens so far of each sign-in
    lapsed_S,   \* of those, how many lapsed
    revoked_S,  \* sign-ins whose refresh token was revoked
    tab,        \* what each tab is at, and the session it holds
    fetch,      \* requests in flight
    fetched,    \* requests so far
    left,       \* history: sign-ins a sign-out was completed for
    raced       \* history: those whose revocation failed, or met a renewal
clock_S == <<minted_S, lapsed_S>>
vars_S  == <<surface, stored, clock_S, revoked_S, tab, fetch, fetched, left, raced>>

TabDoc  == [at : {"away", "gate", "minted", "open", "revoke", "clear", "leaving"}, session : Session]
Call_S  == [tab : Tab \cup {0}, pc : {"idle", "sent", "renew", "minted", "refused"},
            session : Session, refreshed : BOOLEAN]
Away    == [at |-> "away", session |-> NoSession]
NoFetch == [tab |-> 0, pc |-> "idle", session |-> NoSession, refreshed |-> FALSE]

Init_S ==
    /\ surface \in Surfaces
    /\ stored = NoSession /\ revoked_S = {} /\ left = {} /\ raced = {}
    /\ minted_S = [g \in SignIn |-> 0] /\ lapsed_S = [g \in SignIn |-> 0]
    /\ tab = [t \in Tab |-> Away] /\ fetch = [f \in Fetch |-> NoFetch] /\ fetched = 0

Valid(s)  == s.by # 0 /\ s.age > lapsed_S[s.by]
Runs(t)   == tab[t].at \in {"open", "revoke", "clear"}
Web       == surface.kind = "web"
Goes(t, at)   == tab' = [tab EXCEPT ![t].at = at]
Waits_S(f, pc) == fetch' = [fetch EXCEPT ![f].pc = pc]

(***************************************************************************)
(* Arriving                                                                *)
(***************************************************************************)
(* saveSession after signIn, consumeSessionHandoff in the other origin.    *)
SignsInAt(t) ==
    \E g \in SignIn :
        /\ tab[t] = Away /\ g <= surface.signIns /\ \A h \in 1..g : (minted_S[h] = 0) <=> (h = g)
        /\ minted_S' = [minted_S EXCEPT ![g] = 1]
        /\ stored' = [by |-> g, age |-> 1]
        /\ UNCHANGED <<surface, lapsed_S, revoked_S, tab, fetch, fetched, left, raced>>

(* The gate of the surface: enforceSessionAccess renews a lapsed session   *)
(* first, the customer surface opens with it.                              *)
Opens(t) ==
    /\ tab[t] = Away /\ stored # NoSession
    /\ tab' = [tab EXCEPT ![t] = [at |-> IF Web /\ ~Valid(stored) THEN "gate" ELSE "open",
                                  session |-> stored]]
    /\ UNCHANGED <<surface, stored, clock_S, revoked_S, fetch, fetched, left, raced>>

(* The identity provider's side of a renewal; beyond the last token that   *)
(* is told apart, the last one is valid once more.                         *)
Mints(g) ==
    /\ g \notin revoked_S
    /\ minted_S' = [minted_S EXCEPT ![g] = IF @ < MaxTokens THEN @ + 1 ELSE @]
    /\ lapsed_S' = [lapsed_S EXCEPT ![g] = IF @ < MaxTokens THEN @ ELSE MaxTokens - 1]

GateMints(t) ==
    /\ tab[t].at = "gate" /\ Mints(tab[t].session.by)
    /\ tab' = [tab EXCEPT ![t] = [at |-> "minted",
                                  session |-> [@.session EXCEPT !.age = minted_S'[tab[t].session.by]]]]
    /\ UNCHANGED <<surface, stored, revoked_S, fetch, fetched, left, raced>>

(* resolveSession: the renewed session is saved; or the item removed.      *)
GateOpens(t) ==
    /\ tab[t].at = "minted"
    /\ stored' = tab[t].session /\ Goes(t, "open")
    /\ UNCHANGED <<surface, clock_S, revoked_S, fetch, fetched, left, raced>>
GateRefused(t) ==
    /\ tab[t].at = "gate" /\ (tab[t].session.by \in revoked_S \/ surface.faults)
    /\ stored' = NoSession /\ tab' = [tab EXCEPT ![t] = Away]
    /\ UNCHANGED <<surface, clock_S, revoked_S, fetch, fetched, left, raced>>

(***************************************************************************)
(* createApiClient: request                                                *)
(***************************************************************************)
Sends(t, f) ==
    /\ Runs(t) /\ fetch[f] = NoFetch /\ (\A e \in Fetch : e < f => fetch[e] # NoFetch) /\ fetched < surface.asks
    /\ fetch' = [fetch EXCEPT ![f] = [tab |-> t, pc |-> "sent", session |-> tab[t].session,
                                      refreshed |-> FALSE]]
    /\ fetched' = fetched + 1
    /\ UNCHANGED <<surface, stored, clock_S, revoked_S, tab, left, raced>>

(* Anything but a refused session is handed to the caller.                 *)
Answered(f) ==
    /\ fetch[f].pc = "sent" /\ (Valid(fetch[f].session) \/ surface.faults)
    /\ fetch' = [fetch EXCEPT ![f] = NoFetch]
    /\ UNCHANGED <<surface, stored, clock_S, revoked_S, tab, fetched, left, raced>>

(* 401: one renewal, then the session ends; 403 of a deactivated account.  *)
Unauthorized(f) ==
    /\ fetch[f].pc = "sent" /\ (~Valid(fetch[f].session) \/ surface.faults)
    /\ Waits_S(f, IF fetch[f].refreshed THEN "refused" ELSE "renew")
    /\ UNCHANGED <<surface, stored, clock_S, revoked_S, tab, fetched, left, raced>>
Deactivated(f) ==
    /\ fetch[f].pc = "sent" /\ surface.faults
    /\ Waits_S(f, "refused")
    /\ UNCHANGED <<surface, stored, clock_S, revoked_S, tab, fetched, left, raced>>

FetchMints(f) ==
    /\ fetch[f].pc = "renew" /\ Mints(fetch[f].session.by)
    /\ fetch' = [fetch EXCEPT ![f].pc = "minted", ![f].session.age = minted_S'[fetch[f].session.by]]
    /\ UNCHANGED <<surface, stored, revoked_S, tab, fetched, left, raced>>
FetchRefused(f) ==
    /\ fetch[f].pc = "renew" /\ (fetch[f].session.by \in revoked_S \/ surface.faults)
    /\ Waits_S(f, "refused")
    /\ UNCHANGED <<surface, stored, clock_S, revoked_S, tab, fetched, left, raced>>

(* Faulty variant: that the session was renewed is forgotten.              *)
PersistsForgetting(f) ==
    /\ fetch[f].pc = "minted"
    /\ stored' = fetch[f].session
    /\ tab' = [tab EXCEPT ![fetch[f].tab].session = fetch[f].session]
    /\ fetch' = [fetch EXCEPT ![f].pc = "sent"]
    /\ UNCHANGED <<surface, clock_S, revoked_S, fetched, left, raced>>

(* persist, then exactly one retry, in one turn of the event loop.         *)
Persists(f) ==
    /\ fetch[f].pc = "minted"
    /\ stored' = fetch[f].session
    /\ tab' = [tab EXCEPT ![fetch[f].tab].session = fetch[f].session]
    /\ fetch' = [fetch EXCEPT ![f].pc = "sent", ![f].refreshed = TRUE]
    /\ UNCHANGED <<surface, clock_S, revoked_S, fetched, left, raced>>

(* endSession: the item is removed and the page left, by way of a sign-out *)
(* in the web surface; the caller's promise never settles.                 *)
EndsSession(f) ==
    /\ fetch[f].pc = "refused"
    /\ stored' = NoSession
    /\ Goes(fetch[f].tab, IF tab[fetch[f].tab].at # "open" THEN tab[fetch[f].tab].at
                          ELSE IF Web THEN "revoke" ELSE "leaving")
    /\ fetch' = [fetch EXCEPT ![f] = NoFetch]
    /\ UNCHANGED <<surface, clock_S, revoked_S, fetched, left, raced>>

(***************************************************************************)
(* signOut, signOutSession                                                 *)
(***************************************************************************)
SignsOut(t) ==
    /\ tab[t].at = "open" /\ Goes(t, "revoke")
    /\ UNCHANGED <<surface, stored, clock_S, revoked_S, fetch, fetched, left, raced>>

(* Renewals of a sign-in that the identity provider granted and that no    *)
(* tab has heard of yet.                                                   *)
Granted(g) == \/ \E f \in Fetch : fetch[f].pc = "minted" /\ fetch[f].session.by = g
              \/ \E t \in Tab : tab[t].at = "minted" /\ tab[t].session.by = g

(* Faulty variant: the session is forgotten here and left alive there.     *)
RevokesNothing(t) ==
    /\ tab[t].at = "revoke" /\ Goes(t, "clear")
    /\ UNCHANGED <<surface, stored, clock_S, revoked_S, fetch, fetched, left, raced>>

(* The refresh token is revoked, as well as may be; signOutEverywhere has  *)
(* those of every sign-in of the person revoked first.                     *)
RevokesToken(t) ==
    /\ tab[t].at = "revoke" /\ Goes(t, "clear")
    /\ \E gone \in {{tab[t].session.by}, {g \in SignIn : minted_S[g] > 0}} \cup
                       (IF surface.faults THEN {{}} ELSE {}) :
          /\ revoked_S' = revoked_S \cup gone
          /\ raced' = raced \cup {g \in SignIn : Granted(g) \/ g \notin gone}
    /\ UNCHANGED <<surface, stored, clock_S, fetch, fetched, left>>

ClearsSession(t) ==
    /\ tab[t].at = "clear"
    /\ stored' = NoSession /\ left' = left \cup {tab[t].session.by}
    /\ tab' = [tab EXCEPT ![t] = [at |-> "leaving", session |-> NoSession]]
    /\ UNCHANGED <<surface, clock_S, revoked_S, fetch, fetched, raced>>

(* Faulty variant: what the page asked for still comes back to it.         *)
UnloadsAlone(t) ==
    /\ tab[t] # Away /\ tab' = [tab EXCEPT ![t] = Away]
    /\ UNCHANGED <<surface, stored, clock_S, revoked_S, fetch, fetched, left, raced>>

(* The page is replaced, or closed: nothing of it runs any more.           *)
Unloads(t) ==
    /\ tab[t] # Away /\ tab' = [tab EXCEPT ![t] = Away]
    /\ fetch' = [f \in Fetch |-> IF fetch[f].tab = t THEN NoFetch ELSE fetch[f]]
    /\ UNCHANGED <<surface, stored, clock_S, revoked_S, fetched, left, raced>>

TokenLapses(g) ==
    /\ lapsed_S[g] < minted_S[g]
    /\ lapsed_S' = [lapsed_S EXCEPT ![g] = @ + 1]
    /\ UNCHANGED <<surface, stored, minted_S, revoked_S, tab, fetch, fetched, left, raced>>

Serves(f) == \/ Answered(f) \/ Unauthorized(f) \/ Deactivated(f) \/ FetchMints(f) \/ FetchRefused(f)
             \/ Persists(f) \/ EndsSession(f)
Next_S ==
    \/ \E t \in Tab : SignsInAt(t) \/ Opens(t) \/ GateMints(t) \/ GateOpens(t) \/ GateRefused(t)
    \/ \E t \in Tab : SignsOut(t) \/ RevokesToken(t) \/ ClearsSession(t) \/ Unloads(t)
    \/ \E t \in Tab, f \in Fetch : Sends(t, f)
    \/ \E f \in Fetch : Serves(f)
    \/ \E g \in SignIn : TokenLapses(g)

(* Servers answer, or the network reports that they did not.               *)
Fairness_S == \A f \in Fetch : WF_vars_S(Serves(f))
Spec_S == Init_S /\ [][Next_S]_vars_S /\ Fairness_S

(***************************************************************************)
(* Properties                                                              *)
(***************************************************************************)
(* A page that is not there holds no session and makes no request.         *)
Housed ==
    /\ \A t \in Tab : tab[t].at = "away" => tab[t] = Away
    /\ \A f \in Fetch : fetch[f] # NoFetch =>
          fetch[f].tab \in Tab /\ tab[fetch[f].tab].at \notin {"away", "gate", "minted"}

(* The state has its type, and what runs belongs to a page that is there.  *)
SessionsTypeOK ==
    /\ surface \in Surface /\ stored \in Session /\ tab \in [Tab -> TabDoc]
    /\ minted_S \in [SignIn -> 0..MaxTokens] /\ lapsed_S \in [SignIn -> 0..MaxTokens]
    /\ revoked_S \subseteq SignIn /\ fetch \in [Fetch -> Call_S] /\ fetched \in Nat
    /\ left \subseteq SignIn /\ raced \subseteq SignIn
    /\ Housed

(* Once somebody signed out, no tab of the origin puts that session back   *)
(* where the next visitor would find it, unless the revocation failed or   *)
(* met a renewal already granted.                                          *)
SignedOutStays == stored.by \notin left \ raced

(* Every request ends: with an answer, or with the page.                   *)
RequestsEnd == \A f \in Fetch : fetch[f].pc # "idle" ~> fetch[f].pc = "idle"
=============================================================================

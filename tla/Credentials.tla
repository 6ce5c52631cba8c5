----------------------------- MODULE Credentials -----------------------------
(* What the platform holds on behalf of an organization: agents with their *)
(* codes and bearer credentials, signed-in browser connections whose       *)
(* profiles another service keeps, and secrets whose values another        *)
(* service keeps.  (services/control-plane/src/handler.ts)                 *)
(*                                                                         *)
(* Every request here was authorized already (Permissions, Directory).     *)
EXTENDS Naturals, FiniteSets

CONSTANTS
    Browser, Agent, Code, Token,    \* installations of one person; ids; bearer tokens
    Connection, Login, Profile, Secret,
    Value,                          \* what secrets are told apart by
    Worker,                         \* invocations
    Custodies,                      \* see Custody
    NoBrowser, None

Errands == {"authorize", "exchange", "beat", "revokeagent", "connect", "login", "complete",
            "disconnect", "create", "rotate", "delete"}
(* What is asked in one behaviour and at most how often, how many          *)
(* invocations are in flight and whether they die.                         *)
Custody == [ops : SUBSET Errands, asks : Nat, inFlight : Nat, crashes : BOOLEAN]

ASSUME CredentialsAssumption ==
    /\ Custodies \subseteq Custody
    /\ None \notin Agent \cup Code \cup Token \cup Connection \cup Login \cup Profile \cup Secret \cup Value
    /\ NoBrowser \notin Browser

AgentDoc == [status : {"none", "active", "revoked"}, browser : Browser \cup {NoBrowser}]
CodeDoc  == [status : {"none", "PENDING", "USED"}, agent : Agent \cup {None}]
TokenDoc == [status : {"none", "active", "superseded"}, agent : Agent \cup {None}]
LinkDoc  == [status : {"none", "pending", "active", "revoked"}, profile : Profile \cup {None}]
LoginDoc == [status : {"none", "PENDING", "COMPLETED"}, link : Connection \cup {None},
             profile : Profile \cup {None}]

VARIABLES
    custody,    \* what this behaviour is about
    agent,      \* AGENT# documents
    code,       \* AGENTCODE# documents
    lapsedCode, \* codes past their minutes
    token,      \* AGENTCRED# documents
    link,       \* BROWSERCONNECTION# documents
    login,      \* BROWSERLOGIN# documents
    lateLogin,  \* login sessions past their minutes
    profile,    \* profiles at the browser service: none, blank, signed or deleted
    record,     \* SECRET# documents: the hint they carry
    vault,      \* values at the secret store
    errand,     \* invocations in flight
    requested,  \* requests so far
    yielded,    \* history: tokens issued for each code
    retired,    \* history: tokens that existed when their agent was revoked
    tangled     \* history: documents two requests had in hand together, or one died with
documents == <<agent, code, token, link, login, profile, record, vault>>
clocks    == <<lapsedCode, lateLogin>>
vars_C    == <<custody, documents, clocks, errand, requested, yielded, retired, tangled>>

Errand == [op : Errands \cup {"none"},
           pc : {"idle", "tokens", "saveagent", "putcode", "usecode", "puttoken", "gate", "read",
                 "profile", "savelink", "savelogin", "store", "saves", "delete", "saverecord",
                 "drop"},
           agent : Agent \cup {None}, agentDoc : AgentDoc, todo : SUBSET Token,
           code : Code \cup {None}, link : Connection \cup {None}, linkDoc : LinkDoc,
           login : Login \cup {None}, left : SUBSET {"login", "link"},
           secret : Secret \cup {None}, value : Value \cup {None}]
NoAgent_C == [status |-> "none", browser |-> NoBrowser]
NoLink    == [status |-> "none", profile |-> None]
AtRest    == [op |-> "none", pc |-> "idle", agent |-> None, agentDoc |-> NoAgent_C, todo |-> {},
              code |-> None, link |-> None, linkDoc |-> NoLink, login |-> None, left |-> {},
              secret |-> None, value |-> None]

Init_C ==
    /\ custody \in Custodies
    /\ agent = [g \in Agent |-> NoAgent_C]
    /\ code = [k \in Code |-> [status |-> "none", agent |-> None]] /\ lapsedCode = {}
    /\ token = [t \in Token |-> [status |-> "none", agent |-> None]]
    /\ link = [n \in Connection |-> NoLink] /\ lateLogin = {}
    /\ login = [l \in Login |-> [status |-> "none", link |-> None, profile |-> None]]
    /\ profile = [p \in Profile |-> "none"]
    /\ record = [s \in Secret |-> None] /\ vault = [s \in Secret |-> None]
    /\ errand = [w \in Worker |-> AtRest] /\ requested = 0
    /\ yielded = [k \in Code |-> 0] /\ retired = {} /\ tangled = {}

(* A new id: they are random, and one is as good as another.               *)
Fresh(S, spent) == {x \in S : x \notin spent /\ x = CHOOSE y \in S : y \notin spent}
Running == {w \in Worker : errand[w].pc # "idle"}
Step(w, pc)  == errand' = [errand EXCEPT ![w].pc = pc]
Finish(w)    == errand' = [errand EXCEPT ![w] = AtRest]
Doing(w, op, pc) == errand[w].op = op /\ errand[w].pc = pc

(* The documents a request has in hand until it returns.                   *)
Held(e) == ({e.agent, e.code, e.link, e.secret} \ {None})

(* An invocation with the details e; it may share documents with others.   *)
Begins(w, op, e) ==
    /\ op \in custody.ops /\ w \in Fresh(Worker, Running) /\ Cardinality(Running) < custody.inFlight
    /\ requested < custody.asks /\ requested' = requested + 1
    /\ errand' = [errand EXCEPT ![w] = [e EXCEPT !.op = op]]
    /\ tangled' = tangled \cup (Held(e) \cap UNION {Held(errand[v]) : v \in Running})
    /\ UNCHANGED <<custody, documents, clocks, yielded, retired>>

(***************************************************************************)
(* Agents                                                                  *)
(***************************************************************************)
(* createAgentAndCode: this browser's agent is looked for, its tokens      *)
(* retired, and it is made active again; or another agent is registered.   *)
Known(b) == {g \in Agent : agent[g].status # "none" /\ agent[g].browser = b /\ b # NoBrowser}
Authorizes(w, b) ==
    \E g \in IF Known(b) # {} THEN Known(b)
             ELSE Fresh(Agent, {h \in Agent : agent[h].status # "none"} \cup {errand[v].agent : v \in Worker}) :
        Begins(w, "authorize",
               [AtRest EXCEPT !.agent = g, !.agentDoc = [status |-> "active", browser |-> b],
                              !.pc = IF Known(b) # {} THEN "tokens" ELSE "saveagent"])

(* Faulty variant: only the tokens of an active agent are retired.         *)
ScansTokensOfActive(w) ==
    /\ Doing(w, "authorize", "tokens")
    /\ errand' = [errand EXCEPT ![w].pc = "saveagent",
                    ![w].todo = {t \in Token : /\ token[t] = [status |-> "active", agent |-> errand[w].agent]
                                               /\ agent[errand[w].agent].status = "active"}]
    /\ UNCHANGED <<custody, documents, clocks, requested, yielded, retired, tangled>>

ScansTokens(w) ==
    /\ Doing(w, "authorize", "tokens")
    /\ errand' = [errand EXCEPT ![w].pc = "saveagent",
                    ![w].todo = {t \in Token : token[t] = [status |-> "active", agent |-> errand[w].agent]}]
    /\ UNCHANGED <<custody, documents, clocks, requested, yielded, retired, tangled>>

Supersedes(w, t) ==
    /\ errand[w].pc = "saveagent" /\ t \in errand[w].todo
    /\ token' = [token EXCEPT ![t].status = "superseded"]
    /\ errand' = [errand EXCEPT ![w].todo = @ \ {t}]
    /\ UNCHANGED <<custody, agent, code, link, login, profile, record, vault, clocks, requested,
                   yielded, retired, tangled>>

(* save("AGENT"): of an authorization, a heartbeat or a revocation.        *)
SavesAgent(w) ==
    /\ errand[w].pc = "saveagent" /\ errand[w].todo = {}
    /\ agent' = [agent EXCEPT ![errand[w].agent] = errand[w].agentDoc]
    /\ retired' = IF errand[w].op # "revokeagent" THEN retired
                  ELSE retired \cup {t \in Token : token[t].agent = errand[w].agent}
    /\ IF errand[w].op = "authorize" THEN Step(w, "putcode") ELSE Finish(w)
    /\ UNCHANGED <<custody, code, token, link, login, profile, record, vault, clocks, requested,
                   yielded, tangled>>

PutsCode(w, k) ==
    /\ errand[w].pc = "putcode" /\ k \in Fresh(Code, {j \in Code : code[j].status # "none"})
    /\ code' = [code EXCEPT ![k] = [status |-> "PENDING", agent |-> errand[w].agent]]
    /\ Finish(w)
    /\ UNCHANGED <<custody, agent, token, link, login, profile, record, vault, clocks, requested,
                   yielded, retired, tangled>>

CodeLapses(k) ==
    /\ code[k].status = "PENDING" /\ k \notin lapsedCode
    /\ lapsedCode' = lapsedCode \cup {k}
    /\ UNCHANGED <<custody, documents, lateLogin, errand, requested, yielded, retired, tangled>>

(* exchangeAgentCode: the code is read, marked used, a token stored.       *)
Exchanges(w, k) ==
    /\ code[k].status = "PENDING" /\ k \notin lapsedCode
    /\ Begins(w, "exchange", [AtRest EXCEPT !.code = k, !.pc = "usecode"])

(* Faulty variant: the code is marked used once the token is stored.       *)
LeavesCode(w) ==
    /\ errand[w].pc = "usecode"
    /\ Step(w, "puttoken")
    /\ UNCHANGED <<custody, documents, clocks, requested, yielded, retired, tangled>>

UsesCode(w) ==
    /\ errand[w].pc = "usecode"
    /\ code' = [code EXCEPT ![errand[w].code].status = "USED"]
    /\ Step(w, "puttoken")
    /\ UNCHANGED <<custody, agent, token, link, login, profile, record, vault, clocks, requested,
                   yielded, retired, tangled>>

(* Faulty variant: the token's document is the code's.                     *)
PutsCodeAsToken(w, t) ==
    /\ errand[w].pc = "puttoken" /\ t \in Fresh(Token, {u \in Token : token[u].status # "none"})
    /\ token' = [token EXCEPT ![t] = code[errand[w].code]]
    /\ yielded' = [yielded EXCEPT ![errand[w].code] = @ + 1]
    /\ Finish(w)
    /\ UNCHANGED <<custody, agent, code, link, login, profile, record, vault, clocks, requested,
                   retired, tangled>>

PutsToken(w, t) ==
    /\ errand[w].pc = "puttoken" /\ t \in Fresh(Token, {u \in Token : token[u].status # "none"})
    /\ token' = [token EXCEPT ![t] = [status |-> "active", agent |-> code[errand[w].code].agent]]
    /\ yielded' = [yielded EXCEPT ![errand[w].code] = @ + 1]
    /\ Finish(w)
    /\ UNCHANGED <<custody, agent, code, link, login, profile, record, vault, clocks, requested,
                   retired, tangled>>

(* agentAuth and touchAgentHeartbeat: the token, the agent, and the agent  *)
(* once more, which is written back as it was read then.                   *)
Beats(w, t) ==
    /\ token[t].status = "active"
    /\ Begins(w, "beat", [AtRest EXCEPT !.agent = token[t].agent, !.pc = "gate"])

PassesGate(w) ==
    /\ Doing(w, "beat", "gate")
    /\ IF agent[errand[w].agent].status = "active" THEN Step(w, "read") ELSE Finish(w)
    /\ UNCHANGED <<custody, documents, clocks, requested, yielded, retired, tangled>>

ReadsAgent(w) ==
    /\ Doing(w, "beat", "read")
    /\ errand' = [errand EXCEPT ![w].pc = "saveagent", ![w].agentDoc = agent[errand[w].agent]]
    /\ UNCHANGED <<custody, documents, clocks, requested, yielded, retired, tangled>>

(* revokeAgent *)
RevokesAgent(w, g) ==
    /\ agent[g].status # "none"
    /\ Begins(w, "revokeagent", [AtRest EXCEPT !.agent = g, !.pc = "saveagent",
                                               !.agentDoc = [agent[g] EXCEPT !.status = "revoked"]])

(***************************************************************************)
(* Browser connections                                                     *)
(***************************************************************************)
(* createBrowserConnection *)
Connects(n) ==
    /\ "connect" \in custody.ops /\ link[n] = NoLink
    /\ link' = [link EXCEPT ![n].status = "pending"]
    /\ UNCHANGED <<custody, agent, code, token, login, profile, record, vault, clocks, errand,
                   requested, yielded, retired, tangled>>

(* startBrowserLogin: a profile is created once, named in the connection,  *)
(* and a login session recorded.                                           *)
StartsLogin(w, n) ==
    /\ link[n].status \notin {"none", "revoked"}
    /\ Begins(w, "login", [AtRest EXCEPT !.link = n, !.linkDoc = link[n],
                                         !.pc = IF link[n].profile = None THEN "profile" ELSE "savelink"])

CreatesProfile(w, p) ==
    /\ errand[w].pc = "profile" /\ p \in Fresh(Profile, {q \in Profile : profile[q] # "none"})
    /\ profile' = [profile EXCEPT ![p] = "blank"]
    /\ errand' = [errand EXCEPT ![w].pc = "savelink", ![w].linkDoc.profile = p]
    /\ UNCHANGED <<custody, agent, code, token, link, login, record, vault, clocks, requested,
                   yielded, retired, tangled>>

(* save("BROWSERCONNECTION"): of a login's start, or of a revocation.      *)
SavesLink(w) ==
    /\ errand[w].pc = "savelink"
    /\ link' = [link EXCEPT ![errand[w].link] = errand[w].linkDoc]
    /\ IF errand[w].op = "login" THEN Step(w, "savelogin") ELSE Finish(w)
    /\ UNCHANGED <<custody, agent, code, token, login, profile, record, vault, clocks, requested,
                   yielded, retired, tangled>>

SavesLogin(w, l) ==
    /\ errand[w].pc = "savelogin" /\ l \in Fresh(Login, {m \in Login : login[m].status # "none"})
    /\ login' = [login EXCEPT ![l] = [status |-> "PENDING", link |-> errand[w].link,
                                      profile |-> errand[w].linkDoc.profile]]
    /\ Finish(w)
    /\ UNCHANGED <<custody, agent, code, token, link, profile, record, vault, clocks, requested,
                   yielded, retired, tangled>>

LoginLapses(l) ==
    /\ login[l].status = "PENDING" /\ l \notin lateLogin
    /\ lateLogin' = lateLogin \cup {l}
    /\ UNCHANGED <<custody, documents, lapsedCode, errand, requested, yielded, retired, tangled>>

(* Faulty variant: the documents are written, the profile is not saved.    *)
CompletesUnsaved(w, n, l) ==
    /\ login[l].status = "PENDING" /\ login[l].link = n /\ l \notin lateLogin
    /\ Begins(w, "complete", [AtRest EXCEPT !.link = n, !.login = l, !.pc = "saves",
                                            !.left = {"login", "link"},
                                            !.linkDoc = [link[n] EXCEPT !.status = "active"]])

(* completeBrowserLogin: what the person signed in to is saved to the      *)
(* login's profile; then both documents are written, in either order.      *)
CompletesLogin(w, n, l) ==
    /\ login[l].status = "PENDING" /\ login[l].link = n /\ l \notin lateLogin
    /\ Begins(w, "complete", [AtRest EXCEPT !.link = n, !.login = l, !.pc = "store",
                                            !.left = {"login", "link"},
                                            !.linkDoc = [link[n] EXCEPT !.status = "active"]])

SavesProfile(w) ==
    LET p == login[errand[w].login].profile
    IN  /\ Doing(w, "complete", "store")
        /\ IF profile[p] = "deleted" THEN Finish(w) /\ UNCHANGED profile
           ELSE Step(w, "saves") /\ profile' = [profile EXCEPT ![p] = "signed"]
        /\ UNCHANGED <<custody, agent, code, token, link, login, record, vault, clocks, requested,
                       yielded, retired, tangled>>

SavesEither(w, one) ==
    /\ errand[w].pc = "saves" /\ one \in errand[w].left
    /\ login' = IF one = "login" THEN [login EXCEPT ![errand[w].login].status = "COMPLETED"] ELSE login
    /\ link' = IF one = "link" THEN [link EXCEPT ![errand[w].link] = errand[w].linkDoc] ELSE link
    /\ IF errand[w].left = {one} THEN Finish(w) ELSE errand' = [errand EXCEPT ![w].left = @ \ {one}]
    /\ UNCHANGED <<custody, agent, code, token, profile, record, vault, clocks, requested, yielded,
                   retired, tangled>>

(* revokeBrowserConnection: the profile, if any, is deleted, then no       *)
(* longer named.                                                           *)
Disconnects(w, n) ==
    /\ link[n] # NoLink
    /\ Begins(w, "disconnect", [AtRest EXCEPT !.link = n, !.linkDoc = link[n], !.pc = "delete"])

(* Faulty variant: the connection lets go of the profile first.            *)
LeavesProfile(w) ==
    /\ errand[w].pc = "delete"
    /\ errand' = [errand EXCEPT ![w].pc = "savelink",
                                ![w].linkDoc = [status |-> "revoked", profile |-> None]]
    /\ UNCHANGED <<custody, documents, clocks, requested, yielded, retired, tangled>>

DeletesProfile(w) ==
    /\ errand[w].pc = "delete"
    /\ profile' = [p \in Profile |-> IF p = errand[w].linkDoc.profile THEN "deleted" ELSE profile[p]]
    /\ errand' = [errand EXCEPT ![w].pc = "savelink",
                                ![w].linkDoc = [status |-> "revoked", profile |-> None]]
    /\ UNCHANGED <<custody, agent, code, token, link, login, record, vault, clocks, requested,
                   yielded, retired, tangled>>

(* The service no longer knows the profile and refuses.                    *)
DeleteRefused(w) ==
    /\ errand[w].pc = "delete" /\ \E p \in Profile : errand[w].linkDoc.profile = p /\ profile[p] = "deleted"
    /\ Finish(w)
    /\ UNCHANGED <<custody, documents, clocks, requested, yielded, retired, tangled>>

(***************************************************************************)
(* Secrets                                                                 *)
(***************************************************************************)
(* createSecret, rotateSecret: the value is stored, then the record.       *)
Creates(w, s, v) ==
    /\ record[s] = None /\ vault[s] = None /\ s \notin {errand[x].secret : x \in Worker}
    /\ Begins(w, "create", [AtRest EXCEPT !.secret = s, !.value = v, !.pc = "store"])
Rotates(w, s, v) ==
    /\ record[s] # None
    /\ Begins(w, "rotate", [AtRest EXCEPT !.secret = s, !.value = v, !.pc = "store"])

(* The store takes no new value for a secret it has deleted.               *)
StoresValue(w) ==
    LET e == errand[w]
    IN  /\ e.op \in {"create", "rotate"} /\ e.pc = "store"
        /\ IF e.op = "rotate" /\ vault[e.secret] = None
           THEN Finish(w) /\ UNCHANGED vault
           ELSE Step(w, "saverecord") /\ vault' = [vault EXCEPT ![e.secret] = e.value]
        /\ UNCHANGED <<custody, agent, code, token, link, login, profile, record, clocks, requested,
                       yielded, retired, tangled>>

(* Faulty variant: a rotation keeps the hint of the value before.          *)
SavesRecordAsRead(w) ==
    /\ errand[w].pc = "saverecord"
    /\ record' = [record EXCEPT ![errand[w].secret] = IF @ = None THEN errand[w].value ELSE @]
    /\ Finish(w)
    /\ UNCHANGED <<custody, agent, code, token, link, login, profile, vault, clocks, requested,
                   yielded, retired, tangled>>

SavesRecord(w) ==
    /\ errand[w].pc = "saverecord"
    /\ record' = [record EXCEPT ![errand[w].secret] = errand[w].value]
    /\ Finish(w)
    /\ UNCHANGED <<custody, agent, code, token, link, login, profile, vault, clocks, requested,
                   yielded, retired, tangled>>

(* deleteSecret: a secret the store has forgotten is no obstacle.          *)
Deletes(w, s) ==
    /\ record[s] # None
    /\ Begins(w, "delete", [AtRest EXCEPT !.secret = s, !.pc = "store"])
DropsValue(w) ==
    /\ Doing(w, "delete", "store")
    /\ vault' = [vault EXCEPT ![errand[w].secret] = None]
    /\ Step(w, "drop")
    /\ UNCHANGED <<custody, agent, code, token, link, login, profile, record, clocks, requested,
                   yielded, retired, tangled>>
DropsRecord(w) ==
    /\ errand[w].pc = "drop"
    /\ record' = [record EXCEPT ![errand[w].secret] = None]
    /\ Finish(w)
    /\ UNCHANGED <<custody, agent, code, token, link, login, profile, vault, clocks, requested,
                   yielded, retired, tangled>>

(* An invocation dies, or one of its calls fails.                          *)
Abandons(w) ==
    /\ custody.crashes /\ w \in Running
    /\ tangled' = tangled \cup ({errand[w].link, errand[w].secret} \ {None})
    /\ Finish(w)
    /\ UNCHANGED <<custody, documents, clocks, requested, yielded, retired>>

Next_C ==
    \/ \E w \in Worker, b \in Browser \cup {NoBrowser} : Authorizes(w, b)
    \/ \E w \in Worker : ScansTokens(w) \/ SavesAgent(w) \/ UsesCode(w) \/ PassesGate(w) \/ ReadsAgent(w)
    \/ \E w \in Worker, t \in Token : Supersedes(w, t) \/ PutsToken(w, t) \/ Beats(w, t)
    \/ \E w \in Worker, k \in Code : PutsCode(w, k) \/ Exchanges(w, k)
    \/ \E w \in Worker, g \in Agent : RevokesAgent(w, g)
    \/ \E k \in Code : CodeLapses(k)
    \/ \E n \in Connection : Connects(n)
    \/ \E w \in Worker, n \in Connection : StartsLogin(w, n) \/ Disconnects(w, n)
    \/ \E w \in Worker, n \in Connection, l \in Login : CompletesLogin(w, n, l)
    \/ \E w \in Worker, p \in Profile : CreatesProfile(w, p)
    \/ \E w \in Worker, l \in Login : SavesLogin(w, l)
    \/ \E w \in Worker, one \in {"login", "link"} : SavesEither(w, one)
    \/ \E l \in Login : LoginLapses(l)
    \/ \E w \in Worker : SavesLink(w) \/ SavesProfile(w) \/ DeletesProfile(w) \/ DeleteRefused(w)
    \/ \E w \in Worker, s \in Secret, v \in Value : Creates(w, s, v) \/ Rotates(w, s, v)
    \/ \E w \in Worker, s \in Secret : Deletes(w, s)
    \/ \E w \in Worker : StoresValue(w) \/ SavesRecord(w) \/ DropsValue(w) \/ DropsRecord(w) \/ Abandons(w)

Spec_C == Init_C /\ [][Next_C]_vars_C

(***************************************************************************)
(* Properties                                                              *)
(***************************************************************************)
CredentialsTypeOK ==
    /\ custody \in Custody /\ agent \in [Agent -> AgentDoc] /\ code \in [Code -> CodeDoc]
    /\ lapsedCode \subseteq Code /\ token \in [Token -> TokenDoc] /\ link \in [Connection -> LinkDoc]
    /\ login \in [Login -> LoginDoc] /\ lateLogin \subseteq Login
    /\ profile \in [Profile -> {"none", "blank", "signed", "deleted"}]
    /\ record \in [Secret -> Value \cup {None}] /\ vault \in [Secret -> Value \cup {None}]
    /\ errand \in [Worker -> Errand] /\ requested \in Nat /\ yielded \in [Code -> Nat]
    /\ retired \subseteq Token /\ tangled \subseteq Agent \cup Code \cup Connection \cup Secret

(* A code is good for one token, also when an exchange dies anywhere,      *)
(* unless two exchanges had it in hand together.                           *)
CodeSpentOnce == \A k \in Code : yielded[k] <= 1 \/ k \in tangled

(* Live: what agentAuth lets in.                                           *)
Live(t) == token[t].status = "active" /\ agent[token[t].agent].status = "active"

(* A token its agent's revocation cut off stays cut off, also when the     *)
(* same browser is authorized again later and that dies anywhere, unless   *)
(* the revocation met a heartbeat or an authorization of that agent.       *)
NoRevival == \A t \in retired : ~Live(t) \/ token[t].agent \in tangled

(* The promise made where a browser is authorized again.                   *)
NoExtraCredential ==
    \A t, u \in Token : t # u /\ Live(t) /\ Live(u) => token[t].agent # token[u].agent
                                                       \/ token[t].agent \in tangled

(* An active connection names a profile that somebody signed in to and     *)
(* that exists, unless two requests had the connection in hand together or *)
(* one died with it.                                                       *)
ActiveSignedIn ==
    \A n \in Connection \ tangled :
        link[n].status = "active" /\ n \notin {errand[w].link : w \in Running} =>
            link[n].profile # None /\ profile[link[n].profile] = "signed"

(* No profile is left behind at the browser service, with the same         *)
(* exceptions: whatever exists there is named by a connection that is not  *)
(* revoked.                                                                *)
NoProfileLeft ==
    Running = {} /\ tangled \cap Connection = {} =>
        \A p \in Profile : profile[p] \in {"blank", "signed"} =>
            \E n \in Connection : link[n].profile = p /\ link[n].status # "revoked"

(* The record of a secret and the store agree: the hint is of the value    *)
(* stored, and what is stored has a record, with the same exceptions.      *)
SecretsAgree ==
    \A s \in Secret \ tangled : s \notin {errand[w].secret : w \in Running} => record[s] = vault[s]
=============================================================================

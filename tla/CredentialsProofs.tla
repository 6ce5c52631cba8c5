-------------------------- MODULE CredentialsProofs --------------------------
(* Credentials, for every number of agents, codes, tokens, connections and *)
(* invocations: its types, that a code yields one token, that a token a    *)
(* revocation cut off stays cut off, that records agree with the store,    *)
(* that an active connection is signed in and that no profile is left.     *)
EXTENDS Credentials, TLAPS

(* What an invocation has in hand, by what it was asked for.               *)
OfAgent(e) ==
    /\ e.agent \in Agent /\ e.code = None /\ e.secret = None
    /\ \/ e.op = "authorize" /\ e.pc \in {"tokens", "saveagent", "putcode"}
          /\ e.agentDoc.status = "active"
       \/ e.op = "beat" /\ e.pc \in {"gate", "read", "saveagent"} /\ e.todo = {}
       \/ e.op = "revokeagent" /\ e.pc = "saveagent" /\ e.todo = {} /\ e.agentDoc.status = "revoked"
OfCode(e) ==
    /\ e.agent = None /\ e.code \in Code /\ e.secret = None
    /\ e.op = "exchange" /\ e.pc \in {"usecode", "puttoken"}
OfLink(e) ==
    /\ e.agent = None /\ e.code = None /\ e.secret = None
    /\ e.op \in {"login", "complete", "disconnect"}
    /\ e.pc \in {"profile", "savelink", "savelogin", "store", "saves", "delete"}
OfSecret(e) ==
    /\ e.agent = None /\ e.code = None /\ e.secret \in Secret
    /\ \/ e.op \in {"create", "rotate"} /\ e.pc \in {"store", "saverecord"}
       \/ e.op = "delete" /\ e.pc \in {"store", "drop"}
Apt(e) == e = AtRest \/ OfAgent(e) \/ OfCode(e) \/ OfLink(e) \/ OfSecret(e)

(* Every invocation is apt; what two have in hand is tangled.              *)
Handled ==
    /\ \A w \in Worker : Apt(errand[w])
    /\ \A v, w \in Worker : v # w => Held(errand[v]) \cap Held(errand[w]) \subseteq tangled

(* A code that is not used yielded nothing, nor did one somebody is about  *)
(* to exchange.                                                            *)
Codes ==
    \A k \in Code :
        /\ code[k].status # "USED" => yielded[k] = 0
        /\ yielded[k] <= 1 \/ k \in tangled
        /\ \A w \in Worker : errand[w].code = k =>
              /\ code[k].status # "none" /\ (yielded[k] = 0 \/ k \in tangled)
              /\ errand[w].pc = "puttoken" => code[k].status = "USED"

(* Codes and tokens are of agents that were registered.                    *)
Registered ==
    /\ \A k \in Code : code[k].status # "none" =>
          code[k].agent \in Agent /\ agent[code[k].agent].status # "none"
    /\ \A t \in Token : IF token[t].status = "none" THEN token[t].agent = None
                        ELSE token[t].agent \in Agent /\ agent[token[t].agent].status # "none"
    /\ \A t \in retired : token[t].status # "none"
    /\ \A w \in Worker : OfAgent(errand[w]) =>
          /\ errand[w].pc # "saveagent" => agent[errand[w].agent].status # "none"
          /\ errand[w].pc = "saveagent" => errand[w].agentDoc.status # "none"
          /\ \A t \in errand[w].todo : token[t].status # "none"

(* A heartbeat past the gate is of an active agent, unless tangled.        *)
Beating == \A w \in Worker :
    errand[w].op = "beat" /\ errand[w].pc # "gate" /\ errand[w].agent \notin tangled =>
        agent[errand[w].agent].status = "active"

(* A token that was cut off is superseded before its agent is made active. *)
CutOff == \A t \in retired :
    \/ token[t].agent \in tangled
    \/ token[t].status # "active"
    \/ /\ agent[token[t].agent].status # "active"
       /\ \A w \in Worker : /\ errand[w].agent = token[t].agent /\ errand[w].pc = "saveagent"
                            /\ errand[w].agentDoc.status = "active"
                            => t \in errand[w].todo

(* Where a secret stands while somebody has it in hand, and while nobody.  *)
Secrets ==
    \A s \in Secret \ tangled :
        /\ (\A w \in Worker : errand[w].secret # s) => record[s] = vault[s]
        /\ \A w \in Worker : errand[w].secret = s =>
              /\ errand[w].pc = "store" => record[s] = vault[s]
              /\ errand[w].pc = "saverecord" => vault[s] = errand[w].value
              /\ errand[w].pc = "drop" => vault[s] = None

CredentialsInv ==
    CredentialsTypeOK /\ Handled /\ Codes /\ Registered /\ Beating /\ CutOff /\ Secrets
(* The absence of a document is no document. *)
LEMMA NoneApart == /\ None \notin Agent /\ None \notin Code /\ None \notin Secret /\ None \notin Token
                   /\ None \notin Connection /\ None \notin Login
BY CredentialsAssumption

(* An invocation that is done has its type, and nothing in hand. *)
LEMMA Rest == /\ AtRest \in Errand /\ Apt(AtRest) /\ Held(AtRest) = {}
              /\ AtRest.op = "none" /\ AtRest.pc = "idle" /\ AtRest.agent = None /\ AtRest.code = None
              /\ AtRest.link = None /\ AtRest.secret = None /\ AtRest.todo = {}
<1>1. NoAgent_C \in AgentDoc /\ NoLink \in LinkDoc
  BY DEF NoAgent_C, NoLink, AgentDoc, LinkDoc
<1>2. AtRest \in Errand
  BY <1>1 DEF AtRest, Errand
<1>3. /\ AtRest.op = "none" /\ AtRest.pc = "idle" /\ AtRest.agent = None /\ AtRest.code = None
      /\ AtRest.link = None /\ AtRest.secret = None /\ AtRest.todo = {}
  BY DEF AtRest
<1>4. Apt(AtRest) /\ Held(AtRest) = {}
  BY <1>3 DEF Apt, Held
<1>5. QED  BY <1>2, <1>3, <1>4

(* An apt invocation has its type. *)
LEMMA InHand ==
    ASSUME CredentialsInv, NEW w \in Worker
    PROVE  /\ errand[w] \in Errand /\ Apt(errand[w])
           /\ (errand[w].op = "none" \/ errand[w].pc = "idle") => errand[w] = AtRest
           /\ errand[w] = AtRest \/ OfAgent(errand[w]) \/ OfCode(errand[w]) \/ OfLink(errand[w])
              \/ OfSecret(errand[w])
<1>1. errand[w] \in Errand /\ Apt(errand[w])
  BY DEF CredentialsInv, CredentialsTypeOK, Handled
<1>2. QED  BY <1>1, Rest DEF Apt, OfAgent, OfCode, OfLink, OfSecret

(* An invocation goes on with what it has in hand, or less. *)
LEMMA GoesOn ==
    ASSUME CredentialsInv, NEW w \in Worker, NEW N \in Errand, Apt(N),
           errand' = [errand EXCEPT ![w] = N], Held(N) \subseteq Held(errand[w]),
           tangled \subseteq tangled'
    PROVE  /\ errand' \in [Worker -> Errand] /\ Handled' /\ errand'[w] = N
           /\ \A v \in Worker : v # w => errand'[v] = errand[v]
<1>1. errand \in [Worker -> Errand]
  BY DEF CredentialsInv, CredentialsTypeOK
<1>2. /\ errand' \in [Worker -> Errand] /\ errand'[w] = N
      /\ \A v \in Worker : v # w => errand'[v] = errand[v]
  BY <1>1
<1>3. \A v \in Worker : Apt(errand'[v])
  <2> TAKE v \in Worker
  <2>1. CASE v = w
    BY <1>2, <2>1
  <2>2. CASE v # w
    BY <1>2, <2>2 DEF CredentialsInv, Handled
  <2>3. QED  BY <2>1, <2>2
<1>4. \A v \in Worker : Held(errand'[v]) \subseteq Held(errand[v])
  <2> TAKE v \in Worker
  <2>1. CASE v = w
    BY <1>2, <2>1
  <2>2. CASE v # w
    BY <1>2, <2>2
  <2>3. QED  BY <2>1, <2>2
<1>5. ASSUME NEW v \in Worker, NEW u \in Worker, v # u
      PROVE  Held(errand'[v]) \cap Held(errand'[u]) \subseteq tangled'
  <2>1. Held(errand[v]) \cap Held(errand[u]) \subseteq tangled
    BY <1>5 DEF CredentialsInv, Handled
  <2>2. Held(errand'[v]) \subseteq Held(errand[v]) /\ Held(errand'[u]) \subseteq Held(errand[u])
    BY <1>4
  <2>3. QED  BY <2>1, <2>2
<1>6. Handled'
  BY <1>3, <1>5 DEF Handled
<1>7. QED  BY <1>2, <1>6

(* An invocation starts: what it shares with another is tangled. *)
LEMMA Starts ==
    ASSUME CredentialsInv, NEW w \in Worker, NEW op \in Errands, NEW e \in Errand, Begins(w, op, e),
           NEW N \in Errand, N = [e EXCEPT !.op = op], Apt(N), Held(N) = Held(e)
    PROVE  /\ errand' \in [Worker -> Errand] /\ Handled' /\ errand'[w] = N /\ errand[w] = AtRest
           /\ \A v \in Worker : v # w => errand'[v] = errand[v]
           /\ UNCHANGED <<custody, documents, clocks, yielded, retired>>
           /\ requested' \in Nat /\ tangled \subseteq tangled'
           /\ tangled' \subseteq Agent \cup Code \cup Connection \cup Secret
<1>1. /\ errand' = [errand EXCEPT ![w] = N]
      /\ tangled' = tangled \cup (Held(e) \cap UNION {Held(errand[v]) : v \in Running})
      /\ requested' = requested + 1
      /\ UNCHANGED <<custody, documents, clocks, yielded, retired>>
      /\ w \notin Running
  BY DEF Begins, Fresh
<1>2. errand[w] = AtRest
  BY <1>1, InHand DEF Running
<1>3. errand \in [Worker -> Errand] /\ requested \in Nat
      /\ tangled \subseteq Agent \cup Code \cup Connection \cup Secret
  BY DEF CredentialsInv, CredentialsTypeOK
<1>4. /\ errand' \in [Worker -> Errand] /\ errand'[w] = N
      /\ \A v \in Worker : v # w => errand'[v] = errand[v]
  BY <1>1, <1>3
<1>5. Held(e) \subseteq Agent \cup Code \cup Connection \cup Secret
  BY DEF Held, Errand
<1>6. \A v \in Worker : Apt(errand'[v])
  <2> TAKE v \in Worker
  <2>1. CASE v = w
    BY <1>4, <2>1
  <2>2. CASE v # w
    BY <1>4, <2>2 DEF CredentialsInv, Handled
  <2>3. QED  BY <2>1, <2>2
<1>7. ASSUME NEW v \in Worker, v # w PROVE Held(errand'[v]) \cap Held(N) \subseteq tangled'
  <2>1. CASE v \in Running
    BY <1>1, <1>4, <1>7, <2>1
  <2>2. CASE v \notin Running
    <3>1. errand[v] = AtRest
      BY <2>2, InHand DEF Running
    <3>2. QED  BY <1>4, <1>7, <3>1, Rest
  <2>3. QED  BY <2>1, <2>2
<1>8. ASSUME NEW v \in Worker, NEW u \in Worker, v # u
      PROVE  Held(errand'[v]) \cap Held(errand'[u]) \subseteq tangled'
  <2>1. CASE v = w
    BY <1>4, <1>7, <1>8, <2>1
  <2>2. CASE u = w
    BY <1>4, <1>7, <1>8, <2>2
  <2>3. CASE v # w /\ u # w
    <3>1. Held(errand[v]) \cap Held(errand[u]) \subseteq tangled
      BY <1>8 DEF CredentialsInv, Handled
    <3>2. QED  BY <1>1, <1>4, <2>3, <3>1
  <2>4. QED  BY <2>1, <2>2, <2>3
<1>9. Handled'
  BY <1>6, <1>8 DEF Handled
<1>10. QED  BY <1>1, <1>2, <1>3, <1>4, <1>5, <1>9
(* Nobody gets a code in hand, and none changes. *)
LEMMA QuietCodes ==
    ASSUME CredentialsInv, NEW w \in Worker, UNCHANGED <<code, yielded>>, tangled \subseteq tangled',
           \A v \in Worker : v # w => errand'[v] = errand[v], errand'[w].code = None
    PROVE  Codes'
BY NoneApart DEF CredentialsInv, Codes

(* Nobody gets an agent in hand, and no agent, code or token changes. *)
LEMMA QuietAgents ==
    ASSUME CredentialsInv, Handled', NEW w \in Worker, UNCHANGED <<agent, code, token, retired>>,
           tangled \subseteq tangled',
           \A v \in Worker : v # w => errand'[v] = errand[v], errand'[w].agent = None
    PROVE  Registered' /\ Beating' /\ CutOff'
<1>1. ~OfAgent(errand'[w])
  BY NoneApart DEF OfAgent
<1>2. Registered'
  BY <1>1 DEF CredentialsInv, Registered
<1>3. Beating'
  <2>1. errand'[w].op # "beat"
    BY <1>1, Rest DEF Handled, Apt, OfCode, OfLink, OfSecret
  <2>2. QED  BY <2>1 DEF CredentialsInv, Beating
<1>4. CutOff'
  <2>1. \A t \in retired : token[t].agent # None
    BY NoneApart DEF CredentialsInv, CredentialsTypeOK, Registered
  <2>2. QED  BY <2>1 DEF CredentialsInv, CutOff
<1>5. QED  BY <1>2, <1>3, <1>4

(* Nobody gets a secret in hand, or lets one go, and none changes. *)
LEMMA QuietSecrets ==
    ASSUME CredentialsInv, NEW w \in Worker, UNCHANGED <<record, vault>>, tangled \subseteq tangled',
           \A v \in Worker : v # w => errand'[v] = errand[v], errand'[w].secret = None,
           errand[w].secret \in {None} \cup tangled'
    PROVE  Secrets'
BY NoneApart DEF CredentialsInv, Secrets
-----------------------------------------------------------------------------
(* Browser connections                                                     *)

(* Whoever has a connection in hand leaves the rest alone. *)
LEMMA LinkStep ==
    ASSUME CredentialsInv, NEW w \in Worker, OfLink(errand[w]), NEW N \in Errand,
           N = AtRest \/ (OfLink(N) /\ N.link = errand[w].link), errand' = [errand EXCEPT ![w] = N],
           UNCHANGED <<custody, agent, code, token, record, vault, clocks, requested, yielded,
                       retired, tangled>>,
           link' \in [Connection -> LinkDoc], login' \in [Login -> LoginDoc],
           profile' \in [Profile -> {"none", "blank", "signed", "deleted"}]
    PROVE  CredentialsInv'
<1>1. Apt(N) /\ N.agent = None /\ N.code = None /\ N.secret = None
  BY Rest DEF Apt, OfLink
<1>2. Held(N) \subseteq Held(errand[w])
  BY Rest DEF Held, OfLink
<1>3. /\ errand' \in [Worker -> Errand] /\ Handled' /\ errand'[w] = N
      /\ \A v \in Worker : v # w => errand'[v] = errand[v]
  BY <1>1, <1>2, GoesOn
<1>4. CredentialsTypeOK'
  BY <1>3 DEF CredentialsInv, CredentialsTypeOK, clocks
<1>5. Codes' /\ Registered' /\ Beating' /\ CutOff'
  BY <1>1, <1>3, QuietCodes, QuietAgents
<1>6. errand[w].secret = None
  BY DEF OfLink
<1>7. Secrets'
  BY <1>1, <1>3, <1>6, QuietSecrets
<1>8. QED  BY <1>3, <1>4, <1>5, <1>7 DEF CredentialsInv

(* A request for a connection starts. *)
LEMMA LinkStarts ==
    ASSUME CredentialsInv, NEW w \in Worker, NEW op \in {"login", "complete", "disconnect"},
           NEW e \in Errand, Begins(w, op, e), e.agent = None, e.code = None, e.secret = None,
           e.pc \in {"profile", "savelink", "store", "delete"}
    PROVE  CredentialsInv'
<1> DEFINE N == [e EXCEPT !.op = op]
<1>1. /\ N \in Errand /\ N.agent = None /\ N.code = None /\ N.secret = None /\ N.link = e.link
      /\ N.op = op /\ N.pc = e.pc
  BY DEF Errand, Errands
<1>2. N = [e EXCEPT !.op = op]
  OBVIOUS
<1> HIDE DEF N
<1>3. Apt(N) /\ Held(N) = Held(e)
  BY <1>1 DEF Apt, OfLink, Held
<1>4. op \in Errands
  BY DEF Errands
<1>5. /\ errand' \in [Worker -> Errand] /\ Handled' /\ errand'[w] = N /\ errand[w] = AtRest
      /\ \A v \in Worker : v # w => errand'[v] = errand[v]
      /\ UNCHANGED <<custody, documents, clocks, yielded, retired>>
      /\ requested' \in Nat /\ tangled \subseteq tangled'
      /\ tangled' \subseteq Agent \cup Code \cup Connection \cup Secret
  BY <1>1, <1>2, <1>3, <1>4, Starts
<1>6. UNCHANGED <<agent, code, token, link, login, profile, record, vault>>
  BY <1>5 DEF documents
<1>7. CredentialsTypeOK'
  BY <1>5, <1>6 DEF CredentialsInv, CredentialsTypeOK, clocks
<1>8. Codes' /\ Registered' /\ Beating' /\ CutOff' /\ Secrets'
  BY <1>1, <1>5, <1>6, Rest, QuietCodes, QuietAgents, QuietSecrets
<1>9. QED  BY <1>5, <1>7, <1>8 DEF CredentialsInv

(* The requests of browser connections. *)
LEMMA LinkRequests ==
    ASSUME CredentialsInv, NEW w \in Worker, NEW n \in Connection,
           StartsLogin(w, n) \/ Disconnects(w, n) \/ \E l \in Login : CompletesLogin(w, n, l)
    PROVE  CredentialsInv'
<1>1. link[n] \in LinkDoc /\ [link[n] EXCEPT !.status = "active"] \in LinkDoc
  BY DEF CredentialsInv, CredentialsTypeOK, LinkDoc
<1>2. CASE StartsLogin(w, n)
  <2> DEFINE at == IF link[n].profile = None THEN "profile" ELSE "savelink"
             e == [AtRest EXCEPT !.link = n, !.linkDoc = link[n], !.pc = at]
  <2>1. Begins(w, "login", e)
    BY <1>2 DEF StartsLogin
  <2>2. at \in {"profile", "savelink"}
    OBVIOUS
  <2> HIDE DEF at
  <2>3. e \in Errand /\ e.agent = None /\ e.code = None /\ e.secret = None /\ e.pc = at
    BY <1>1, <2>2, Rest DEF Errand
  <2> HIDE DEF e
  <2>4. QED  BY <2>1, <2>2, <2>3, LinkStarts
<1>3. CASE Disconnects(w, n)
  <2> DEFINE e == [AtRest EXCEPT !.link = n, !.linkDoc = link[n], !.pc = "delete"]
  <2>1. Begins(w, "disconnect", e)
    BY <1>3 DEF Disconnects
  <2>2. e \in Errand /\ e.agent = None /\ e.code = None /\ e.secret = None /\ e.pc = "delete"
    BY <1>1, Rest DEF Errand
  <2> HIDE DEF e
  <2>3. QED  BY <2>1, <2>2, LinkStarts
<1>4. CASE \E l \in Login : CompletesLogin(w, n, l)
  <2> PICK l \in Login : CompletesLogin(w, n, l)
    BY <1>4
  <2> DEFINE d == [link[n] EXCEPT !.status = "active"]
             e == [AtRest EXCEPT !.link = n, !.login = l, !.pc = "store",
                                 !.left = {"login", "link"}, !.linkDoc = d]
  <2>1. Begins(w, "complete", e)
    BY DEF CompletesLogin
  <2> HIDE DEF d
  <2>2. d \in LinkDoc
    BY <1>1 DEF d
  <2>3. e \in Errand /\ e.agent = None /\ e.code = None /\ e.secret = None /\ e.pc = "store"
    BY <2>2, Rest DEF Errand
  <2> HIDE DEF e
  <2>4. QED  BY <2>1, <2>3, LinkStarts
<1>5. QED  BY <1>2, <1>3, <1>4
(* Whoever is at one of these has a connection in hand. *)
LEMMA AtLink ==
    ASSUME CredentialsInv, NEW w \in Worker,
           \/ errand[w].pc \in {"profile", "savelink", "savelogin", "saves", "delete"}
           \/ errand[w].op = "complete"
    PROVE  errand[w] \in Errand /\ OfLink(errand[w])
BY InHand, Rest DEF OfAgent, OfCode, OfLink, OfSecret

(* A profile is created, and named in the connection later. *)
LEMMA CreatesProfileStep ==
    ASSUME CredentialsInv, NEW w \in Worker, NEW p \in Profile, CreatesProfile(w, p)
    PROVE  CredentialsInv'
<1> DEFINE N == [errand[w] EXCEPT !.pc = "savelink", !.linkDoc.profile = p]
<1>1. /\ UNCHANGED <<custody, agent, code, token, link, login, record, vault, clocks, requested,
                     yielded, retired, tangled>>
      /\ profile' = [profile EXCEPT ![p] = "blank"]
      /\ errand' = [errand EXCEPT ![w] = N] /\ errand[w].pc = "profile"
  BY DEF CreatesProfile
<1>2. errand[w] \in Errand /\ OfLink(errand[w])
  BY <1>1, AtLink
<1>3. N \in Errand /\ N.link = errand[w].link /\ OfLink(N)
  <2> DEFINE d == [errand[w].linkDoc EXCEPT !.profile = p]
  <2>1. d \in LinkDoc
    BY <1>2 DEF Errand, LinkDoc
  <2>2. N = [errand[w] EXCEPT !.pc = "savelink", !.linkDoc = d]
    BY <1>2 DEF Errand
  <2> HIDE DEF N, d
  <2>3. QED  BY <1>2, <2>1, <2>2 DEF Errand, OfLink
<1> HIDE DEF N
<1>4. QED  BY <1>1, <1>2, <1>3, LinkStep DEF CredentialsInv, CredentialsTypeOK

(* The connection is saved as the request has it. *)
LEMMA SavesLinkStep ==
    ASSUME CredentialsInv, NEW w \in Worker, SavesLink(w)
    PROVE  CredentialsInv'
<1> DEFINE M == [errand[w] EXCEPT !.pc = "savelogin"]
           N == IF errand[w].op = "login" THEN M ELSE AtRest
<1>1. /\ UNCHANGED <<custody, agent, code, token, login, profile, record, vault, clocks, requested,
                     yielded, retired, tangled>>
      /\ link' = [link EXCEPT ![errand[w].link] = errand[w].linkDoc]
      /\ errand' = [errand EXCEPT ![w] = N] /\ errand[w].pc = "savelink"
  BY DEF SavesLink, Step, Finish
<1>2. errand[w] \in Errand /\ OfLink(errand[w])
  BY <1>1, AtLink
<1>3. N \in Errand /\ (N = AtRest \/ (OfLink(N) /\ N.link = errand[w].link))
  <2>1. M \in Errand /\ OfLink(M) /\ M.link = errand[w].link
    BY <1>2 DEF Errand, OfLink
  <2> HIDE DEF M
  <2>2. QED  BY <2>1, Rest
<1>4. link' \in [Connection -> LinkDoc]
  BY <1>1, <1>2 DEF CredentialsInv, CredentialsTypeOK, Errand
<1> HIDE DEF N
<1>5. QED  BY <1>1, <1>2, <1>3, <1>4, LinkStep DEF CredentialsInv, CredentialsTypeOK

(* A login is recorded. *)
LEMMA SavesLoginStep ==
    ASSUME CredentialsInv, NEW w \in Worker, NEW l \in Login, SavesLogin(w, l)
    PROVE  CredentialsInv'
<1> DEFINE d == [status |-> "PENDING", link |-> errand[w].link, profile |-> errand[w].linkDoc.profile]
<1>1. /\ UNCHANGED <<custody, agent, code, token, link, profile, record, vault, clocks, requested,
                     yielded, retired, tangled>>
      /\ login' = [login EXCEPT ![l] = d]
      /\ errand' = [errand EXCEPT ![w] = AtRest] /\ errand[w].pc = "savelogin"
  BY DEF SavesLogin, Finish
<1>2. errand[w] \in Errand /\ OfLink(errand[w])
  BY <1>1, AtLink
<1>3. d \in LoginDoc
  BY <1>2 DEF Errand, LinkDoc, LoginDoc
<1> HIDE DEF d
<1>4. login' \in [Login -> LoginDoc]
  BY <1>1, <1>3 DEF CredentialsInv, CredentialsTypeOK
<1> DEFINE N == AtRest
<1>5. N \in Errand /\ N = AtRest /\ errand' = [errand EXCEPT ![w] = N]
  BY <1>1, Rest
<1> HIDE DEF N
<1>6. QED  BY <1>1, <1>2, <1>4, <1>5, LinkStep DEF CredentialsInv, CredentialsTypeOK

(* The profile is saved, or is gone. *)
LEMMA SavesProfileStep ==
    ASSUME CredentialsInv, NEW w \in Worker, SavesProfile(w)
    PROVE  CredentialsInv'
<1> DEFINE p == login[errand[w].login].profile
           M == [errand[w] EXCEPT !.pc = "saves"]
           N == IF profile[p] = "deleted" THEN AtRest ELSE M
<1>1. /\ UNCHANGED <<custody, agent, code, token, link, login, record, vault, clocks, requested,
                     yielded, retired, tangled>>
      /\ profile' = profile \/ profile' = [profile EXCEPT ![p] = "signed"]
      /\ errand' = [errand EXCEPT ![w] = N] /\ errand[w].op = "complete"
  BY DEF SavesProfile, Step, Finish, Doing
<1>2. errand[w] \in Errand /\ OfLink(errand[w])
  BY <1>1, AtLink
<1>3. N \in Errand /\ (N = AtRest \/ (OfLink(N) /\ N.link = errand[w].link))
  <2>1. M \in Errand /\ OfLink(M) /\ M.link = errand[w].link
    BY <1>2 DEF Errand, OfLink
  <2> HIDE DEF M
  <2>2. QED  BY <2>1, Rest
<1>4. profile' \in [Profile -> {"none", "blank", "signed", "deleted"}]
  BY <1>1 DEF CredentialsInv, CredentialsTypeOK
<1> HIDE DEF N, p
<1>5. QED  BY <1>1, <1>2, <1>3, <1>4, LinkStep DEF CredentialsInv, CredentialsTypeOK

(* One of the two documents is written. *)
LEMMA SavesEitherStep ==
    ASSUME CredentialsInv, NEW w \in Worker, NEW one \in {"login", "link"}, SavesEither(w, one)
    PROVE  CredentialsInv'
<1> DEFINE M == [errand[w] EXCEPT !.left = errand[w].left \ {one}]
           N == IF errand[w].left = {one} THEN AtRest ELSE M
<1>1. /\ UNCHANGED <<custody, agent, code, token, profile, record, vault, clocks, requested,
                     yielded, retired, tangled>>
      /\ login' = login \/ login' = [login EXCEPT ![errand[w].login].status = "COMPLETED"]
      /\ link' = link \/ link' = [link EXCEPT ![errand[w].link] = errand[w].linkDoc]
      /\ errand' = [errand EXCEPT ![w] = N] /\ errand[w].pc = "saves"
  BY DEF SavesEither, Finish
<1>2. errand[w] \in Errand /\ OfLink(errand[w])
  BY <1>1, AtLink
<1>3. N \in Errand /\ (N = AtRest \/ (OfLink(N) /\ N.link = errand[w].link))
  <2>1. M \in Errand /\ OfLink(M) /\ M.link = errand[w].link
    BY <1>2 DEF Errand, OfLink
  <2> HIDE DEF M
  <2>2. QED  BY <2>1, Rest
<1>4. link' \in [Connection -> LinkDoc]
  BY <1>1, <1>2 DEF CredentialsInv, CredentialsTypeOK, Errand
<1>5. login' \in [Login -> LoginDoc]
  BY <1>1 DEF CredentialsInv, CredentialsTypeOK, LoginDoc
<1> HIDE DEF N
<1>6. QED  BY <1>1, <1>2, <1>3, <1>4, <1>5, LinkStep DEF CredentialsInv, CredentialsTypeOK

(* The profile is deleted, or the service refuses. *)
LEMMA DeletesProfileStep ==
    ASSUME CredentialsInv, NEW w \in Worker, DeletesProfile(w) \/ DeleteRefused(w)
    PROVE  CredentialsInv'
<1>1. CASE DeletesProfile(w)
  <2> DEFINE d == [status |-> "revoked", profile |-> None]
             N == [errand[w] EXCEPT !.pc = "savelink", !.linkDoc = d]
  <2>1. /\ UNCHANGED <<custody, agent, code, token, link, login, record, vault, clocks, requested,
                       yielded, retired, tangled>>
        /\ profile' = [p \in Profile |-> IF p = errand[w].linkDoc.profile THEN "deleted" ELSE profile[p]]
        /\ errand' = [errand EXCEPT ![w] = N] /\ errand[w].pc = "delete"
    BY <1>1 DEF DeletesProfile
  <2>2. errand[w] \in Errand /\ OfLink(errand[w])
    BY <2>1, AtLink
  <2>3. d \in LinkDoc
    BY DEF LinkDoc
  <2> HIDE DEF d
  <2>4. N \in Errand /\ OfLink(N) /\ N.link = errand[w].link
    BY <2>2, <2>3 DEF Errand, OfLink
  <2>5. profile' \in [Profile -> {"none", "blank", "signed", "deleted"}]
    BY <2>1 DEF CredentialsInv, CredentialsTypeOK
  <2> HIDE DEF N
  <2>6. QED  BY <2>1, <2>2, <2>4, <2>5, LinkStep DEF CredentialsInv, CredentialsTypeOK
<1>2. CASE DeleteRefused(w)
  <2>1. /\ UNCHANGED <<custody, documents, clocks, requested, yielded, retired, tangled>>
        /\ errand' = [errand EXCEPT ![w] = AtRest] /\ errand[w].pc = "delete"
    BY <1>2 DEF DeleteRefused, Finish
  <2>2. errand[w] \in Errand /\ OfLink(errand[w])
    BY <2>1, AtLink
  <2> DEFINE N == AtRest
  <2>3. N \in Errand /\ N = AtRest /\ errand' = [errand EXCEPT ![w] = N]
    BY <2>1, Rest
  <2> HIDE DEF N
  <2>4. QED  BY <2>1, <2>2, <2>3, LinkStep DEF CredentialsInv, CredentialsTypeOK, documents
<1>3. QED  BY <1>1, <1>2

(* A connection is registered; a code or a login lapses. *)
LEMMA ElsewhereStep ==
    ASSUME CredentialsInv, \/ \E n \in Connection : Connects(n)
                           \/ \E l \in Login : LoginLapses(l)
                           \/ \E k \in Code : CodeLapses(k)
    PROVE  CredentialsInv'
<1>1. UNCHANGED <<custody, agent, code, token, login, profile, record, vault, errand, requested,
                  yielded, retired, tangled>>
  BY DEF Connects, LoginLapses, CodeLapses, documents
<1>2. CredentialsTypeOK'
  <2>1. CASE \E n \in Connection : Connects(n)
    BY <2>1 DEF Connects, CredentialsInv, CredentialsTypeOK, clocks, LinkDoc
  <2>2. CASE \E l \in Login : LoginLapses(l)
    BY <2>2 DEF LoginLapses, CredentialsInv, CredentialsTypeOK, documents
  <2>3. CASE \E k \in Code : CodeLapses(k)
    BY <2>3 DEF CodeLapses, CredentialsInv, CredentialsTypeOK, documents
  <2>4. QED  BY <2>1, <2>2, <2>3
<1>3. QED  BY <1>1, <1>2 DEF CredentialsInv, Handled, Codes, Registered, Beating, CutOff, Secrets
-----------------------------------------------------------------------------
(* Secrets                                                                 *)

(* Whoever is alone with an untangled secret. *)
LEMMA AloneWithSecret ==
    ASSUME CredentialsInv, NEW v \in Worker, NEW w \in Worker, v # w,
           errand[w].secret \in Secret, errand[v].secret = errand[w].secret
    PROVE  errand[w].secret \in tangled
<1>1. errand[w].secret \in Held(errand[v]) \cap Held(errand[w])
  BY NoneApart DEF Held
<1>2. QED  BY <1>1 DEF CredentialsInv, Handled

(* Whoever has a secret in hand leaves the rest alone. *)
LEMMA SecretStep ==
    ASSUME CredentialsInv, NEW w \in Worker, OfSecret(errand[w]), NEW N \in Errand,
           N = AtRest \/ (OfSecret(N) /\ N.secret = errand[w].secret /\ N.value = errand[w].value
                          /\ N.link = errand[w].link),
           errand' = [errand EXCEPT ![w] = N],
           UNCHANGED <<custody, agent, code, token, link, login, profile, clocks, requested,
                       yielded, retired, tangled>>,
           record' \in [Secret -> Value \cup {None}], vault' \in [Secret -> Value \cup {None}],
           \A s \in Secret : s # errand[w].secret => record'[s] = record[s] /\ vault'[s] = vault[s],
           errand[w].secret \notin tangled =>
              /\ N = AtRest => record'[errand[w].secret] = vault'[errand[w].secret]
              /\ N.pc = "store" => record'[errand[w].secret] = vault'[errand[w].secret]
              /\ N.pc = "saverecord" => vault'[errand[w].secret] = N.value
              /\ N.pc = "drop" => vault'[errand[w].secret] = None
    PROVE  CredentialsInv'
<1> DEFINE s == errand[w].secret
<1>1. Apt(N) /\ N.agent = None /\ N.code = None /\ s \in Secret
  BY Rest DEF Apt, OfSecret
<1>2. Held(N) \subseteq Held(errand[w])
  BY Rest DEF Held, OfSecret
<1>3. /\ errand' \in [Worker -> Errand] /\ Handled' /\ errand'[w] = N
      /\ \A v \in Worker : v # w => errand'[v] = errand[v]
  BY <1>1, <1>2, GoesOn
<1>4. CredentialsTypeOK'
  BY <1>3 DEF CredentialsInv, CredentialsTypeOK, clocks
<1>5. Codes' /\ Registered' /\ Beating' /\ CutOff'
  BY <1>1, <1>3, QuietCodes, QuietAgents
<1>6. Secrets'
  <2> SUFFICES ASSUME NEW x \in Secret \ tangled
               PROVE  /\ (\A v \in Worker : errand'[v].secret # x) => record'[x] = vault'[x]
                      /\ \A v \in Worker : errand'[v].secret = x =>
                            /\ errand'[v].pc = "store" => record'[x] = vault'[x]
                            /\ errand'[v].pc = "saverecord" => vault'[x] = errand'[v].value
                            /\ errand'[v].pc = "drop" => vault'[x] = None
    BY DEF Secrets
  <2>1. CASE x = s
    <3>1. \A v \in Worker : v # w => errand[v].secret # x
      BY <1>1, <2>1, AloneWithSecret
    <3>2. N = AtRest \/ N.secret = s
      OBVIOUS
    <3>3. QED  BY <1>1, <1>3, <2>1, <3>1, <3>2, Rest, NoneApart
  <2>2. CASE x # s
    <3>1. record'[x] = record[x] /\ vault'[x] = vault[x]
      BY <2>2
    <3>2. errand[w].secret # x /\ errand'[w].secret # x
      BY <1>3, <2>2, Rest, NoneApart
    <3>3. QED  BY <1>3, <3>1, <3>2 DEF CredentialsInv, Secrets
  <2>3. QED  BY <2>1, <2>2
<1>7. QED  BY <1>3, <1>4, <1>5, <1>6 DEF CredentialsInv

(* A request for a secret starts, while record and store agree. *)
LEMMA SecretStarts ==
    ASSUME CredentialsInv, NEW w \in Worker, NEW op \in {"create", "rotate", "delete"},
           NEW e \in Errand, Begins(w, op, e), e.agent = None, e.code = None, e.secret \in Secret,
           e.pc = "store"
    PROVE  CredentialsInv'
<1> DEFINE N == [e EXCEPT !.op = op]
<1>1. /\ N \in Errand /\ N.agent = None /\ N.code = None /\ N.secret = e.secret /\ N.link = e.link
      /\ N.op = op /\ N.pc = "store"
  BY DEF Errand, Errands
<1>2. N = [e EXCEPT !.op = op]
  OBVIOUS
<1> HIDE DEF N
<1>3. Apt(N) /\ Held(N) = Held(e)
  BY <1>1 DEF Apt, OfSecret, Held
<1>4. op \in Errands
  BY DEF Errands
<1>5. /\ errand' \in [Worker -> Errand] /\ Handled' /\ errand'[w] = N /\ errand[w] = AtRest
      /\ \A v \in Worker : v # w => errand'[v] = errand[v]
      /\ UNCHANGED <<custody, documents, clocks, yielded, retired>>
      /\ requested' \in Nat /\ tangled \subseteq tangled'
      /\ tangled' \subseteq Agent \cup Code \cup Connection \cup Secret
  BY <1>1, <1>2, <1>3, <1>4, Starts
<1>6. UNCHANGED <<agent, code, token, link, login, profile, record, vault>>
  BY <1>5 DEF documents
<1>7. CredentialsTypeOK'
  BY <1>5, <1>6 DEF CredentialsInv, CredentialsTypeOK, clocks
<1>8. Codes' /\ Registered' /\ Beating' /\ CutOff'
  BY <1>1, <1>5, <1>6, QuietCodes, QuietAgents
<1>9. Secrets'
  <2> SUFFICES ASSUME NEW x \in Secret \ tangled'
               PROVE  /\ (\A v \in Worker : errand'[v].secret # x) => record[x] = vault[x]
                      /\ \A v \in Worker : errand'[v].secret = x =>
                            /\ errand'[v].pc = "store" => record[x] = vault[x]
                            /\ errand'[v].pc = "saverecord" => vault[x] = errand'[v].value
                            /\ errand'[v].pc = "drop" => vault[x] = None
    BY <1>6 DEF Secrets
  <2>1. x \in Secret \ tangled
    BY <1>5
  <2>2. CASE N.secret = x
    <3>1. \A v \in Worker : v # w => errand[v].secret # x
      <4> SUFFICES ASSUME NEW v \in Worker, v # w, errand[v].secret = x PROVE FALSE
        OBVIOUS
      <4>1. x \in Held(errand'[v]) \cap Held(errand'[w])
        BY <1>5, <2>1, <2>2, NoneApart DEF Held
      <4>2. QED  BY <1>5, <4>1 DEF Handled
    <3>2. errand[w].secret # x
      BY <1>5, <2>1, Rest, NoneApart
    <3>3. record[x] = vault[x]
      BY <2>1, <3>1, <3>2 DEF CredentialsInv, Secrets
    <3>4. QED  BY <1>1, <1>5, <3>1, <3>3
  <2>3. CASE N.secret # x
    <3>1. errand[w].secret # x
      BY <1>5, <2>1, Rest, NoneApart
    <3>2. QED  BY <1>5, <2>1, <2>3, <3>1 DEF CredentialsInv, Secrets
  <2>4. QED  BY <2>2, <2>3
<1>10. QED  BY <1>5, <1>7, <1>8, <1>9 DEF CredentialsInv

(* The requests of secrets. *)
LEMMA SecretRequests ==
    ASSUME CredentialsInv, NEW w \in Worker, NEW s \in Secret,
           (\E v \in Value : Creates(w, s, v) \/ Rotates(w, s, v)) \/ Deletes(w, s)
    PROVE  CredentialsInv'
<1>1. CASE \E v \in Value : Creates(w, s, v) \/ Rotates(w, s, v)
  <2> PICK v \in Value : Creates(w, s, v) \/ Rotates(w, s, v)
    BY <1>1
  <2> DEFINE e == [AtRest EXCEPT !.secret = s, !.value = v, !.pc = "store"]
  <2>1. Begins(w, "create", e) \/ Begins(w, "rotate", e)
    BY DEF Creates, Rotates
  <2>2. e \in Errand /\ e.agent = None /\ e.code = None /\ e.secret = s /\ e.pc = "store"
    BY Rest DEF Errand
  <2> HIDE DEF e
  <2>3. QED  BY <2>1, <2>2, SecretStarts
<1>2. CASE Deletes(w, s)
  <2> DEFINE e == [AtRest EXCEPT !.secret = s, !.pc = "store"]
  <2>1. Begins(w, "delete", e)
    BY <1>2 DEF Deletes
  <2>2. e \in Errand /\ e.agent = None /\ e.code = None /\ e.secret = s /\ e.pc = "store"
    BY Rest DEF Errand
  <2> HIDE DEF e
  <2>3. QED  BY <2>1, <2>2, SecretStarts
<1>3. QED  BY <1>1, <1>2

(* Whoever is at one of these has a secret in hand. *)
LEMMA AtSecret ==
    ASSUME CredentialsInv, NEW w \in Worker,
           \/ errand[w].pc \in {"saverecord", "drop"}
           \/ errand[w].op \in {"create", "rotate", "delete"}
    PROVE  errand[w] \in Errand /\ OfSecret(errand[w])
BY InHand, Rest DEF OfAgent, OfCode, OfLink, OfSecret
(* The value is stored, unless the store has forgotten the secret. *)
LEMMA StoresValueStep ==
    ASSUME CredentialsInv, NEW w \in Worker, StoresValue(w)
    PROVE  CredentialsInv'
<1> DEFINE s == errand[w].secret
           M == [errand[w] EXCEPT !.pc = "saverecord"]
           gone == errand[w].op = "rotate" /\ vault[s] = None
           N == IF gone THEN AtRest ELSE M
<1>1. /\ UNCHANGED <<custody, agent, code, token, link, login, profile, record, clocks, requested,
                     yielded, retired, tangled>>
      /\ vault' = IF gone THEN vault ELSE [vault EXCEPT ![s] = errand[w].value]
      /\ errand' = [errand EXCEPT ![w] = N]
      /\ errand[w].op \in {"create", "rotate"} /\ errand[w].pc = "store"
  BY DEF StoresValue, Step, Finish
<1>2. errand[w] \in Errand /\ OfSecret(errand[w]) /\ s \in Secret
  BY <1>1, AtSecret DEF OfSecret
<1>3. /\ M \in Errand /\ OfSecret(M) /\ M.secret = s /\ M.value = errand[w].value
      /\ M.link = errand[w].link /\ M.pc = "saverecord" /\ M # AtRest
  BY <1>1, <1>2, Rest DEF Errand, OfSecret
<1> HIDE DEF M
<1>4. record \in [Secret -> Value \cup {None}] /\ vault \in [Secret -> Value \cup {None}]
  BY DEF CredentialsInv, CredentialsTypeOK
<1>5. errand[w].value \in Value \cup {None}
  BY <1>2 DEF Errand
<1>6. vault' \in [Secret -> Value \cup {None}] /\ record' = record
  BY <1>1, <1>4, <1>5
<1>7. \A x \in Secret : x # s => record'[x] = record[x] /\ vault'[x] = vault[x]
  BY <1>1, <1>4
<1>8. s \notin tangled => record[s] = vault[s]
  BY <1>1, <1>2 DEF CredentialsInv, Secrets
<1>9. ~gone => vault'[s] = errand[w].value
  BY <1>1, <1>2, <1>4
<1>10. /\ N \in Errand
       /\ N = AtRest \/ (OfSecret(N) /\ N.secret = s /\ N.value = errand[w].value
                         /\ N.link = errand[w].link)
  BY <1>3, Rest
<1>11. s \notin tangled =>
          /\ N = AtRest => record'[s] = vault'[s]
          /\ N.pc = "store" => record'[s] = vault'[s]
          /\ N.pc = "saverecord" => vault'[s] = N.value
          /\ N.pc = "drop" => vault'[s] = None
  BY <1>1, <1>3, <1>6, <1>8, <1>9, Rest
<1> HIDE DEF N
<1>12. QED  BY <1>1, <1>2, <1>4, <1>6, <1>7, <1>10, <1>11, SecretStep

(* The record is saved once the value is stored. *)
LEMMA SavesRecordStep ==
    ASSUME CredentialsInv, NEW w \in Worker, SavesRecord(w)
    PROVE  CredentialsInv'
<1> DEFINE s == errand[w].secret
           N == AtRest
<1>1. /\ UNCHANGED <<custody, agent, code, token, link, login, profile, vault, clocks, requested,
                     yielded, retired, tangled>>
      /\ record' = [record EXCEPT ![s] = errand[w].value]
      /\ errand' = [errand EXCEPT ![w] = N] /\ errand[w].pc = "saverecord"
  BY DEF SavesRecord, Finish
<1>2. errand[w] \in Errand /\ OfSecret(errand[w]) /\ s \in Secret
  BY <1>1, AtSecret DEF OfSecret
<1>3. record \in [Secret -> Value \cup {None}] /\ vault \in [Secret -> Value \cup {None}]
      /\ errand[w].value \in Value \cup {None}
  BY <1>2 DEF CredentialsInv, CredentialsTypeOK, Errand
<1>4. record' \in [Secret -> Value \cup {None}] /\ vault' = vault /\ record'[s] = errand[w].value
  BY <1>1, <1>2, <1>3
<1>5. \A x \in Secret : x # s => record'[x] = record[x] /\ vault'[x] = vault[x]
  BY <1>1, <1>3
<1>6. s \notin tangled => vault[s] = errand[w].value
  BY <1>1, <1>2 DEF CredentialsInv, Secrets
<1>7. N \in Errand /\ N = AtRest /\ N.pc = "idle"
  BY Rest
<1> HIDE DEF N
<1>8. QED  BY <1>1, <1>2, <1>3, <1>4, <1>5, <1>6, <1>7, SecretStep

(* The value is dropped, then the record. *)
LEMMA DropsStep ==
    ASSUME CredentialsInv, NEW w \in Worker, DropsValue(w) \/ DropsRecord(w)
    PROVE  CredentialsInv'
<1> DEFINE s == errand[w].secret
<1>1. record \in [Secret -> Value \cup {None}] /\ vault \in [Secret -> Value \cup {None}]
  BY DEF CredentialsInv, CredentialsTypeOK
<1>2. CASE DropsValue(w)
  <2> DEFINE N == [errand[w] EXCEPT !.pc = "drop"]
  <2>1. /\ UNCHANGED <<custody, agent, code, token, link, login, profile, record, clocks, requested,
                       yielded, retired, tangled>>
        /\ vault' = [vault EXCEPT ![s] = None]
        /\ errand' = [errand EXCEPT ![w] = N] /\ errand[w].op = "delete"
    BY <1>2 DEF DropsValue, Step, Doing
  <2>2. errand[w] \in Errand /\ OfSecret(errand[w]) /\ s \in Secret
    BY <2>1, AtSecret DEF OfSecret
  <2>3. /\ N \in Errand /\ OfSecret(N) /\ N.secret = s /\ N.value = errand[w].value
        /\ N.link = errand[w].link /\ N.pc = "drop" /\ N # AtRest
    BY <2>1, <2>2, Rest DEF Errand, OfSecret
  <2> HIDE DEF N
  <2>4. vault' \in [Secret -> Value \cup {None}] /\ record' = record /\ vault'[s] = None
    BY <1>1, <2>1, <2>2
  <2>5. \A x \in Secret : x # s => record'[x] = record[x] /\ vault'[x] = vault[x]
    BY <1>1, <2>1
  <2>6. QED  BY <1>1, <2>1, <2>2, <2>3, <2>4, <2>5, SecretStep
<1>3. CASE DropsRecord(w)
  <2> DEFINE N == AtRest
  <2>1. /\ UNCHANGED <<custody, agent, code, token, link, login, profile, vault, clocks, requested,
                       yielded, retired, tangled>>
        /\ record' = [record EXCEPT ![s] = None]
        /\ errand' = [errand EXCEPT ![w] = N] /\ errand[w].pc = "drop"
    BY <1>3 DEF DropsRecord, Finish
  <2>2. errand[w] \in Errand /\ OfSecret(errand[w]) /\ s \in Secret
    BY <2>1, AtSecret DEF OfSecret
  <2>3. record' \in [Secret -> Value \cup {None}] /\ vault' = vault /\ record'[s] = None
    BY <1>1, <2>1, <2>2
  <2>4. \A x \in Secret : x # s => record'[x] = record[x] /\ vault'[x] = vault[x]
    BY <1>1, <2>1
  <2>5. s \notin tangled => vault[s] = None
    BY <2>1, <2>2 DEF CredentialsInv, Secrets
  <2>6. N \in Errand /\ N = AtRest /\ N.pc = "idle"
    BY Rest
  <2> HIDE DEF N
  <2>7. QED  BY <1>1, <2>1, <2>2, <2>3, <2>4, <2>5, <2>6, SecretStep
<1>4. QED  BY <1>2, <1>3

(* An invocation that dies leaves its secret tangled. *)
LEMMA AbandonsStep ==
    ASSUME CredentialsInv, NEW w \in Worker, Abandons(w)
    PROVE  CredentialsInv'
<1> DEFINE N == AtRest
<1>1. /\ UNCHANGED <<custody, documents, clocks, requested, yielded, retired>>
      /\ tangled' = tangled \cup ({errand[w].link, errand[w].secret} \ {None})
      /\ errand' = [errand EXCEPT ![w] = N]
  BY DEF Abandons, Finish
<1>2. N \in Errand /\ Apt(N) /\ Held(N) = {} /\ N.agent = None /\ N.code = None /\ N.secret = None
  BY Rest
<1> HIDE DEF N
<1>3. /\ errand' \in [Worker -> Errand] /\ Handled' /\ errand'[w] = N
      /\ \A v \in Worker : v # w => errand'[v] = errand[v]
  BY <1>1, <1>2, GoesOn
<1>4. UNCHANGED <<agent, code, token, link, login, profile, record, vault>>
  BY <1>1 DEF documents
<1>5. errand[w].link \in Connection \cup {None} /\ errand[w].secret \in Secret \cup {None}
  BY InHand DEF Errand
<1>6. tangled \subseteq tangled' /\ tangled' \subseteq Agent \cup Code \cup Connection \cup Secret
  BY <1>1, <1>5 DEF CredentialsInv, CredentialsTypeOK
<1>7. CredentialsTypeOK'
  BY <1>1, <1>3, <1>4, <1>6 DEF CredentialsInv, CredentialsTypeOK, clocks
<1>8. errand[w].secret \in {None} \cup tangled'
  BY <1>1
<1>9. Codes' /\ Registered' /\ Beating' /\ CutOff' /\ Secrets'
  BY <1>1, <1>2, <1>3, <1>4, <1>6, <1>8, QuietCodes, QuietAgents, QuietSecrets
<1>10. QED  BY <1>3, <1>7, <1>9 DEF CredentialsInv
-----------------------------------------------------------------------------
(* Agents, codes and tokens                                                *)

(* Whoever shares an agent or a code with another has it tangled. *)
LEMMA Alone ==
    ASSUME CredentialsInv, NEW v \in Worker, NEW w \in Worker, v # w
    PROVE  /\ errand[w].agent \in Agent /\ errand[v].agent = errand[w].agent => errand[w].agent \in tangled
           /\ errand[w].code \in Code /\ errand[v].code = errand[w].code => errand[w].code \in tangled
<1>1. Held(errand[v]) \cap Held(errand[w]) \subseteq tangled
  BY DEF CredentialsInv, Handled
<1>2. QED  BY <1>1, NoneApart DEF Held

(* A request of agents or codes starts. *)
LEMMA AgentStarts ==
    ASSUME CredentialsInv, NEW w \in Worker, NEW op \in {"authorize", "exchange", "beat", "revokeagent"},
           NEW e \in Errand, Begins(w, op, e), NEW N \in Errand, N = [e EXCEPT !.op = op],
           OfAgent(N) \/ OfCode(N), N.agent = e.agent, N.code = e.code
    PROVE  /\ CredentialsTypeOK' /\ Handled' /\ Secrets' /\ errand'[w] = N
           /\ \A v \in Worker : v # w => errand'[v] = errand[v]
           /\ UNCHANGED <<agent, code, token, yielded, retired>> /\ tangled \subseteq tangled'
<1>1. N.secret = None /\ N.secret = e.secret /\ N.link = e.link
  BY DEF OfAgent, OfCode, Errand
<1>2. Apt(N) /\ Held(N) = Held(e) /\ op \in Errands
  BY <1>1 DEF Apt, Held, Errands
<1>3. /\ errand' \in [Worker -> Errand] /\ Handled' /\ errand'[w] = N /\ errand[w] = AtRest
      /\ \A v \in Worker : v # w => errand'[v] = errand[v]
      /\ UNCHANGED <<custody, documents, clocks, yielded, retired>>
      /\ requested' \in Nat /\ tangled \subseteq tangled'
      /\ tangled' \subseteq Agent \cup Code \cup Connection \cup Secret
  BY <1>2, Starts
<1>4. UNCHANGED <<agent, code, token, link, login, profile, record, vault>>
  BY <1>3 DEF documents
<1>5. CredentialsTypeOK'
  BY <1>3, <1>4 DEF CredentialsInv, CredentialsTypeOK, clocks
<1>6. Secrets'
  BY <1>1, <1>3, <1>4, Rest, QuietSecrets
<1>7. QED  BY <1>3, <1>4, <1>5, <1>6

(* A request of agents or codes goes on. *)
LEMMA AgentStep ==
    ASSUME CredentialsInv, NEW w \in Worker, OfAgent(errand[w]) \/ OfCode(errand[w]),
           NEW N \in Errand,
           N = AtRest \/ ((OfAgent(N) \/ OfCode(N)) /\ N.agent = errand[w].agent
                          /\ N.code = errand[w].code /\ N.link = errand[w].link),
           errand' = [errand EXCEPT ![w] = N],
           UNCHANGED <<custody, link, login, profile, record, vault, clocks, requested, tangled>>,
           agent' \in [Agent -> AgentDoc], code' \in [Code -> CodeDoc], token' \in [Token -> TokenDoc],
           yielded' \in [Code -> Nat], retired' \subseteq Token
    PROVE  /\ CredentialsTypeOK' /\ Handled' /\ Secrets' /\ errand'[w] = N
           /\ \A v \in Worker : v # w => errand'[v] = errand[v]
<1>1. errand[w].secret = None /\ N.secret = None
  BY Rest DEF OfAgent, OfCode
<1>2. Apt(N) /\ Held(N) \subseteq Held(errand[w])
  BY <1>1, Rest DEF Apt, Held
<1>3. /\ errand' \in [Worker -> Errand] /\ Handled' /\ errand'[w] = N
      /\ \A v \in Worker : v # w => errand'[v] = errand[v]
  BY <1>2, GoesOn
<1>4. CredentialsTypeOK'
  BY <1>3 DEF CredentialsInv, CredentialsTypeOK, clocks
<1>5. Secrets'
  BY <1>1, <1>3, QuietSecrets
<1>6. QED  BY <1>3, <1>4, <1>5

(* A pending code is exchanged: it has yielded nothing. *)
LEMMA ExchangesStep ==
    ASSUME CredentialsInv, NEW w \in Worker, NEW k \in Code, Exchanges(w, k)
    PROVE  CredentialsInv'
<1> DEFINE e == [AtRest EXCEPT !.code = k, !.pc = "usecode"]
           N == [e EXCEPT !.op = "exchange"]
<1>1. Begins(w, "exchange", e) /\ code[k].status = "PENDING"
  BY DEF Exchanges
<1>2. e \in Errand /\ e.agent = None /\ e.code = k /\ e.secret = None /\ e.pc = "usecode"
  BY Rest DEF Errand
<1> HIDE DEF e
<1>3. N \in Errand /\ N.agent = None /\ N.code = k /\ N.secret = None /\ N.pc = "usecode"
      /\ N.op = "exchange"
  BY <1>2 DEF Errand, Errands
<1>4. N = [e EXCEPT !.op = "exchange"]
  OBVIOUS
<1> HIDE DEF N
<1>5. OfCode(N)
  BY <1>3 DEF OfCode
<1>6. /\ CredentialsTypeOK' /\ Handled' /\ Secrets' /\ errand'[w] = N
      /\ \A v \in Worker : v # w => errand'[v] = errand[v]
      /\ UNCHANGED <<agent, code, token, yielded, retired>> /\ tangled \subseteq tangled'
  BY <1>1, <1>2, <1>3, <1>4, <1>5, AgentStarts
<1>7. Codes'
  BY <1>1, <1>3, <1>6 DEF CredentialsInv, Codes
<1>8. Registered' /\ Beating' /\ CutOff'
  BY <1>3, <1>6, QuietAgents
<1>9. QED  BY <1>6, <1>7, <1>8 DEF CredentialsInv

(* Whoever is at one of these has a code in hand, or an agent. *)
LEMMA AtCode ==
    ASSUME CredentialsInv, NEW w \in Worker
    PROVE  /\ errand[w] \in Errand
           /\ errand[w].pc \in {"usecode", "puttoken"} => OfCode(errand[w])
           /\ \/ errand[w].pc \in {"tokens", "saveagent", "putcode", "gate", "read"}
              \/ errand[w].op \in {"authorize", "beat", "revokeagent"}
              => OfAgent(errand[w])
BY InHand, Rest DEF OfAgent, OfCode, OfLink, OfSecret

(* The code is marked used. *)
LEMMA UsesCodeStep ==
    ASSUME CredentialsInv, NEW w \in Worker, UsesCode(w)
    PROVE  CredentialsInv'
<1> DEFINE k == errand[w].code
           N == [errand[w] EXCEPT !.pc = "puttoken"]
<1>1. /\ UNCHANGED <<custody, agent, token, link, login, profile, record, vault, clocks, requested,
                     yielded, retired, tangled>>
      /\ code' = [code EXCEPT ![k].status = "USED"]
      /\ errand' = [errand EXCEPT ![w] = N] /\ errand[w].pc = "usecode"
  BY DEF UsesCode, Step
<1>2. errand[w] \in Errand /\ OfCode(errand[w]) /\ k \in Code
  BY <1>1, AtCode DEF OfCode
<1>3. /\ N \in Errand /\ OfCode(N) /\ N.agent = errand[w].agent /\ N.code = k
      /\ N.link = errand[w].link /\ N.agent = None
  BY <1>2 DEF Errand, OfCode
<1> HIDE DEF N
<1>4. code' \in [Code -> CodeDoc]
  BY <1>1 DEF CredentialsInv, CredentialsTypeOK, CodeDoc
<1>5. /\ CredentialsTypeOK' /\ Handled' /\ Secrets' /\ errand'[w] = N
      /\ \A v \in Worker : v # w => errand'[v] = errand[v]
  BY <1>1, <1>2, <1>3, <1>4, AgentStep DEF CredentialsInv, CredentialsTypeOK
<1>6. /\ code'[k].status = "USED" /\ code'[k].agent = code[k].agent
      /\ \A j \in Code : j # k => code'[j] = code[j]
  BY <1>1, <1>2 DEF CredentialsInv, CredentialsTypeOK, CodeDoc
<1>7. code[k].status # "none" /\ (yielded[k] = 0 \/ k \in tangled)
  BY <1>2 DEF CredentialsInv, Codes
<1> HIDE DEF k
<1>8. Codes'
  <2>1. \A v \in Worker : errand'[v].code = errand[v].code
    BY <1>3, <1>5 DEF k
  <2> SUFFICES ASSUME NEW j \in Code
               PROVE  /\ code'[j].status # "USED" => yielded[j] = 0
                      /\ yielded[j] <= 1 \/ j \in tangled
                      /\ \A v \in Worker : errand'[v].code = j =>
                            /\ code'[j].status # "none" /\ (yielded[j] = 0 \/ j \in tangled)
                            /\ errand'[v].pc = "puttoken" => code'[j].status = "USED"
    BY <1>1 DEF Codes
  <2>2. CASE j = k
    BY <1>6, <1>7, <2>1, <2>2 DEF CredentialsInv, Codes
  <2>3. CASE j # k
    BY <1>3, <1>5, <1>6, <2>1, <2>3 DEF CredentialsInv, Codes
  <2>4. QED  BY <2>2, <2>3
<1>9. Registered'
  <2>1. \A j \in Code : code'[j].status # "none" => code[j].status # "none" /\ code'[j].agent = code[j].agent
    BY <1>6, <1>7
  <2>2. ~OfAgent(errand'[w])
    BY <1>3, <1>5, NoneApart DEF OfAgent
  <2>3. QED  BY <1>1, <1>5, <2>1, <2>2 DEF CredentialsInv, Registered
<1>10. Beating' /\ CutOff'
  <2>1. \A t \in retired : token[t].agent # None
    BY NoneApart DEF CredentialsInv, CredentialsTypeOK, Registered
  <2>2. errand'[w].op # "beat"
    BY <1>3, <1>5 DEF OfCode
  <2>3. QED  BY <1>1, <1>3, <1>5, <2>1, <2>2 DEF CredentialsInv, Beating, CutOff
<1>11. QED  BY <1>5, <1>8, <1>9, <1>10 DEF CredentialsInv
(* A token is stored for a used code, the first one unless tangled. *)
LEMMA PutsTokenStep ==
    ASSUME CredentialsInv, NEW w \in Worker, NEW t \in Token, PutsToken(w, t)
    PROVE  CredentialsInv'
<1> DEFINE k == errand[w].code
           d == [status |-> "active", agent |-> code[k].agent]
           N == AtRest
<1>1. /\ UNCHANGED <<custody, agent, code, link, login, profile, record, vault, clocks, requested,
                     retired, tangled>>
      /\ token' = [token EXCEPT ![t] = d] /\ yielded' = [yielded EXCEPT ![k] = yielded[k] + 1]
      /\ errand' = [errand EXCEPT ![w] = N] /\ errand[w].pc = "puttoken"
      /\ token[t].status = "none"
  BY DEF PutsToken, Finish, Fresh
<1>2. errand[w] \in Errand /\ OfCode(errand[w]) /\ k \in Code
  BY <1>1, AtCode DEF OfCode
<1>3. N \in Errand /\ N = AtRest /\ N.agent = None /\ N.code = None /\ N.op = "none"
  BY Rest
<1>4. /\ code[k].status = "USED" /\ (yielded[k] = 0 \/ k \in tangled)
      /\ code[k].agent \in Agent /\ agent[code[k].agent].status # "none"
  BY <1>1, <1>2 DEF CredentialsInv, Codes, Registered
<1>5. d \in TokenDoc /\ d.agent = code[k].agent
  BY <1>4 DEF TokenDoc
<1> HIDE DEF N, k
<1>6. token' \in [Token -> TokenDoc] /\ yielded' \in [Code -> Nat]
  BY <1>1, <1>2, <1>5 DEF CredentialsInv, CredentialsTypeOK
<1>7. /\ CredentialsTypeOK' /\ Handled' /\ Secrets' /\ errand'[w] = N
      /\ \A v \in Worker : v # w => errand'[v] = errand[v]
  BY <1>1, <1>2, <1>3, <1>6, AgentStep DEF CredentialsInv, CredentialsTypeOK
<1>8. /\ token'[t].status = "active" /\ token'[t].agent = code[k].agent
      /\ \A u \in Token : u # t => token'[u] = token[u]
  BY <1>1, <1>5 DEF CredentialsInv, CredentialsTypeOK
<1>9. /\ yielded'[k] = yielded[k] + 1 /\ yielded[k] \in Nat
      /\ \A j \in Code : j # k => yielded'[j] = yielded[j]
  BY <1>1, <1>2 DEF CredentialsInv, CredentialsTypeOK
<1>10. Codes'
  <2> SUFFICES ASSUME NEW j \in Code
               PROVE  /\ code[j].status # "USED" => yielded'[j] = 0
                      /\ yielded'[j] <= 1 \/ j \in tangled
                      /\ \A v \in Worker : errand'[v].code = j =>
                            /\ code[j].status # "none" /\ (yielded'[j] = 0 \/ j \in tangled)
                            /\ errand'[v].pc = "puttoken" => code[j].status = "USED"
    BY <1>1 DEF Codes
  <2>1. CASE j = k
    <3>1. yielded'[j] <= 1 \/ j \in tangled
      BY <1>4, <1>9, <2>1
    <3>2. \A v \in Worker : errand'[v].code = j => j \in tangled
      BY <1>2, <1>3, <1>7, <2>1, Alone, NoneApart DEF k
    <3>3. QED  BY <1>4, <2>1, <3>1, <3>2
  <2>2. CASE j # k
    BY <1>3, <1>7, <1>9, <2>2, NoneApart DEF CredentialsInv, Codes
  <2>3. QED  BY <2>1, <2>2
<1>11. t \notin retired
  BY <1>1 DEF CredentialsInv, Registered
<1>12. Registered'
  <2>1. ~OfAgent(errand'[w])
    BY <1>3, <1>7, NoneApart DEF OfAgent
  <2>2. \A u \in Token : token[u].status # "none" => token'[u].status # "none"
    BY <1>8
  <2>3. QED  BY <1>1, <1>4, <1>7, <1>8, <1>11, <2>1, <2>2 DEF CredentialsInv, Registered
<1>13. Beating'
  BY <1>1, <1>3, <1>7 DEF CredentialsInv, Beating
<1>14. CutOff'
  <2>1. \A u \in retired : token[u].agent # None /\ u \in Token
    BY NoneApart DEF CredentialsInv, CredentialsTypeOK, Registered
  <2>2. QED  BY <1>1, <1>3, <1>7, <1>8, <1>11, <2>1 DEF CredentialsInv, CutOff
<1>15. QED  BY <1>7, <1>10, <1>12, <1>13, <1>14 DEF CredentialsInv

(* A code is issued for an agent that was saved. *)
LEMMA PutsCodeStep ==
    ASSUME CredentialsInv, NEW w \in Worker, NEW k \in Code, PutsCode(w, k)
    PROVE  CredentialsInv'
<1> DEFINE g == errand[w].agent
           d == [status |-> "PENDING", agent |-> g]
           N == AtRest
<1>1. /\ UNCHANGED <<custody, agent, token, link, login, profile, record, vault, clocks, requested,
                     yielded, retired, tangled>>
      /\ code' = [code EXCEPT ![k] = d]
      /\ errand' = [errand EXCEPT ![w] = N] /\ errand[w].pc = "putcode"
      /\ code[k].status = "none"
  BY DEF PutsCode, Finish, Fresh
<1>2. errand[w] \in Errand /\ OfAgent(errand[w]) /\ g \in Agent
  BY <1>1, AtCode DEF OfAgent
<1>3. N \in Errand /\ N = AtRest /\ N.agent = None /\ N.code = None /\ N.op = "none"
  BY Rest
<1>4. agent[g].status # "none"
  BY <1>1, <1>2 DEF CredentialsInv, Registered
<1>5. d \in CodeDoc /\ d.agent = g
  BY <1>2 DEF CodeDoc
<1> HIDE DEF N, g
<1>6. code' \in [Code -> CodeDoc]
  BY <1>1, <1>5 DEF CredentialsInv, CredentialsTypeOK
<1>7. /\ CredentialsTypeOK' /\ Handled' /\ Secrets' /\ errand'[w] = N
      /\ \A v \in Worker : v # w => errand'[v] = errand[v]
  BY <1>1, <1>2, <1>3, <1>6, AgentStep DEF CredentialsInv, CredentialsTypeOK
<1>8. /\ code'[k].status = "PENDING" /\ code'[k].agent = g
      /\ \A j \in Code : j # k => code'[j] = code[j]
  BY <1>1, <1>5 DEF CredentialsInv, CredentialsTypeOK
<1>9. yielded[k] = 0 /\ \A v \in Worker : errand[v].code # k
  BY <1>1 DEF CredentialsInv, Codes
<1>10. Codes'
  BY <1>1, <1>3, <1>7, <1>8, <1>9, NoneApart DEF CredentialsInv, Codes
<1>11. Registered'
  <2>1. ~OfAgent(errand'[w])
    BY <1>3, <1>7, NoneApart DEF OfAgent
  <2>2. QED  BY <1>1, <1>2, <1>4, <1>7, <1>8, <2>1 DEF CredentialsInv, Registered
<1>12. Beating'
  BY <1>1, <1>3, <1>7 DEF CredentialsInv, Beating
<1>13. CutOff'
  <2>1. \A u \in retired : token[u].agent # None
    BY NoneApart DEF CredentialsInv, CredentialsTypeOK, Registered
  <2>2. QED  BY <1>1, <1>3, <1>7, <2>1 DEF CredentialsInv, CutOff
<1>14. QED  BY <1>7, <1>10, <1>11, <1>12, <1>13 DEF CredentialsInv

(* A browser is authorized: its agent is known, or a new one. *)
LEMMA AuthorizesStep ==
    ASSUME CredentialsInv, NEW w \in Worker, NEW b \in Browser \cup {NoBrowser}, Authorizes(w, b)
    PROVE  CredentialsInv'
<1> DEFINE at == IF Known(b) # {} THEN "tokens" ELSE "saveagent"
           d == [status |-> "active", browser |-> b]
<1>1. PICK g \in Agent :
         /\ Begins(w, "authorize", [AtRest EXCEPT !.agent = g, !.agentDoc = d, !.pc = at])
         /\ at = "tokens" => agent[g].status # "none"
         /\ at = "saveagent" => agent[g].status = "none"
  BY DEF Authorizes, Known, Fresh
<1> DEFINE e == [AtRest EXCEPT !.agent = g, !.agentDoc = d, !.pc = at]
           N == [e EXCEPT !.op = "authorize"]
<1>2. at \in {"tokens", "saveagent"} /\ d \in AgentDoc /\ d.status = "active"
  BY DEF AgentDoc
<1>3. Begins(w, "authorize", e)
  BY <1>1
<1> HIDE DEF at, d
<1>4. /\ e \in Errand /\ e.agent = g /\ e.code = None /\ e.secret = None /\ e.pc = at
      /\ e.agentDoc = d /\ e.todo = {}
  BY <1>2, Rest DEF Errand
<1> HIDE DEF e
<1>5. /\ N \in Errand /\ N.agent = g /\ N.code = None /\ N.secret = None /\ N.pc = at
      /\ N.op = "authorize" /\ N.agentDoc.status = "active" /\ N.todo = {}
  BY <1>2, <1>4 DEF Errand, Errands
<1>6. N = [e EXCEPT !.op = "authorize"]
  OBVIOUS
<1> HIDE DEF N
<1>7. OfAgent(N)
  BY <1>2, <1>5 DEF OfAgent
<1>8. /\ CredentialsTypeOK' /\ Handled' /\ Secrets' /\ errand'[w] = N
      /\ \A v \in Worker : v # w => errand'[v] = errand[v]
      /\ UNCHANGED <<agent, code, token, yielded, retired>> /\ tangled \subseteq tangled'
  BY <1>3, <1>4, <1>5, <1>6, <1>7, AgentStarts
<1>9. Codes'
  BY <1>5, <1>8, QuietCodes
<1>10. Registered'
  BY <1>1, <1>2, <1>5, <1>8 DEF CredentialsInv, Registered
<1>11. Beating'
  BY <1>5, <1>8 DEF CredentialsInv, Beating
<1>12. CutOff'
  <2>1. \A t \in retired : at = "saveagent" => token[t].agent # g
    BY <1>1 DEF CredentialsInv, CredentialsTypeOK, Registered
  <2>2. QED  BY <1>2, <1>5, <1>8, <2>1 DEF CredentialsInv, CutOff
<1>13. QED  BY <1>8, <1>9, <1>10, <1>11, <1>12 DEF CredentialsInv

(* A heartbeat, or a revocation, of an agent that was registered. *)
LEMMA AgentRequests ==
    ASSUME CredentialsInv, NEW w \in Worker, NEW op \in {"beat", "revokeagent"}, NEW e \in Errand,
           Begins(w, op, e), e.agent \in Agent, agent[e.agent].status # "none",
           e.code = None, e.secret = None, e.todo = {},
           op = "beat" => e.pc = "gate",
           op = "revokeagent" => e.pc = "saveagent" /\ e.agentDoc.status = "revoked"
    PROVE  CredentialsInv'
<1> DEFINE N == [e EXCEPT !.op = op]
<1>1. /\ N \in Errand /\ N.agent = e.agent /\ N.code = None /\ N.secret = None /\ N.pc = e.pc
      /\ N.op = op /\ N.agentDoc = e.agentDoc /\ N.todo = {}
  BY DEF Errand, Errands
<1>2. N = [e EXCEPT !.op = op]
  OBVIOUS
<1> HIDE DEF N
<1>3. OfAgent(N)
  BY <1>1 DEF OfAgent
<1>4. /\ CredentialsTypeOK' /\ Handled' /\ Secrets' /\ errand'[w] = N
      /\ \A v \in Worker : v # w => errand'[v] = errand[v]
      /\ UNCHANGED <<agent, code, token, yielded, retired>> /\ tangled \subseteq tangled'
  <2>1. op \in {"authorize", "exchange", "beat", "revokeagent"} /\ N.code = e.code
    BY <1>1
  <2>2. QED  BY <1>1, <1>2, <1>3, <2>1, AgentStarts
<1>5. Codes'
  BY <1>1, <1>4, QuietCodes
<1>6. Registered'
  BY <1>1, <1>4 DEF CredentialsInv, Registered
<1>7. Beating'
  BY <1>1, <1>4 DEF CredentialsInv, Beating
<1>8. CutOff'
  BY <1>1, <1>4 DEF CredentialsInv, CutOff
<1>9. QED  BY <1>4, <1>5, <1>6, <1>7, <1>8 DEF CredentialsInv
(* The agent's active tokens are looked for, and all of them found. *)
LEMMA ScansTokensStep ==
    ASSUME CredentialsInv, NEW w \in Worker, ScansTokens(w)
    PROVE  CredentialsInv'
<1> DEFINE g == errand[w].agent
           T == {t \in Token : token[t] = [status |-> "active", agent |-> g]}
           N == [errand[w] EXCEPT !.pc = "saveagent", !.todo = T]
<1>1. /\ UNCHANGED <<custody, documents, clocks, requested, yielded, retired, tangled>>
      /\ errand' = [errand EXCEPT ![w] = N] /\ errand[w].op = "authorize" /\ errand[w].pc = "tokens"
  BY DEF ScansTokens, Doing
<1>2. errand[w] \in Errand /\ OfAgent(errand[w]) /\ g \in Agent
  BY <1>1, AtCode DEF OfAgent
<1>3. T \subseteq Token /\ \A t \in T : token[t].status # "none"
  OBVIOUS
<1>4. \A t \in Token : token[t].status = "active" /\ token[t].agent = g => t \in T
  BY DEF CredentialsInv, CredentialsTypeOK, TokenDoc
<1> HIDE DEF T
<1>5. /\ N \in Errand /\ OfAgent(N) /\ N.agent = g /\ N.code = errand[w].code /\ N.code = None
      /\ N.link = errand[w].link /\ N.op = "authorize" /\ N.pc = "saveagent" /\ N.todo = T
      /\ N.agentDoc.status = "active"
  BY <1>1, <1>2, <1>3 DEF Errand, OfAgent
<1> HIDE DEF N
<1>6. UNCHANGED <<agent, code, token, link, login, profile, record, vault>>
  BY <1>1 DEF documents
<1>7. /\ CredentialsTypeOK' /\ Handled' /\ Secrets' /\ errand'[w] = N
      /\ \A v \in Worker : v # w => errand'[v] = errand[v]
  BY <1>1, <1>2, <1>5, <1>6, AgentStep DEF CredentialsInv, CredentialsTypeOK
<1>8. Codes'
  BY <1>1, <1>5, <1>6, <1>7, QuietCodes
<1> HIDE DEF g
<1>9. Registered'
  BY <1>1, <1>3, <1>5, <1>6, <1>7 DEF CredentialsInv, Registered
<1>10. Beating'
  BY <1>1, <1>5, <1>6, <1>7 DEF CredentialsInv, Beating
<1>11. CutOff'
  <2>1. retired \subseteq Token
    BY DEF CredentialsInv, CredentialsTypeOK
  <2>2. QED  BY <1>1, <1>4, <1>5, <1>6, <1>7, <2>1 DEF CredentialsInv, CutOff
<1>12. QED  BY <1>7, <1>8, <1>9, <1>10, <1>11 DEF CredentialsInv

(* One of them is superseded. *)
LEMMA SupersedesStep ==
    ASSUME CredentialsInv, NEW w \in Worker, NEW t \in Token, Supersedes(w, t)
    PROVE  CredentialsInv'
<1> DEFINE g == errand[w].agent
           T == errand[w].todo \ {t}
           N == [errand[w] EXCEPT !.todo = T]
<1>1. /\ UNCHANGED <<custody, agent, code, link, login, profile, record, vault, clocks, requested,
                     yielded, retired, tangled>>
      /\ token' = [token EXCEPT ![t].status = "superseded"]
      /\ errand' = [errand EXCEPT ![w] = N] /\ errand[w].pc = "saveagent" /\ t \in errand[w].todo
  BY DEF Supersedes
<1>2. errand[w] \in Errand /\ OfAgent(errand[w]) /\ g \in Agent /\ errand[w].op = "authorize"
  BY <1>1, AtCode DEF OfAgent
<1>3. T \subseteq Token
  BY <1>2 DEF Errand
<1> HIDE DEF T
<1>4. /\ N \in Errand /\ OfAgent(N) /\ N.agent = g /\ N.code = errand[w].code /\ N.code = None
      /\ N.link = errand[w].link /\ N.op = "authorize" /\ N.pc = "saveagent" /\ N.todo = T
      /\ N.agentDoc = errand[w].agentDoc
  BY <1>1, <1>2, <1>3 DEF Errand, OfAgent
<1> HIDE DEF N
<1>5. token' \in [Token -> TokenDoc]
  BY <1>1 DEF CredentialsInv, CredentialsTypeOK, TokenDoc
<1>6. /\ CredentialsTypeOK' /\ Handled' /\ Secrets' /\ errand'[w] = N
      /\ \A v \in Worker : v # w => errand'[v] = errand[v]
  BY <1>1, <1>2, <1>4, <1>5, AgentStep DEF CredentialsInv, CredentialsTypeOK
<1>7. /\ token'[t].status = "superseded" /\ token'[t].agent = token[t].agent
      /\ \A u \in Token : u # t => token'[u] = token[u]
      /\ token[t].status # "none"
  BY <1>1, <1>2 DEF CredentialsInv, CredentialsTypeOK, TokenDoc, Registered
<1>8. Codes'
  BY <1>1, <1>4, <1>6, QuietCodes
<1>9. Registered'
  <2>1. \A u \in Token : /\ token'[u].agent = token[u].agent
                         /\ token'[u].status = "none" <=> token[u].status = "none"
    BY <1>7
  <2>2. /\ \A v \in Worker : errand[v].todo \subseteq Token /\ errand'[v].todo \subseteq errand[v].todo
        /\ retired \subseteq Token
    BY <1>4, <1>6 DEF CredentialsInv, CredentialsTypeOK, Errand, T
  <2>3. \A v \in Worker : /\ OfAgent(errand'[v]) <=> OfAgent(errand[v])
                          /\ errand'[v].agent = errand[v].agent /\ errand'[v].pc = errand[v].pc
                          /\ errand'[v].agentDoc = errand[v].agentDoc
    BY <1>1, <1>2, <1>4, <1>6
  <2>4. QED  BY <1>1, <2>1, <2>2, <2>3 DEF CredentialsInv, Registered
<1>10. Beating'
  BY <1>1, <1>4, <1>6 DEF CredentialsInv, Beating
<1>11. CutOff'
  <2>1. retired \subseteq Token
    BY DEF CredentialsInv, CredentialsTypeOK
  <2>2. QED  BY <1>1, <1>4, <1>6, <1>7, <2>1 DEF CredentialsInv, CutOff, T
<1>12. QED  BY <1>6, <1>8, <1>9, <1>10, <1>11 DEF CredentialsInv

(* The agent is saved, as the request has it. *)
LEMMA SavesAgentStep ==
    ASSUME CredentialsInv, NEW w \in Worker, SavesAgent(w)
    PROVE  CredentialsInv'
<1> DEFINE g == errand[w].agent
           d == errand[w].agentDoc
           M == [errand[w] EXCEPT !.pc = "putcode"]
           N == IF errand[w].op = "authorize" THEN M ELSE AtRest
<1>1. /\ UNCHANGED <<custody, code, token, link, login, profile, record, vault, clocks, requested,
                     yielded, tangled>>
      /\ agent' = [agent EXCEPT ![g] = d]
      /\ retired' = IF errand[w].op # "revokeagent" THEN retired
                    ELSE retired \cup {t \in Token : token[t].agent = g}
      /\ errand' = [errand EXCEPT ![w] = N] /\ errand[w].pc = "saveagent" /\ errand[w].todo = {}
  BY DEF SavesAgent, Step, Finish
<1>2. errand[w] \in Errand /\ OfAgent(errand[w]) /\ g \in Agent /\ d \in AgentDoc
  BY <1>1, AtCode DEF OfAgent, Errand
<1>3. d.status # "none"
  BY <1>1, <1>2 DEF CredentialsInv, Registered
<1>4. /\ M \in Errand /\ M.agent = g /\ M.code = errand[w].code /\ M.code = None
      /\ M.link = errand[w].link /\ M.op = errand[w].op /\ M.pc = "putcode" /\ M.todo = {}
      /\ errand[w].op = "authorize" => OfAgent(M)
  BY <1>1, <1>2 DEF Errand, OfAgent
<1> HIDE DEF M
<1>5. /\ N \in Errand /\ N.code = None /\ N.pc # "saveagent" /\ N.op # "beat" /\ N.todo = {}
      /\ N = AtRest \/ (OfAgent(N) /\ N.agent = g /\ N.code = errand[w].code
                        /\ N.link = errand[w].link)
  BY <1>4, Rest
<1> HIDE DEF N
<1>6. agent' \in [Agent -> AgentDoc] /\ retired' \subseteq Token
  BY <1>1, <1>2 DEF CredentialsInv, CredentialsTypeOK
<1>7. /\ CredentialsTypeOK' /\ Handled' /\ Secrets' /\ errand'[w] = N
      /\ \A v \in Worker : v # w => errand'[v] = errand[v]
  BY <1>1, <1>2, <1>5, <1>6, AgentStep DEF CredentialsInv, CredentialsTypeOK
<1>8. /\ agent'[g] = d
      /\ \A h \in Agent : h # g => agent'[h] = agent[h]
  BY <1>1, <1>2 DEF CredentialsInv, CredentialsTypeOK
<1>9. \A v \in Worker : v # w /\ errand[v].agent = g => g \in tangled
  BY <1>2, Alone
<1>10. Codes'
  BY <1>1, <1>5, <1>7, QuietCodes
<1>11. Registered'
  <2>1. \A h \in Agent : agent[h].status # "none" => agent'[h].status # "none"
    BY <1>3, <1>8
  <2>2. \A t \in retired' : t \in retired \/ (t \in Token /\ token[t].agent = g)
    BY <1>1
  <2>3. \A t \in retired' : token[t].status # "none"
    BY <1>2, <2>2, NoneApart DEF CredentialsInv, Registered
  <2>4. OfAgent(N) => N.agent = g
    BY <1>5, Rest, NoneApart DEF OfAgent
  <2>5. /\ \A k \in Code : code[k].status # "none" =>
             code[k].agent \in Agent /\ agent'[code[k].agent].status # "none"
        /\ \A t \in Token : IF token[t].status = "none" THEN token[t].agent = None
                            ELSE token[t].agent \in Agent /\ agent'[token[t].agent].status # "none"
    BY <2>1 DEF CredentialsInv, Registered
  <2>6. ASSUME NEW v \in Worker, OfAgent(errand'[v])
        PROVE  /\ errand'[v].pc # "saveagent" => agent'[errand'[v].agent].status # "none"
               /\ errand'[v].pc = "saveagent" => errand'[v].agentDoc.status # "none"
               /\ \A t \in errand'[v].todo : token[t].status # "none"
    <3>1. CASE v = w
      BY <1>3, <1>5, <1>7, <1>8, <2>4, <2>6, <3>1
    <3>2. CASE v # w
      <4>1. errand'[v] = errand[v] /\ errand[v].agent \in Agent
        BY <1>7, <2>6, <3>2 DEF OfAgent
      <4>2. QED  BY <2>1, <2>6, <4>1 DEF CredentialsInv, Registered
    <3>3. QED  BY <3>1, <3>2
  <2>7. QED  BY <1>1, <2>3, <2>5, <2>6 DEF Registered
<1>12. Beating'
  <2> SUFFICES ASSUME NEW v \in Worker, errand'[v].op = "beat", errand'[v].pc # "gate",
                      errand'[v].agent \notin tangled
               PROVE  agent'[errand'[v].agent].status = "active"
    BY <1>1 DEF Beating
  <2>1. v # w /\ errand'[v] = errand[v]
    BY <1>5, <1>7
  <2>2. errand[v].agent \in Agent /\ errand[v].agent # g
    BY <1>9, <2>1, AtCode DEF OfAgent
  <2>3. QED  BY <1>8, <2>1, <2>2 DEF CredentialsInv, Beating
<1>13. CutOff'
  <2> SUFFICES ASSUME NEW t \in retired', token[t].agent \notin tangled, token[t].status = "active"
               PROVE  /\ agent'[token[t].agent].status # "active"
                      /\ \A v \in Worker : /\ errand'[v].agent = token[t].agent
                                           /\ errand'[v].pc = "saveagent"
                                           /\ errand'[v].agentDoc.status = "active"
                                           => t \in errand'[v].todo
    BY <1>1 DEF CutOff
  <2>1. token[t].agent \in Agent
    BY <1>6 DEF CredentialsInv, Registered
  <2>2. CASE token[t].agent # g
    <3>1. t \in retired
      BY <1>1, <2>2
    <3>2. QED  BY <1>5, <1>7, <1>8, <2>1, <2>2, <3>1 DEF CredentialsInv, CutOff
  <2>3. CASE token[t].agent = g
    <3>1. \A v \in Worker : ~(errand'[v].agent = g /\ errand'[v].pc = "saveagent")
      BY <1>5, <1>7, <1>9, <2>3
    <3>2. CASE errand[w].op = "revokeagent"
      <4>1. d.status = "revoked"
        BY <1>2, <3>2 DEF OfAgent
      <4>2. QED  BY <1>8, <2>3, <3>1, <4>1
    <3>3. CASE errand[w].op # "revokeagent"
      <4>1. t \in retired
        BY <1>1, <3>3
      <4>2. agent[g].status # "active" /\ d.status # "active"
        BY <1>1, <2>3, <4>1 DEF CredentialsInv, CutOff
      <4>3. QED  BY <1>8, <2>3, <3>1, <4>2
    <3>4. QED  BY <3>2, <3>3
  <2>4. QED  BY <2>2, <2>3
<1>14. QED  BY <1>7, <1>10, <1>11, <1>12, <1>13 DEF CredentialsInv
(* The two requests that name an agent: a heartbeat's token is of a        *)
(* registered agent, and a revocation's agent is registered.               *)
LEMMA BeatsStep ==
    ASSUME CredentialsInv, NEW w \in Worker, NEW t \in Token, Beats(w, t)
    PROVE  CredentialsInv'
<1> DEFINE g == token[t].agent
           e == [AtRest EXCEPT !.agent = g, !.pc = "gate"]
<1>1. Begins(w, "beat", e) /\ token[t].status = "active"
  BY DEF Beats
<1>2. g \in Agent /\ agent[g].status # "none"
  BY <1>1 DEF CredentialsInv, Registered
<1> HIDE DEF g
<1>3. /\ e \in Errand /\ e.agent = g /\ e.code = None /\ e.secret = None /\ e.todo = {}
      /\ e.pc = "gate"
  BY <1>2, Rest DEF Errand
<1> HIDE DEF e
<1>4. QED  BY <1>1, <1>2, <1>3, AgentRequests

(* A revocation has the agent in hand as it was read, revoked. *)
LEMMA RevokesAgentStep ==
    ASSUME CredentialsInv, NEW w \in Worker, NEW g \in Agent, RevokesAgent(w, g)
    PROVE  CredentialsInv'
<1> DEFINE d == [agent[g] EXCEPT !.status = "revoked"]
           e == [AtRest EXCEPT !.agent = g, !.pc = "saveagent", !.agentDoc = d]
<1>1. Begins(w, "revokeagent", e) /\ agent[g].status # "none"
  BY DEF RevokesAgent
<1>2. d \in AgentDoc /\ d.status = "revoked"
  BY DEF CredentialsInv, CredentialsTypeOK, AgentDoc
<1> HIDE DEF d
<1>3. /\ e \in Errand /\ e.agent = g /\ e.code = None /\ e.secret = None /\ e.todo = {}
      /\ e.pc = "saveagent" /\ e.agentDoc = d
  BY <1>2, Rest DEF Errand
<1> HIDE DEF e
<1>4. QED  BY <1>1, <1>2, <1>3, AgentRequests

(* A heartbeat passes the gate only for an active agent. *)
LEMMA PassesGateStep ==
    ASSUME CredentialsInv, NEW w \in Worker, PassesGate(w)
    PROVE  CredentialsInv'
<1> DEFINE g == errand[w].agent
           M == [errand[w] EXCEPT !.pc = "read"]
           N == IF agent[g].status = "active" THEN M ELSE AtRest
<1>1. /\ UNCHANGED <<custody, documents, clocks, requested, yielded, retired, tangled>>
      /\ errand' = [errand EXCEPT ![w] = N] /\ errand[w].op = "beat" /\ errand[w].pc = "gate"
  BY DEF PassesGate, Doing, Step, Finish
<1>2. errand[w] \in Errand /\ OfAgent(errand[w]) /\ g \in Agent
  BY <1>1, AtCode DEF OfAgent
<1>3. /\ M \in Errand /\ OfAgent(M) /\ M.agent = g /\ M.code = errand[w].code /\ M.code = None
      /\ M.link = errand[w].link /\ M.op = "beat" /\ M.pc = "read" /\ M.todo = {}
  BY <1>1, <1>2 DEF Errand, OfAgent
<1> HIDE DEF M, g
<1>4. /\ N \in Errand /\ N.code = None /\ N.pc # "saveagent" /\ N.todo = {}
      /\ N = AtRest \/ (/\ OfAgent(N) /\ N.agent = g /\ N.code = errand[w].code
                        /\ N.link = errand[w].link /\ agent[g].status = "active")
  BY <1>3, Rest
<1>5. N.agent = g \/ (N.op = "none" /\ N.agent = None)
  BY <1>4, Rest
<1> HIDE DEF N
<1>6. UNCHANGED <<agent, code, token, link, login, profile, record, vault>>
  BY <1>1 DEF documents
<1>7. /\ CredentialsTypeOK' /\ Handled' /\ Secrets' /\ errand'[w] = N
      /\ \A v \in Worker : v # w => errand'[v] = errand[v]
  BY <1>1, <1>2, <1>4, <1>6, AgentStep DEF CredentialsInv, CredentialsTypeOK, g
<1>8. Codes'
  BY <1>1, <1>4, <1>6, <1>7, QuietCodes
<1>9. OfAgent(N) => N # AtRest
  BY Rest, NoneApart DEF OfAgent
<1>10. Registered'
  BY <1>1, <1>4, <1>6, <1>7, <1>9 DEF CredentialsInv, Registered
<1>11. Beating'
  <2>1. N.op = "beat" => agent[N.agent].status = "active"
    BY <1>4, Rest
  <2>2. QED  BY <1>1, <1>6, <1>7, <2>1 DEF CredentialsInv, Beating
<1>12. CutOff'
  BY <1>1, <1>4, <1>6, <1>7 DEF CredentialsInv, CutOff
<1>13. QED  BY <1>7, <1>8, <1>10, <1>11, <1>12 DEF CredentialsInv

(* A heartbeat reads the agent it will write back: it is active still,     *)
(* unless tangled, so no token that was cut off is cut in again.           *)
LEMMA ReadsAgentStep ==
    ASSUME CredentialsInv, NEW w \in Worker, ReadsAgent(w)
    PROVE  CredentialsInv'
<1> DEFINE g == errand[w].agent
           d == agent[g]
           N == [errand[w] EXCEPT !.pc = "saveagent", !.agentDoc = d]
<1>1. /\ UNCHANGED <<custody, documents, clocks, requested, yielded, retired, tangled>>
      /\ errand' = [errand EXCEPT ![w] = N] /\ errand[w].op = "beat" /\ errand[w].pc = "read"
  BY DEF ReadsAgent, Doing
<1>2. errand[w] \in Errand /\ OfAgent(errand[w]) /\ g \in Agent
  BY <1>1, AtCode DEF OfAgent
<1>3. d \in AgentDoc /\ d.status # "none" /\ (g \in tangled \/ d.status = "active")
  BY <1>1, <1>2 DEF CredentialsInv, CredentialsTypeOK, Registered, Beating
<1>4. d = agent[g]
  OBVIOUS
<1> HIDE DEF d
<1>5. /\ N \in Errand /\ OfAgent(N) /\ N.agent = g /\ N.code = errand[w].code /\ N.code = None
      /\ N.link = errand[w].link /\ N.op = "beat" /\ N.pc = "saveagent" /\ N.todo = {}
      /\ N.agentDoc = d
  BY <1>1, <1>2, <1>3 DEF Errand, OfAgent
<1> HIDE DEF N
<1>6. UNCHANGED <<agent, code, token, link, login, profile, record, vault>>
  BY <1>1 DEF documents
<1>7. /\ CredentialsTypeOK' /\ Handled' /\ Secrets' /\ errand'[w] = N
      /\ \A v \in Worker : v # w => errand'[v] = errand[v]
  BY <1>1, <1>2, <1>5, <1>6, AgentStep DEF CredentialsInv, CredentialsTypeOK
<1>8. Codes'
  BY <1>1, <1>5, <1>6, <1>7, QuietCodes
<1> HIDE DEF g
<1>9. Registered'
  BY <1>1, <1>3, <1>5, <1>6, <1>7 DEF CredentialsInv, Registered
<1>10. Beating'
  BY <1>1, <1>3, <1>4, <1>5, <1>6, <1>7 DEF CredentialsInv, Beating
<1>11. CutOff'
  BY <1>1, <1>3, <1>4, <1>5, <1>6, <1>7 DEF CredentialsInv, CutOff
<1>12. QED  BY <1>7, <1>8, <1>9, <1>10, <1>11 DEF CredentialsInv
-----------------------------------------------------------------------------
(* Nothing is in hand at first. *)
LEMMA CredentialsInit == Init_C => CredentialsInv
<1> SUFFICES ASSUME Init_C PROVE CredentialsInv
  OBVIOUS
<1>1. NoAgent_C \in AgentDoc /\ NoAgent_C.status = "none" /\ NoLink \in LinkDoc
  BY DEF NoAgent_C, NoLink, AgentDoc, LinkDoc
<1>2. CredentialsTypeOK
  BY <1>1, Rest, CredentialsAssumption DEF Init_C, CredentialsTypeOK, CodeDoc, TokenDoc, LoginDoc
<1>3. \A w \in Worker : errand[w] = AtRest
  BY DEF Init_C
<1>4. Handled /\ Beating
  BY <1>3, Rest DEF Handled, Beating
<1>5. Codes
  BY <1>3, Rest, NoneApart DEF Init_C, Codes
<1>6. Registered
  <2>1. \A w \in Worker : ~OfAgent(errand[w])
    BY <1>3, Rest, NoneApart DEF OfAgent
  <2>2. QED  BY <2>1 DEF Init_C, Registered
<1>7. CutOff /\ Secrets
  BY <1>3, Rest, NoneApart DEF Init_C, CutOff, Secrets
<1>8. QED  BY <1>2, <1>4, <1>5, <1>6, <1>7 DEF CredentialsInv

(* Every step keeps the invariant. *)
LEMMA CredentialsStep == CredentialsInv /\ [Next_C]_vars_C => CredentialsInv'
<1> SUFFICES ASSUME CredentialsInv, [Next_C]_vars_C PROVE CredentialsInv'
  OBVIOUS
<1>1. CASE UNCHANGED vars_C
  BY <1>1 DEF vars_C, documents, clocks, CredentialsInv, CredentialsTypeOK, Handled, Codes, Registered,
              Beating, CutOff, Secrets
<1>2. CASE \E w \in Worker, b \in Browser \cup {NoBrowser} : Authorizes(w, b)
  BY <1>2, AuthorizesStep
<1>3. CASE \E w \in Worker : \/ ScansTokens(w) \/ SavesAgent(w) \/ UsesCode(w)
                            \/ PassesGate(w) \/ ReadsAgent(w)
  BY <1>3, ScansTokensStep, SavesAgentStep, UsesCodeStep, PassesGateStep, ReadsAgentStep
<1>4. CASE \E w \in Worker, t \in Token : Supersedes(w, t) \/ PutsToken(w, t) \/ Beats(w, t)
  BY <1>4, SupersedesStep, PutsTokenStep, BeatsStep
<1>5. CASE \/ \E w \in Worker, k \in Code : PutsCode(w, k) \/ Exchanges(w, k)
           \/ \E w \in Worker, g \in Agent : RevokesAgent(w, g)
  BY <1>5, PutsCodeStep, ExchangesStep, RevokesAgentStep
<1>6. CASE \/ \E k \in Code : CodeLapses(k)
           \/ \E n \in Connection : Connects(n)
           \/ \E l \in Login : LoginLapses(l)
  BY <1>6, ElsewhereStep
<1>7. CASE \/ \E w \in Worker, n \in Connection : StartsLogin(w, n) \/ Disconnects(w, n)
           \/ \E w \in Worker, n \in Connection, l \in Login : CompletesLogin(w, n, l)
  BY <1>7, LinkRequests
<1>8. CASE \/ \E w \in Worker, p \in Profile : CreatesProfile(w, p)
           \/ \E w \in Worker, l \in Login : SavesLogin(w, l)
           \/ \E w \in Worker, one \in {"login", "link"} : SavesEither(w, one)
  BY <1>8, CreatesProfileStep, SavesLoginStep, SavesEitherStep
<1>9. CASE \E w \in Worker : SavesLink(w) \/ SavesProfile(w) \/ DeletesProfile(w) \/ DeleteRefused(w)
  BY <1>9, SavesLinkStep, SavesProfileStep, DeletesProfileStep
<1>10. CASE \/ \E w \in Worker, s \in Secret, v \in Value : Creates(w, s, v) \/ Rotates(w, s, v)
            \/ \E w \in Worker, s \in Secret : Deletes(w, s)
  BY <1>10, SecretRequests
<1>11. CASE \E w \in Worker : \/ StoresValue(w) \/ SavesRecord(w) \/ DropsValue(w) \/ DropsRecord(w)
                             \/ Abandons(w)
  BY <1>11, StoresValueStep, SavesRecordStep, DropsStep, AbandonsStep
<1>12. QED
  BY <1>1, <1>2, <1>3, <1>4, <1>5, <1>6, <1>7, <1>8, <1>9, <1>10, <1>11 DEF Next_C

(* The invariant holds of every state. *)
LEMMA CredentialsInvariant == Spec_C => []CredentialsInv
BY CredentialsInit, CredentialsStep, PTL DEF Spec_C

(* Every document, and what every invocation has in hand, has its type.    *)
THEOREM CredentialsTyped == Spec_C => []CredentialsTypeOK
<1>1. CredentialsInv => CredentialsTypeOK
  BY DEF CredentialsInv
<1>2. QED  BY <1>1, CredentialsInvariant, PTL

(* exchangeAgentCode: a code is good for one token, however often it is    *)
(* exchanged one time after another, and wherever an exchange dies.        *)
THEOREM CodesSpentOnce == Spec_C => []CodeSpentOnce
<1>1. CredentialsInv => CodeSpentOnce
  BY DEF CredentialsInv, Codes, CodeSpentOnce
<1>2. QED  BY <1>1, CredentialsInvariant, PTL

(* revokeAgent, createAgentAndCode, touchAgentHeartbeat: a token that a    *)
(* revocation cut off is never let in again, also once the same browser is *)
(* authorized again, unless heartbeat and revocation met.                  *)
THEOREM CutOffForGood == Spec_C => []NoRevival
<1>1. CredentialsInv => NoRevival
  BY DEF CredentialsInv, CutOff, NoRevival, Live
<1>2. QED  BY <1>1, CredentialsInvariant, PTL

(* createSecret, rotateSecret, deleteSecret: at rest, the record and the   *)
(* value at the store are of one secret, whatever was asked in turn.       *)
THEOREM SecretsAgreed == Spec_C => []SecretsAgree
<1>1. CredentialsInv => SecretsAgree
  <2> SUFFICES ASSUME CredentialsInv, NEW s \in Secret \ tangled,
                      s \notin {errand[w].secret : w \in Running}
               PROVE  record[s] = vault[s]
    BY DEF SecretsAgree
  <2>1. \A w \in Worker : errand[w].secret # s
    <3> TAKE w \in Worker
    <3>1. CASE w \in Running
      BY <3>1
    <3>2. CASE w \notin Running
      BY <3>2, InHand, Rest, NoneApart DEF Running
    <3>3. QED  BY <3>1, <3>2
  <2>2. QED  BY <2>1 DEF CredentialsInv, Secrets
<1>2. QED  BY <1>1, CredentialsInvariant, PTL
-----------------------------------------------------------------------------
(***************************************************************************)
(* Connections and profiles                                                *)
(***************************************************************************)
(* Connection n names profile p: in its document, in a request that has it *)
(* in hand, or in one of its logins.                                       *)
LoginsOf(n) == {l \in Login : login[l].link = n}
Names(n, p) ==
    \/ link[n].profile = p
    \/ \E w \in Worker : errand[w].link = n /\ errand[w].linkDoc.profile = p
    \/ \E l \in LoginsOf(n) : login[l].profile = p

(* A profile that is named was created, and one connection names it.       *)
OneName ==
    \A n \in Connection, p \in Profile : Names(n, p) =>
        profile[p] # "none" /\ \A m \in Connection : Names(m, p) => m = n

(* What request e has in hand, and what a login is of.                     *)
LinkErrands == {"login", "complete", "disconnect"}
HandsOn(e) ==
    IF e.op \in LinkErrands
    THEN /\ e.link \in Connection
         /\ e.op = "login" => /\ e.pc \in {"profile", "savelink", "savelogin"}
                              /\ e.pc # "profile" => e.linkDoc.profile # None
         /\ e.op = "complete" => e.pc \in {"store", "saves"} /\ e.login \in LoginsOf(e.link)
         /\ e.op = "disconnect" => e.pc \in {"delete", "savelink"}
    ELSE e.link = None /\ e.linkDoc.profile = None
Filed ==
    /\ \A l \in Login : IF login[l].status = "none"
                        THEN login[l].link = None
                        ELSE login[l].link \in Connection /\ login[l].profile \in Profile
    /\ \A w \in Worker : HandsOn(errand[w])

(* A connection names a profile that exists, a signed one if it is active, *)
(* and a login that can still be completed is of this profile.             *)
Exists(p) == profile[p] \in {"blank", "signed"}
Kept(n) ==
    /\ link[n].profile # None => Exists(link[n].profile)
    /\ link[n].status = "active" => link[n].profile # None /\ profile[link[n].profile] = "signed"
    /\ link[n].status = "revoked" => link[n].profile = None
    /\ \A l \in LoginsOf(n) : login[l].profile = link[n].profile \/ profile[login[l].profile] = "deleted"

(* What request e is about to do to its connection.                        *)
Opens(e) == e.op = "login" =>
    /\ e.pc = "profile"   => e.linkDoc = link[e.link] /\ e.linkDoc.profile = None
    /\ e.pc = "savelink"  => /\ e.linkDoc.status = link[e.link].status /\ Exists(e.linkDoc.profile)
                             /\ link[e.link].profile \in {None, e.linkDoc.profile}
    /\ e.pc = "savelogin" => e.linkDoc = link[e.link]
    /\ link[e.link].status \notin {"none", "revoked"}
Completes(e) == e.op = "complete" =>
    /\ e.linkDoc.profile = link[e.link].profile /\ e.linkDoc.status = "active"
    /\ e.pc = "saves" => e.linkDoc.profile # None /\ profile[e.linkDoc.profile] = "signed"
Leaving(e) == e.op = "disconnect" /\ e.pc = "savelink"
Closes(e) ==
    /\ e.op = "disconnect" /\ e.pc = "delete" => e.linkDoc = link[e.link] /\ e.linkDoc # NoLink
    /\ Leaving(e) => /\ e.linkDoc = [status |-> "revoked", profile |-> None]
                     /\ link[e.link].profile # None => profile[link[e.link].profile] = "deleted"
                     /\ \A l \in LoginsOf(e.link) : profile[login[l].profile] = "deleted"

(* A connection that only one request at a time has in hand.               *)
Sound(n) ==
    /\ (\A w \in Worker : errand[w].link = n => ~Leaving(errand[w])) => Kept(n)
    /\ \A w \in Worker : errand[w].link = n =>
          Opens(errand[w]) /\ Completes(errand[w]) /\ Closes(errand[w])
Connected == \A n \in Connection \ tangled : Sound(n)

(* A profile that exists is named, or is about to be.                      *)
Housing(e, p) == e.op = "login" /\ e.pc = "savelink" /\ e.linkDoc.profile = p
Housed ==
    tangled \cap Connection = {} =>
        \A p \in Profile : Exists(p) =>
            \/ \E n \in Connection : link[n].profile = p
            \/ \E w \in Worker : Housing(errand[w], p)

LinkInv == CredentialsInv /\ Filed /\ OneName /\ Connected /\ Housed

(* What the records of connections, logins and profiles are made of. *)
LEMMA LinkTypes ==
    ASSUME LinkInv
    PROVE  /\ link \in [Connection -> LinkDoc] /\ login \in [Login -> LoginDoc]
           /\ profile \in [Profile -> {"none", "blank", "signed", "deleted"}]
           /\ errand \in [Worker -> Errand]
           /\ \A n \in Connection : link[n].profile \in Profile \cup {None}
           /\ \A l \in Login : login[l].profile \in Profile \cup {None}
           /\ \A w \in Worker : errand[w] \in Errand /\ errand[w].linkDoc \in LinkDoc
                                /\ errand[w].linkDoc.profile \in Profile \cup {None}
           /\ None \notin Profile /\ None \notin Connection
BY CredentialsAssumption DEF LinkInv, CredentialsInv, CredentialsTypeOK, LinkDoc, LoginDoc, Errand

(* Whoever is at one of these has a connection in hand. *)
LEMMA HasLink ==
    ASSUME LinkInv, NEW w \in Worker,
           \/ errand[w].pc \in {"profile", "savelink", "savelogin", "saves", "delete"}
           \/ errand[w].op \in LinkErrands
    PROVE  /\ errand[w].op \in LinkErrands /\ errand[w].link \in Connection
           /\ errand[w].op = "login" => /\ errand[w].pc \in {"profile", "savelink", "savelogin"}
                                        /\ errand[w].pc # "profile" => errand[w].linkDoc.profile # None
           /\ errand[w].op = "complete" => errand[w].pc \in {"store", "saves"} /\ errand[w].login \in LoginsOf(errand[w].link)
           /\ errand[w].op = "disconnect" => errand[w].pc \in {"delete", "savelink"}
<1>1. errand[w].op \in LinkErrands
  BY AtLink DEF LinkInv, LinkErrands, OfLink
<1>2. HandsOn(errand[w])
  BY DEF LinkInv, Filed
<1>3. QED  BY <1>1, <1>2 DEF HandsOn

(* Whoever has an untangled connection in hand is alone with it. *)
LEMMA AloneWithLink ==
    ASSUME LinkInv, NEW v \in Worker, NEW w \in Worker, v # w,
           errand[w].link \in Connection, errand[v].link = errand[w].link
    PROVE  errand[w].link \in tangled
<1>1. errand[w].link \in Held(errand[v]) \cap Held(errand[w])
  BY NoneApart DEF Held
<1>2. QED  BY <1>1 DEF LinkInv, CredentialsInv, Handled

(* Who names a profile. *)
LEMMA NamedOnce ==
    ASSUME LinkInv, NEW n \in Connection, NEW p \in Profile, Names(n, p)
    PROVE  profile[p] # "none" /\ \A m \in Connection : Names(m, p) => m = n
BY DEF LinkInv, OneName

(* Names are only given up, and no profile is undone. *)
LEMMA NamesKept ==
    ASSUME OneName, \A n \in Connection, p \in Profile : Names(n, p)' => Names(n, p),
           \A p \in Profile : profile[p] # "none" => profile'[p] # "none"
    PROVE  OneName'
BY DEF OneName

(* Connection m is left alone: what it names, and who has it in hand. *)
LEMMA Untouched ==
    ASSUME LinkInv, NEW m \in Connection, m \notin tangled, link'[m] = link[m],
           LoginsOf(m)' = LoginsOf(m), \A l \in LoginsOf(m) : login'[l].profile = login[l].profile,
           \A p \in Profile : Names(m, p) => profile'[p] = profile[p],
           \A w \in Worker : errand'[w].link = m => errand'[w] = errand[w],
           \A w \in Worker : errand[w].link = m /\ Leaving(errand[w]) => errand'[w] = errand[w]
    PROVE  Sound(m)'
<1>1. Sound(m)
  BY DEF LinkInv, Connected
<1>2. link[m].profile # None => profile'[link[m].profile] = profile[link[m].profile]
  BY LinkTypes DEF Names
<1>3. \A l \in LoginsOf(m) : profile'[login[l].profile] = profile[login[l].profile]
  <2> TAKE l \in LoginsOf(m)
  <2>1. login[l].profile \in Profile
    BY LinkTypes DEF LinkInv, Filed, LoginsOf
  <2>2. QED  BY <2>1 DEF Names
<1>4. ASSUME \A w \in Worker : errand'[w].link = m => ~Leaving(errand'[w]) PROVE Kept(m)'
  <2>1. \A w \in Worker : errand[w].link = m => ~Leaving(errand[w])
    BY <1>4
  <2>2. Kept(m)
    BY <1>1, <2>1 DEF Sound
  <2>3. QED  BY <1>2, <1>3, <2>2 DEF Kept, Exists
<1>5. ASSUME NEW w \in Worker, errand'[w].link = m
      PROVE  (Opens(errand[w]) /\ Completes(errand[w]) /\ Closes(errand[w]))'
  <2>1. PICK c \in Errand : c = errand[w]
    BY LinkTypes
  <2>2. errand'[w] = c /\ c.link = m /\ Opens(c) /\ Completes(c) /\ Closes(c)
    BY <1>1, <1>5, <2>1 DEF Sound
  <2>3. c.linkDoc.profile # None => profile'[c.linkDoc.profile] = profile[c.linkDoc.profile]
    BY <2>1, <2>2, LinkTypes DEF Names
  <2>4. c.op = "login" /\ c.pc # "profile" => c.linkDoc.profile # None
    BY <2>1, HasLink DEF LinkErrands
  <2>5. Opens(c)'
    BY <2>1, <2>2, <2>3, <2>4, HasLink DEF Opens, Exists, LinkErrands
  <2>6. Completes(c)'
    BY <2>2, <2>3 DEF Completes
  <2>7. Closes(c)'
    BY <1>2, <1>3, <2>2 DEF Closes, Leaving
  <2>8. QED  BY <2>2, <2>5, <2>6, <2>7 DEF Opens, Completes, Closes, Leaving, Exists, LoginsOf
<1>6. QED  BY <1>4, <1>5 DEF Sound

(* Who has no connection in hand, or lets go of one. *)
LEMMA QuietLinks ==
    ASSUME LinkInv, CredentialsInv', UNCHANGED <<link, login, profile>>, tangled \subseteq tangled',
           \A v \in Worker :
              \/ errand'[v] = errand[v]
              \/ /\ errand'[v].op \notin LinkErrands /\ errand'[v].link = None
                 /\ errand'[v].linkDoc.profile = None
                 /\ errand[v].link \in tangled' \cup {None} \/ errand[v].pc # "savelink"
    PROVE  LinkInv'
<1>1. \A v \in Worker : errand'[v].link \in Connection => errand'[v] = errand[v]
  BY LinkTypes
<1>2. \A n \in Connection, p \in Profile : Names(n, p)' => Names(n, p)
  BY <1>1 DEF Names, LoginsOf
<1>3. OneName'
  BY <1>2, NamesKept DEF LinkInv
<1>4. Filed'
  <2>1. \A v \in Worker : HandsOn(errand[v])'
    <3> TAKE v \in Worker
    <3>1. PICK c \in Errand : c = errand[v]
      BY LinkTypes
    <3>2. HandsOn(c)
      BY <3>1 DEF LinkInv, Filed
    <3>3. QED  BY <3>1, <3>2 DEF HandsOn, LoginsOf
  <2>2. QED  BY <2>1 DEF LinkInv, Filed
<1>5. Connected'
  <2> SUFFICES ASSUME NEW m \in Connection, m \notin tangled' PROVE Sound(m)'
    BY DEF Connected
  <2>1. \A v \in Worker : errand[v].link = m /\ Leaving(errand[v]) => errand'[v] = errand[v]
    BY LinkTypes DEF Leaving
  <2>2. QED  BY <1>1, <2>1, Untouched DEF LoginsOf
<1>6. Housed'
  <2> SUFFICES ASSUME tangled' \cap Connection = {}, NEW p \in Profile, Exists(p)'
               PROVE  \/ \E n \in Connection : link'[n].profile = p
                      \/ \E v \in Worker : Housing(errand[v], p)'
    BY DEF Housed
  <2>1. CASE \E n \in Connection : link[n].profile = p
    BY <2>1
  <2>2. CASE \E v \in Worker : Housing(errand[v], p)
    <3> PICK v \in Worker : Housing(errand[v], p)
      BY <2>2
    <3>1. errand[v].link \in Connection
      BY HasLink DEF Housing, LinkErrands
    <3>2. errand'[v] = errand[v]
      BY <3>1, LinkTypes DEF Housing
    <3>3. QED  BY <3>2 DEF Housing
  <2>3. QED  BY <2>1, <2>2 DEF LinkInv, Housed, Exists
<1>7. QED  BY <1>3, <1>4, <1>5, <1>6 DEF LinkInv

(* A request about something else starts, goes on or ends. *)
LEMMA QuietStep ==
    ASSUME LinkInv, CredentialsInv', UNCHANGED <<link, login, profile>>, tangled \subseteq tangled',
           NEW w \in Worker, errand[w].op \notin LinkErrands, NEW N,
           errand' = [errand EXCEPT ![w] = N],
           N.op \notin LinkErrands, N.link = None, N.linkDoc.profile = None
    PROVE  LinkInv'
<1>1. errand[w].link = None
  BY DEF LinkInv, Filed, HandsOn
<1>2. QED  BY <1>1, QuietLinks, LinkTypes

(* What an invocation that is done carries. *)
LEMMA RestLink == /\ AtRest.op \notin LinkErrands /\ AtRest.link = None /\ AtRest.linkDoc.profile = None
                  /\ AtRest.linkDoc = NoLink
BY Rest DEF AtRest, NoLink, LinkErrands

LEMMA QuietStarts ==
    ASSUME LinkInv, CredentialsInv', NEW w \in Worker, NEW op, op \notin LinkErrands, NEW e \in Errand,
           Begins(w, op, e), e.link = None, e.linkDoc.profile = None
    PROVE  LinkInv'
<1> DEFINE N == [e EXCEPT !.op = op]
<1>1. /\ errand' = [errand EXCEPT ![w] = N] /\ UNCHANGED <<link, login, profile>>
      /\ tangled \subseteq tangled' /\ errand[w].pc = "idle"
  BY DEF Begins, documents, Fresh, Running
<1>2. errand[w].op \notin LinkErrands
  BY <1>1, InHand, RestLink DEF LinkInv
<1>3. N.op \notin LinkErrands /\ N.link = None /\ N.linkDoc.profile = None
  BY DEF Errand
<1> HIDE DEF N
<1>4. QED  BY <1>1, <1>2, <1>3, QuietStep

(* A request about an agent, a code or a secret. *)
LEMMA OtherRequests ==
    ASSUME LinkInv, CredentialsInv', NEW w \in Worker,
           \/ \E b \in Browser \cup {NoBrowser} : Authorizes(w, b)
           \/ \E k \in Code : Exchanges(w, k)
           \/ \E t \in Token : Beats(w, t)
           \/ \E g \in Agent : RevokesAgent(w, g)
           \/ \E s \in Secret, v \in Value : Creates(w, s, v) \/ Rotates(w, s, v)
           \/ \E s \in Secret : Deletes(w, s)
    PROVE  LinkInv'
<1>1. AtRest \in Errand /\ AtRest.link = None /\ AtRest.linkDoc.profile = None
  BY Rest, RestLink
<1>2. CASE \E b \in Browser \cup {NoBrowser} : Authorizes(w, b)
  <2> PICK b \in Browser \cup {NoBrowser} : Authorizes(w, b)
    BY <1>2
  <2> DEFINE at == IF Known(b) # {} THEN "tokens" ELSE "saveagent"
             d == [status |-> "active", browser |-> b]
  <2>1. PICK g \in Agent : Begins(w, "authorize", [AtRest EXCEPT !.agent = g, !.agentDoc = d, !.pc = at])
    BY DEF Authorizes, Known, Fresh
  <2> DEFINE e == [AtRest EXCEPT !.agent = g, !.agentDoc = d, !.pc = at]
  <2>2. at \in {"tokens", "saveagent"} /\ d \in AgentDoc /\ Begins(w, "authorize", e)
    BY <2>1 DEF AgentDoc
  <2> HIDE DEF at, d
  <2>3. e \in Errand /\ e.link = None /\ e.linkDoc.profile = None
    BY <1>1, <2>2 DEF Errand
  <2> HIDE DEF e
  <2>4. QED  BY <2>2, <2>3, QuietStarts DEF LinkErrands
<1>3. CASE \E k \in Code : Exchanges(w, k)
  <2> PICK k \in Code : Exchanges(w, k)
    BY <1>3
  <2> DEFINE e == [AtRest EXCEPT !.code = k, !.pc = "usecode"]
  <2>1. Begins(w, "exchange", e)
    BY DEF Exchanges
  <2>2. e \in Errand /\ e.link = None /\ e.linkDoc.profile = None
    BY <1>1 DEF Errand
  <2> HIDE DEF e
  <2>3. QED  BY <2>1, <2>2, QuietStarts DEF LinkErrands
<1>4. CASE \E t \in Token : Beats(w, t)
  <2> PICK t \in Token : Beats(w, t)
    BY <1>4
  <2> DEFINE e == [AtRest EXCEPT !.agent = token[t].agent, !.pc = "gate"]
  <2>1. Begins(w, "beat", e)
    BY DEF Beats
  <2>2. token[t].agent \in Agent \cup {None}
    BY DEF LinkInv, CredentialsInv, CredentialsTypeOK, TokenDoc
  <2>3. e \in Errand /\ e.link = None /\ e.linkDoc.profile = None
    BY <1>1, <2>2 DEF Errand
  <2> HIDE DEF e
  <2>4. QED  BY <2>1, <2>3, QuietStarts DEF LinkErrands
<1>5. CASE \E g \in Agent : RevokesAgent(w, g)
  <2> PICK g \in Agent : RevokesAgent(w, g)
    BY <1>5
  <2> DEFINE d == [agent[g] EXCEPT !.status = "revoked"]
             e == [AtRest EXCEPT !.agent = g, !.pc = "saveagent", !.agentDoc = d]
  <2>1. Begins(w, "revokeagent", e)
    BY DEF RevokesAgent
  <2>2. d \in AgentDoc
    <3>1. agent[g] \in AgentDoc
      BY DEF LinkInv, CredentialsInv, CredentialsTypeOK
    <3>2. QED  BY <3>1 DEF AgentDoc
  <2> HIDE DEF d
  <2>3. e \in Errand /\ e.link = None /\ e.linkDoc.profile = None
    BY <1>1, <2>2 DEF Errand
  <2> HIDE DEF e
  <2>4. QED  BY <2>1, <2>3, QuietStarts DEF LinkErrands
<1>6. CASE \E s \in Secret, v \in Value : Creates(w, s, v) \/ Rotates(w, s, v)
  <2> PICK s \in Secret, v \in Value : Creates(w, s, v) \/ Rotates(w, s, v)
    BY <1>6
  <2> DEFINE e == [AtRest EXCEPT !.secret = s, !.value = v, !.pc = "store"]
  <2>1. Begins(w, "create", e) \/ Begins(w, "rotate", e)
    BY DEF Creates, Rotates
  <2>2. e \in Errand /\ e.link = None /\ e.linkDoc.profile = None
    BY <1>1 DEF Errand
  <2> HIDE DEF e
  <2>3. "create" \notin LinkErrands /\ "rotate" \notin LinkErrands
    BY DEF LinkErrands
  <2>4. CASE Begins(w, "create", e)
    BY <2>2, <2>3, <2>4, QuietStarts
  <2>5. CASE Begins(w, "rotate", e)
    BY <2>2, <2>3, <2>5, QuietStarts
  <2>6. QED  BY <2>1, <2>4, <2>5
<1>7. CASE \E s \in Secret : Deletes(w, s)
  <2> PICK s \in Secret : Deletes(w, s)
    BY <1>7
  <2> DEFINE e == [AtRest EXCEPT !.secret = s, !.pc = "store"]
  <2>1. Begins(w, "delete", e)
    BY DEF Deletes
  <2>2. e \in Errand /\ e.link = None /\ e.linkDoc.profile = None
    BY <1>1 DEF Errand
  <2> HIDE DEF e
  <2>3. QED  BY <2>1, <2>2, QuietStarts DEF LinkErrands
<1>8. QED  BY <1>2, <1>3, <1>4, <1>5, <1>6, <1>7

(* Whoever is at one of these has no connection in hand. *)
LEMMA Elsewhere ==
    ASSUME LinkInv, NEW w \in Worker,
           \/ errand[w].pc \in {"tokens", "saveagent", "putcode", "usecode", "puttoken", "gate", "read",
                                "saverecord", "drop"}
           \/ errand[w].op \in {"authorize", "beat", "revokeagent", "create", "rotate", "delete"}
    PROVE  errand[w].op \notin LinkErrands /\ errand[w].link = None /\ errand[w].linkDoc.profile = None
<1>1. errand[w].op \notin LinkErrands
  BY HasLink DEF LinkErrands
<1>2. QED  BY <1>1 DEF LinkInv, Filed, HandsOn

(* The later steps of such a request. *)
LEMMA OtherSteps ==
    ASSUME LinkInv, CredentialsInv', NEW w \in Worker,
           \/ ScansTokens(w) \/ SavesAgent(w) \/ UsesCode(w) \/ PassesGate(w) \/ ReadsAgent(w)
           \/ \E t \in Token : Supersedes(w, t) \/ PutsToken(w, t)
           \/ \E k \in Code : PutsCode(w, k)
           \/ StoresValue(w) \/ SavesRecord(w) \/ DropsValue(w) \/ DropsRecord(w)
    PROVE  LinkInv'
<1>1. /\ UNCHANGED <<link, login, profile, tangled>>
      /\ errand[w].op \notin LinkErrands /\ errand[w].link = None /\ errand[w].linkDoc.profile = None
  BY Elsewhere DEF ScansTokens, SavesAgent, UsesCode, PassesGate, ReadsAgent, Supersedes, PutsToken,
         PutsCode, StoresValue, SavesRecord, DropsValue, DropsRecord, Doing, documents
<1>2. PICK c \in Errand : c = errand[w]
  BY LinkTypes
<1>3. ASSUME NEW N, errand' = [errand EXCEPT ![w] = N],
             N = AtRest \/ (N.op = c.op /\ N.link = c.link /\ N.linkDoc = c.linkDoc)
      PROVE  LinkInv'
  BY <1>1, <1>2, <1>3, RestLink, QuietStep
<1>4. CASE errand' = [errand EXCEPT ![w] = AtRest]
  BY <1>3, <1>4
<1>5. ASSUME NEW pc, errand' = [errand EXCEPT ![w].pc = pc] PROVE LinkInv'
  <2>1. errand' = [errand EXCEPT ![w] = [c EXCEPT !.pc = pc]]
    BY <1>2, <1>5
  <2>2. [c EXCEPT !.pc = pc].op = c.op /\ [c EXCEPT !.pc = pc].link = c.link
        /\ [c EXCEPT !.pc = pc].linkDoc = c.linkDoc
    BY DEF Errand
  <2>3. QED  BY <1>3, <2>1, <2>2
<1>6. CASE ScansTokens(w)
  <2>1. PICK todo : errand' = [errand EXCEPT ![w] = [c EXCEPT !.pc = "saveagent", !.todo = todo]]
    BY <1>2, <1>6 DEF ScansTokens
  <2> DEFINE N == [c EXCEPT !.pc = "saveagent", !.todo = todo]
  <2>2. N.op = c.op /\ N.link = c.link /\ N.linkDoc = c.linkDoc
    BY DEF Errand
  <2>3. QED  BY <1>3, <2>1, <2>2
<1>7. CASE ReadsAgent(w)
  <2>1. PICK doc : errand' = [errand EXCEPT ![w] = [c EXCEPT !.pc = "saveagent", !.agentDoc = doc]]
    BY <1>2, <1>7 DEF ReadsAgent
  <2> DEFINE N == [c EXCEPT !.pc = "saveagent", !.agentDoc = doc]
  <2>2. N.op = c.op /\ N.link = c.link /\ N.linkDoc = c.linkDoc
    BY DEF Errand
  <2>3. QED  BY <1>3, <2>1, <2>2
<1>8. CASE \E t \in Token : Supersedes(w, t)
  <2>1. PICK todo : errand' = [errand EXCEPT ![w] = [c EXCEPT !.todo = todo]]
    BY <1>2, <1>8 DEF Supersedes
  <2> DEFINE N == [c EXCEPT !.todo = todo]
  <2>2. N.op = c.op /\ N.link = c.link /\ N.linkDoc = c.linkDoc
    BY DEF Errand
  <2>3. QED  BY <1>3, <2>1, <2>2
<1>9. CASE SavesAgent(w) \/ UsesCode(w) \/ PassesGate(w) \/ StoresValue(w) \/ DropsValue(w)
  BY <1>4, <1>5, <1>9 DEF SavesAgent, UsesCode, PassesGate, StoresValue, DropsValue, Step, Finish
<1>10. CASE \/ \E t \in Token : PutsToken(w, t)
            \/ \E k \in Code : PutsCode(w, k)
            \/ SavesRecord(w) \/ DropsRecord(w)
  BY <1>4, <1>10 DEF PutsToken, PutsCode, SavesRecord, DropsRecord, Finish
<1>11. QED  BY <1>6, <1>7, <1>8, <1>9, <1>10

(* Nothing is asked of a connection, or a request about one gives up. *)
LEMMA LinkEnds ==
    ASSUME LinkInv, CredentialsInv',
           \/ UNCHANGED vars_C
           \/ \E k \in Code : CodeLapses(k)
           \/ \E l \in Login : LoginLapses(l)
           \/ \E w \in Worker : Abandons(w) \/ DeleteRefused(w)
    PROVE  LinkInv'
<1>1. CASE \/ UNCHANGED vars_C
           \/ \E k \in Code : CodeLapses(k)
           \/ \E l \in Login : LoginLapses(l)
  <2>1. UNCHANGED <<link, login, profile, errand, tangled>>
    BY <1>1 DEF vars_C, documents, CodeLapses, LoginLapses
  <2>2. QED  BY <2>1, QuietLinks
<1>2. ASSUME NEW w \in Worker, Abandons(w) \/ DeleteRefused(w) PROVE LinkInv'
  <2>1. /\ UNCHANGED <<link, login, profile>> /\ tangled \subseteq tangled'
        /\ errand' = [errand EXCEPT ![w] = AtRest]
        /\ errand[w].link \in tangled' \cup {None} \/ errand[w].pc = "delete"
    BY <1>2 DEF Abandons, DeleteRefused, Finish, documents
  <2>2. errand'[w] = AtRest /\ \A v \in Worker : v # w => errand'[v] = errand[v]
    BY <2>1, LinkTypes
  <2>3. QED  BY <2>1, <2>2, RestLink, QuietLinks
<1>3. QED  BY <1>1, <1>2

(* A request about a connection starts: nobody else has it in hand, or it  *)
(* is tangled now.                                                         *)
LEMMA LinkBegins ==
    ASSUME LinkInv, CredentialsInv', NEW w \in Worker, NEW op \in LinkErrands, NEW e,
           Begins(w, op, e), NEW N \in Errand, N = [e EXCEPT !.op = op], N.link \in Connection,
           HandsOn(N), ~Leaving(N), N.linkDoc.profile = link[N.link].profile,
           N.link \notin tangled /\ Kept(N.link) => Opens(N) /\ Completes(N) /\ Closes(N)
    PROVE  LinkInv'
<1>1. /\ errand' = [errand EXCEPT ![w] = N] /\ UNCHANGED <<link, login, profile>>
      /\ tangled \subseteq tangled' /\ errand[w].pc = "idle"
  BY DEF Begins, documents, Fresh, Running
<1>2. /\ errand[w] = AtRest /\ errand'[w] = N
      /\ \A v \in Worker : v # w => errand'[v] = errand[v]
  BY <1>1, InHand, LinkTypes DEF LinkInv
<1>3. \A n \in Connection, p \in Profile : Names(n, p)' => Names(n, p)
  BY <1>1, <1>2 DEF Names, LoginsOf
<1>4. OneName'
  BY <1>1, <1>3, NamesKept DEF LinkInv
<1>5. Filed'
  <2>1. \A v \in Worker : HandsOn(errand[v])'
    <3> TAKE v \in Worker
    <3>1. PICK c : c = errand'[v]
      OBVIOUS
    <3>2. HandsOn(c)
      BY <1>2, <3>1 DEF LinkInv, Filed
    <3>3. QED  BY <1>1, <3>1, <3>2 DEF HandsOn, LoginsOf
  <2>2. QED  BY <1>1, <2>1 DEF LinkInv, Filed
<1>6. Connected'
  <2> SUFFICES ASSUME NEW m \in Connection, m \notin tangled' PROVE Sound(m)'
    BY DEF Connected
  <2>1. CASE m # N.link
    <3>1. \A v \in Worker : errand'[v].link = m => errand'[v] = errand[v]
      BY <1>2, <2>1
    <3>2. \A v \in Worker : errand[v].link = m /\ Leaving(errand[v]) => errand'[v] = errand[v]
      BY <1>2, RestLink, LinkTypes
    <3>3. QED  BY <1>1, <3>1, <3>2, Untouched DEF LoginsOf
  <2>2. CASE m = N.link
    <3>1. \A v \in Worker : v # w => errand[v].link # m
      <4> SUFFICES ASSUME NEW v \in Worker, v # w, errand[v].link = m PROVE FALSE
        OBVIOUS
      <4>1. m \in Held(errand'[v]) /\ m \in Held(errand'[w])
        BY <1>2, <2>2, NoneApart DEF Held
      <4>2. Held(errand'[v]) \cap Held(errand'[w]) \subseteq tangled'
        BY DEF CredentialsInv, Handled
      <4>3. QED  BY <4>1, <4>2
    <3>2. Kept(m)
      BY <1>1, <1>2, <3>1, RestLink, LinkTypes DEF LinkInv, Connected, Sound
    <3>3. Opens(N) /\ Completes(N) /\ Closes(N)
      BY <1>1, <2>2, <3>2
    <3>4. Kept(m)' /\ Opens(N)' /\ Completes(N)' /\ Closes(N)'
      BY <1>1, <3>2, <3>3 DEF Kept, Exists, LoginsOf, Opens, Completes, Closes, Leaving
    <3>5. \A v \in Worker : errand'[v].link = m => v = w
      BY <1>2, <3>1
    <3>6. (Opens(errand[w]) /\ Completes(errand[w]) /\ Closes(errand[w]))'
      BY <1>2, <3>4 DEF Opens, Completes, Closes, Leaving, Exists, LoginsOf
    <3>7. QED  BY <3>4, <3>5, <3>6 DEF Sound
  <2>3. QED  BY <2>1, <2>2
<1>7. Housed'
  <2>1. \A v \in Worker, p \in Profile : Housing(errand[v], p) => v # w
    BY <1>2, RestLink DEF Housing, LinkErrands
  <2>2. \A v \in Worker, p \in Profile : Housing(errand[v], p) => Housing(errand[v], p)'
    BY <1>2, <2>1 DEF Housing
  <2>3. QED  BY <1>1, <2>2 DEF LinkInv, Housed, Exists
<1>8. QED  BY <1>4, <1>5, <1>6, <1>7 DEF LinkInv

(* A login is asked for, a connection revoked, or a login completed. *)
LEMMA LinkAsked ==
    ASSUME LinkInv, CredentialsInv', NEW w \in Worker, NEW n \in Connection,
           StartsLogin(w, n) \/ Disconnects(w, n) \/ \E l \in Login : CompletesLogin(w, n, l)
    PROVE  LinkInv'
<1>1. PICK d \in LinkDoc : d = link[n]
  BY LinkTypes
<1>2. CASE StartsLogin(w, n)
  <2> DEFINE at == IF link[n].profile = None THEN "profile" ELSE "savelink"
             e == [AtRest EXCEPT !.link = n, !.linkDoc = d, !.pc = at]
             N == [e EXCEPT !.op = "login"]
  <2>1. Begins(w, "login", e) /\ d.status \notin {"none", "revoked"}
    BY <1>1, <1>2 DEF StartsLogin
  <2>2. at \in {"profile", "savelink"} /\ (at = "profile" <=> d.profile = None)
    BY <1>1
  <2> HIDE DEF at
  <2>3. /\ N \in Errand /\ N.op = "login" /\ N.link = n /\ N.linkDoc = d /\ N.pc = at
    BY <2>2, Rest DEF Errand, Errands
  <2>4. N = [e EXCEPT !.op = "login"]
    OBVIOUS
  <2> HIDE DEF N, e
  <2>5. HandsOn(N) /\ ~Leaving(N) /\ N.linkDoc.profile = link[N.link].profile
    BY <1>1, <2>2, <2>3 DEF HandsOn, Leaving, LinkErrands
  <2>6. Kept(n) => Opens(N) /\ Completes(N) /\ Closes(N)
    BY <1>1, <2>1, <2>2, <2>3 DEF Kept, Opens, Completes, Closes, Leaving
  <2>7. QED  BY <2>1, <2>3, <2>4, <2>5, <2>6, LinkBegins DEF LinkErrands
<1>3. CASE Disconnects(w, n)
  <2> DEFINE e == [AtRest EXCEPT !.link = n, !.linkDoc = d, !.pc = "delete"]
             N == [e EXCEPT !.op = "disconnect"]
  <2>1. Begins(w, "disconnect", e) /\ d # NoLink
    BY <1>1, <1>3 DEF Disconnects
  <2>2. N \in Errand /\ N.op = "disconnect" /\ N.link = n /\ N.linkDoc = d /\ N.pc = "delete"
    BY Rest DEF Errand, Errands
  <2>3. N = [e EXCEPT !.op = "disconnect"]
    OBVIOUS
  <2> HIDE DEF N, e
  <2>4. HandsOn(N) /\ ~Leaving(N) /\ N.linkDoc.profile = link[N.link].profile
    BY <1>1, <2>2 DEF HandsOn, Leaving, LinkErrands
  <2>5. Opens(N) /\ Completes(N) /\ Closes(N)
    BY <1>1, <2>1, <2>2 DEF Opens, Completes, Closes, Leaving
  <2>6. QED  BY <2>1, <2>2, <2>3, <2>4, <2>5, LinkBegins DEF LinkErrands
<1>4. CASE \E l \in Login : CompletesLogin(w, n, l)
  <2> PICK l \in Login : CompletesLogin(w, n, l)
    BY <1>4
  <2> DEFINE f == [d EXCEPT !.status = "active"]
  <2>0. f \in LinkDoc /\ f = [link[n] EXCEPT !.status = "active"] /\ f.status = "active" /\ f.profile = d.profile
    BY <1>1 DEF LinkDoc
  <2> HIDE DEF f
  <2> DEFINE e == [AtRest EXCEPT !.link = n, !.login = l, !.pc = "store",
                                 !.left = {"login", "link"}, !.linkDoc = f]
             N == [e EXCEPT !.op = "complete"]
  <2>1. Begins(w, "complete", e) /\ l \in LoginsOf(n)
    BY <1>1, <2>0 DEF CompletesLogin, LoginsOf
  <2>2. e \in Errand /\ e.link = n /\ e.login = l /\ e.linkDoc = f /\ e.pc = "store"
    BY <2>0, Rest DEF Errand
  <2>3. N \in Errand /\ N.op = "complete" /\ N.link = n /\ N.login = l /\ N.linkDoc = f /\ N.pc = "store"
    BY <2>2 DEF Errand, Errands
  <2>4. N = [e EXCEPT !.op = "complete"]
    OBVIOUS
  <2> HIDE DEF N, e
  <2>5. HandsOn(N) /\ ~Leaving(N) /\ N.linkDoc.profile = link[N.link].profile
    BY <1>1, <2>0, <2>1, <2>3 DEF HandsOn, Leaving, LinkErrands
  <2>6. Opens(N) /\ Completes(N) /\ Closes(N)
    BY <1>1, <2>0, <2>3 DEF Opens, Completes, Closes, Leaving
  <2>7. QED  BY <2>1, <2>3, <2>4, <2>5, <2>6, LinkBegins DEF LinkErrands
<1>5. QED  BY <1>2, <1>3, <1>4

(* A request goes on with its connection: the others are left alone. *)
LEMMA LinkActs ==
    ASSUME LinkInv, NEW w \in Worker, NEW c, c = errand[w], c.link \in Connection, NEW N,
           errand' = [errand EXCEPT ![w] = N], N = AtRest \/ N.link = c.link, tangled' = tangled,
           HandsOn(N)',
           \A m \in Connection : m # c.link => link'[m] = link[m] /\ LoginsOf(m)' = LoginsOf(m),
           \A l \in Login : login[l].link \in Connection =>
              login'[l].link = login[l].link /\ login'[l].profile = login[l].profile,
           \A p \in Profile : profile'[p] # profile[p] => Names(c.link, p) \/ profile[p] = "none",
           c.link \notin tangled =>
              /\ ~Leaving(N) => Kept(c.link)'
              /\ N = AtRest \/ (Opens(N)' /\ Completes(N)' /\ Closes(N)')
    PROVE  /\ errand'[w] = N /\ \A v \in Worker : v # w => errand'[v] = errand[v]
           /\ Connected' /\ \A v \in Worker : HandsOn(errand[v])'
<1>1. errand'[w] = N /\ \A v \in Worker : v # w => errand'[v] = errand[v]
  BY LinkTypes
<1>2. Connected'
  <2> SUFFICES ASSUME NEW m \in Connection, m \notin tangled PROVE Sound(m)'
    BY DEF Connected
  <2>1. CASE m # c.link
    <3>1. \A v \in Worker : errand'[v].link = m => errand'[v] = errand[v]
      BY <1>1, <2>1, RestLink, LinkTypes
    <3>2. \A v \in Worker : errand[v].link = m /\ Leaving(errand[v]) => errand'[v] = errand[v]
      BY <1>1, <2>1
    <3>3. \A p \in Profile : Names(m, p) => profile'[p] = profile[p]
      BY <2>1, NamedOnce
    <3>4. \A l \in LoginsOf(m) : login'[l].profile = login[l].profile
      BY DEF LoginsOf
    <3>5. QED  BY <2>1, <3>1, <3>2, <3>3, <3>4, Untouched
  <2>2. CASE m = c.link
    <3>1. \A v \in Worker : errand'[v].link = m => v = w
      BY <1>1, <2>2, AloneWithLink
    <3>2. Leaving(N) => N # AtRest
      BY RestLink DEF Leaving, LinkErrands
    <3>3. CASE N = AtRest
      <4>1. Kept(m)'
        BY <2>2, <3>2, <3>3
      <4>2. \A v \in Worker : errand'[v].link # m
        BY <1>1, <3>1, <3>3, RestLink, LinkTypes
      <4>3. QED  BY <4>1, <4>2 DEF Sound
    <3>4. CASE N # AtRest
      <4>1. (Opens(errand[w]) /\ Completes(errand[w]) /\ Closes(errand[w]))'
        BY <1>1, <2>2, <3>4 DEF Opens, Completes, Closes, Leaving, Exists, LoginsOf
      <4>2. ~Leaving(errand'[w]) => Kept(m)'
        BY <1>1, <2>2
      <4>3. errand'[w].link = m
        BY <1>1, <2>2, <3>4
      <4>4. QED  BY <3>1, <4>1, <4>2, <4>3 DEF Sound
    <3>5. QED  BY <3>3, <3>4
  <2>3. QED  BY <2>1, <2>2
<1>3. \A v \in Worker : HandsOn(errand[v])'
  <2> TAKE v \in Worker
  <2>1. CASE v = w
    BY <1>1, <2>1 DEF HandsOn, LoginsOf
  <2>2. CASE v # w
    <3>1. PICK d : d = errand[v]
      OBVIOUS
    <3>2. HandsOn(d) /\ errand'[v] = d
      BY <1>1, <2>2, <3>1 DEF LinkInv, Filed
    <3>3. QED  BY <3>2 DEF HandsOn, LoginsOf
  <2>3. QED  BY <2>1, <2>2
<1>4. QED  BY <1>1, <1>2, <1>3

(* It names what it named. *)
LEMMA NamesStay ==
    ASSUME LinkInv, NEW w \in Worker, NEW c, c = errand[w], c.link \in Connection, NEW N,
           errand'[w] = N, \A v \in Worker : v # w => errand'[v] = errand[v],
           N = AtRest \/ (N.link = c.link /\ N.linkDoc.profile \in {None, c.linkDoc.profile}),
           \A m \in Connection : link'[m].profile = link[m].profile
                                 \/ (m = c.link /\ link'[m].profile \in {None, c.linkDoc.profile}),
           \A l \in Login : \/ login'[l].link = login[l].link /\ login'[l].profile = login[l].profile
                            \/ login'[l].link = c.link /\ login'[l].profile = c.linkDoc.profile,
           \A p \in Profile : profile[p] # "none" => profile'[p] # "none"
    PROVE  OneName'
<1>1. \A n \in Connection, p \in Profile : Names(n, p)' => Names(n, p)
  <2> SUFFICES ASSUME NEW n \in Connection, NEW p \in Profile, Names(n, p)' PROVE Names(n, p)
    OBVIOUS
  <2>1. p # None /\ n # None
    BY LinkTypes
  <2>2. c.linkDoc.profile = p /\ n = c.link => Names(n, p)
    BY DEF Names
  <2>3. CASE link'[n].profile = p
    BY <2>1, <2>2, <2>3 DEF Names
  <2>4. CASE \E v \in Worker : errand'[v].link = n /\ errand'[v].linkDoc.profile = p
    BY <2>1, <2>2, <2>4, RestLink DEF Names
  <2>5. CASE \E l \in Login : login'[l].link = n /\ login'[l].profile = p
    BY <2>2, <2>5 DEF Names, LoginsOf
  <2>6. QED  BY <2>3, <2>4, <2>5 DEF Names, LoginsOf
<1>2. QED  BY <1>1, NamesKept DEF LinkInv

(* A profile stays housed unless its connection or its request lets go. *)
LEMMA HousedStill ==
    ASSUME LinkInv, tangled' = tangled, \A p \in Profile : Exists(p)' => Exists(p),
           tangled \cap Connection = {} =>
              \A p \in Profile : Exists(p)' =>
                 /\ \A n \in Connection : link[n].profile = p => link'[n].profile = p
                 /\ \A v \in Worker : Housing(errand[v], p) =>
                       Housing(errand[v], p)' \/ \E n \in Connection : link'[n].profile = p
    PROVE  Housed'
BY DEF LinkInv, Housed

(* A connection is registered: nothing was known of it. *)
LEMMA ConnectsLinks ==
    ASSUME LinkInv, CredentialsInv', NEW n \in Connection, Connects(n)
    PROVE  LinkInv'
<1>1. /\ UNCHANGED <<login, profile, errand, tangled>>
      /\ link' = [link EXCEPT ![n].status = "pending"] /\ link[n] = NoLink
  BY DEF Connects
<1>2. /\ link'[n].status = "pending" /\ link'[n].profile = None /\ link[n].profile = None
      /\ link[n].status = "none" /\ \A m \in Connection : m # n => link'[m] = link[m]
  BY <1>1, LinkTypes DEF NoLink, LinkDoc
<1>3. \A m \in Connection : link'[m].profile = link[m].profile
  BY <1>2
<1>4. OneName'
  BY <1>1, <1>3, NamesKept DEF LinkInv, Names, LoginsOf
<1>5. Filed'
  BY <1>1 DEF LinkInv, Filed, HandsOn, LoginsOf
<1>6. Connected'
  <2> SUFFICES ASSUME NEW m \in Connection, m \notin tangled PROVE Sound(m)'
    BY <1>1 DEF Connected
  <2>1. CASE m # n
    BY <1>1, <1>2, <2>1, Untouched DEF LoginsOf
  <2>2. CASE m = n
    <3>1. Sound(m)
      BY DEF LinkInv, Connected
    <3>2. (\A w \in Worker : errand[w].link = m => ~Leaving(errand[w])) => Kept(m)'
      BY <1>1, <1>2, <2>2, <3>1 DEF Sound, Kept, Exists, LoginsOf
    <3>3. ASSUME NEW w \in Worker, errand[w].link = m
          PROVE  (Opens(errand[w]) /\ Completes(errand[w]) /\ Closes(errand[w]))'
      <4>1. Opens(errand[w]) /\ Completes(errand[w]) /\ Closes(errand[w])
        BY <3>1, <3>3 DEF Sound
      <4>2. Opens(errand[w])'
        <5>1. ASSUME errand[w].op = "login" PROVE FALSE
          BY <1>2, <2>2, <3>3, <4>1, <5>1 DEF Opens
        <5>2. QED  BY <1>1, <5>1 DEF Opens
      <4>3. Completes(errand[w])'
        BY <1>1, <1>2, <2>2, <3>3, <4>1 DEF Completes
      <4>4. Closes(errand[w])'
        BY <1>1, <1>2, <2>2, <3>3, <4>1 DEF Closes, Leaving, LoginsOf
      <4>5. QED  BY <4>2, <4>3, <4>4
    <3>4. QED  BY <1>1, <3>2, <3>3 DEF Sound
  <2>3. QED  BY <2>1, <2>2
<1>7. Housed'
  BY <1>1, <1>3 DEF LinkInv, Housed, Exists, Housing
<1>8. QED  BY <1>4, <1>5, <1>6, <1>7 DEF LinkInv

(* What whoever is alone with an untangled connection knows of it. *)
LEMMA Knows ==
    ASSUME LinkInv, NEW w \in Worker, errand[w].link \in Connection, errand[w].link \notin tangled
    PROVE  /\ Opens(errand[w]) /\ Completes(errand[w]) /\ Closes(errand[w])
           /\ ~Leaving(errand[w]) => Kept(errand[w].link)
<1>1. Sound(errand[w].link)
  BY DEF LinkInv, Connected
<1>2. \A v \in Worker : errand[v].link = errand[w].link => v = w
  BY AloneWithLink
<1>3. QED  BY <1>1, <1>2 DEF Sound

(* A profile is created for a connection that names none. *)
LEMMA CreatesProfileLinks ==
    ASSUME LinkInv, CredentialsInv', NEW w \in Worker, NEW p \in Profile, CreatesProfile(w, p)
    PROVE  LinkInv'
<1>1. PICK c \in Errand : c = errand[w] /\ c.linkDoc \in LinkDoc
  BY LinkTypes
<1> DEFINE d == [c.linkDoc EXCEPT !.profile = p]
           N == [c EXCEPT !.pc = "savelink", !.linkDoc = d]
<1>2. /\ UNCHANGED <<link, login, tangled>> /\ profile' = [profile EXCEPT ![p] = "blank"]
      /\ profile[p] = "none" /\ c.pc = "profile"
  BY <1>1 DEF CreatesProfile, Fresh
<1>3. errand' = [errand EXCEPT ![w] = N]
  BY <1>1 DEF CreatesProfile, Errand
<1>4. d.profile = p /\ d.status = c.linkDoc.status
  BY <1>1 DEF LinkDoc
<1>5. N.op = c.op /\ N.link = c.link /\ N.pc = "savelink" /\ N.linkDoc = d
  BY DEF Errand
<1> HIDE DEF N, d
<1>6. c.op = "login" /\ c.link \in Connection
  BY <1>1, <1>2, HasLink DEF LinkErrands
<1>7. /\ profile'[p] = "blank" /\ \A q \in Profile : q # p => profile'[q] = profile[q]
      /\ p # None
  BY <1>2, LinkTypes
<1>8. HandsOn(N)' /\ ~Leaving(N)
  BY <1>4, <1>5, <1>6, <1>7 DEF HandsOn, LinkErrands, Leaving
<1>9. c.link \notin tangled => Kept(c.link)' /\ Opens(N)' /\ Completes(N)' /\ Closes(N)'
  <2> SUFFICES ASSUME c.link \notin tangled
               PROVE  Kept(c.link)' /\ Opens(N)' /\ Completes(N)' /\ Closes(N)'
    OBVIOUS
  <2>1. Opens(c) /\ Kept(c.link)
    BY <1>1, <1>6, Knows DEF Leaving
  <2>2. \A l \in LoginsOf(c.link) : login[l].profile # p
    BY <1>2, <1>6, NamedOnce DEF Names
  <2>3. \A l \in LoginsOf(c.link) : login[l].profile \in Profile
    BY <1>6, LinkTypes DEF LinkInv, Filed, LoginsOf
  <2>4. link[c.link].profile = None /\ link[c.link] = c.linkDoc /\ c.linkDoc.status \notin {"none", "revoked"}
    BY <1>2, <1>6, <2>1 DEF Opens
  <2>5. Kept(c.link)'
    BY <1>2, <1>7, <2>1, <2>2, <2>3, <2>4 DEF Kept, LoginsOf
  <2>6. Opens(N)'
    BY <1>2, <1>4, <1>5, <1>6, <1>7, <2>4 DEF Opens, Exists
  <2>7. QED  BY <1>5, <1>6, <2>5, <2>6 DEF Completes, Closes, Leaving
<1>10. /\ errand'[w] = N /\ \A v \in Worker : v # w => errand'[v] = errand[v]
       /\ Connected' /\ \A v \in Worker : HandsOn(errand[v])'
  BY <1>1, <1>2, <1>3, <1>5, <1>6, <1>7, <1>8, <1>9, LinkActs DEF LoginsOf
<1>11. OneName'
  <2>1. \A m \in Connection : ~Names(m, p)
    BY <1>2, NamedOnce
  <2>2. ASSUME NEW m \in Connection, NEW q \in Profile, Names(m, q)'
        PROVE  Names(m, q) \/ (m = c.link /\ q = p)
    <3>1. CASE link[m].profile = q \/ \E l \in LoginsOf(m) : login[l].profile = q
      BY <3>1 DEF Names
    <3>2. CASE \E v \in Worker : errand'[v].link = m /\ errand'[v].linkDoc.profile = q
      BY <1>4, <1>5, <1>10, <3>2 DEF Names
    <3>3. QED  BY <1>2, <2>2, <3>1, <3>2 DEF Names, LoginsOf
  <2>3. QED  BY <1>7, <2>1, <2>2 DEF LinkInv, OneName
<1>12. Filed'
  BY <1>2, <1>10 DEF LinkInv, Filed
<1>13. Housed'
  <2> SUFFICES ASSUME tangled \cap Connection = {}, NEW q \in Profile, Exists(q)'
               PROVE  \/ \E n \in Connection : link[n].profile = q
                      \/ \E v \in Worker : Housing(errand[v], q)'
    BY <1>2 DEF Housed
  <2>1. CASE q = p
    <3>1. Housing(errand'[w], q)
      BY <1>4, <1>5, <1>6, <1>10, <2>1 DEF Housing
    <3>2. QED  BY <3>1 DEF Housing
  <2>2. CASE q # p
    <3>1. \/ \E n \in Connection : link[n].profile = q
          \/ \E v \in Worker : Housing(errand[v], q)
      BY <1>7, <2>2 DEF LinkInv, Housed, Exists
    <3>2. \A v \in Worker : Housing(errand[v], q) => Housing(errand[v], q)'
      BY <1>1, <1>2, <1>10 DEF Housing
    <3>3. QED  BY <3>1, <3>2
  <2>3. QED  BY <2>1, <2>2
<1>14. QED  BY <1>10, <1>11, <1>12, <1>13 DEF LinkInv

(* The connection is saved: with its profile, or without the deleted one. *)
LEMMA SavesLinkLinks ==
    ASSUME LinkInv, CredentialsInv', NEW w \in Worker, SavesLink(w)
    PROVE  LinkInv'
<1>1. PICK c \in Errand : c = errand[w] /\ c.linkDoc \in LinkDoc
  BY LinkTypes
<1> DEFINE M == [c EXCEPT !.pc = "savelogin"]
           N == IF c.op = "login" THEN M ELSE AtRest
<1>2. /\ UNCHANGED <<login, profile, tangled>> /\ link' = [link EXCEPT ![c.link] = c.linkDoc]
      /\ c.pc = "savelink"
  BY <1>1 DEF SavesLink
<1>3. errand' = [errand EXCEPT ![w] = N]
  BY <1>1 DEF SavesLink, Step, Finish
<1>4. M.op = c.op /\ M.link = c.link /\ M.pc = "savelogin" /\ M.linkDoc = c.linkDoc
  BY DEF Errand
<1> HIDE DEF M
<1>5. /\ c.op \in {"login", "disconnect"} /\ c.link \in Connection
      /\ c.op = "login" => c.linkDoc.profile # None
  BY <1>1, <1>2, HasLink DEF LinkErrands
<1>6. link'[c.link] = c.linkDoc /\ \A m \in Connection : m # c.link => link'[m] = link[m]
  BY <1>2, <1>5, LinkTypes
<1>7. N = AtRest \/ (N.link = c.link /\ N.linkDoc = c.linkDoc)
  BY <1>4
<1>8. HandsOn(N)' /\ ~Leaving(N)
  BY <1>4, <1>5, RestLink DEF HandsOn, LinkErrands, Leaving
<1>9. ASSUME c.link \notin tangled
      PROVE  /\ Kept(c.link)' /\ (N = AtRest \/ (Opens(N)' /\ Completes(N)' /\ Closes(N)'))
             /\ \A p \in Profile : Exists(p) /\ link[c.link].profile = p => c.linkDoc.profile = p
  <2>1. Opens(c) /\ Closes(c) /\ (~Leaving(c) => Kept(c.link))
    BY <1>1, <1>5, <1>9, Knows
  <2>2. \A l \in LoginsOf(c.link) : login[l].profile # None
    BY <1>5, LinkTypes DEF LinkInv, Filed, LoginsOf
  <2>3. CASE c.op = "login"
    <3>1. /\ c.linkDoc.status = link[c.link].status /\ Exists(c.linkDoc.profile)
          /\ link[c.link].profile \in {None, c.linkDoc.profile}
          /\ link[c.link].status \notin {"none", "revoked"} /\ Kept(c.link)
      BY <1>2, <2>1, <2>3 DEF Opens, Leaving
    <3>2. Kept(c.link)'
      BY <1>2, <1>6, <2>2, <3>1 DEF Kept, Exists, LoginsOf
    <3>3. Opens(N)' /\ Completes(N)' /\ Closes(N)'
      BY <1>4, <1>6, <2>3, <3>1 DEF Opens, Completes, Closes, Leaving
    <3>4. QED  BY <3>1, <3>2, <3>3, LinkTypes
  <2>4. CASE c.op = "disconnect"
    <3>1. /\ c.linkDoc = [status |-> "revoked", profile |-> None]
          /\ link[c.link].profile # None => profile[link[c.link].profile] = "deleted"
          /\ \A l \in LoginsOf(c.link) : profile[login[l].profile] = "deleted"
      BY <1>2, <2>1, <2>4 DEF Closes, Leaving
    <3>2. Kept(c.link)'
      BY <1>2, <1>6, <3>1 DEF Kept, LoginsOf
    <3>3. QED  BY <2>4, <3>1, <3>2, LinkTypes DEF Exists
  <2>5. QED  BY <1>5, <2>3, <2>4
<1> HIDE DEF N
<1>10. /\ errand'[w] = N /\ \A v \in Worker : v # w => errand'[v] = errand[v]
       /\ Connected' /\ \A v \in Worker : HandsOn(errand[v])'
  BY <1>1, <1>2, <1>3, <1>5, <1>6, <1>7, <1>8, <1>9, LinkActs DEF LoginsOf
<1>11. OneName'
  BY <1>1, <1>2, <1>5, <1>6, <1>7, <1>10, NamesStay
<1>12. Filed'
  BY <1>2, <1>10 DEF LinkInv, Filed
<1>13. Housed'
  <2>1. \A p \in Profile : Exists(p)' => Exists(p)
    BY <1>2 DEF Exists
  <2>2. ASSUME tangled \cap Connection = {}, NEW p \in Profile, Exists(p)'
        PROVE  /\ \A n \in Connection : link[n].profile = p => link'[n].profile = p
               /\ \A v \in Worker : Housing(errand[v], p) =>
                     Housing(errand[v], p)' \/ \E n \in Connection : link'[n].profile = p
    <3>1. \A n \in Connection : link[n].profile = p => link'[n].profile = p
      BY <1>5, <1>6, <1>9, <2>1, <2>2
    <3>2. \A v \in Worker : v # w /\ Housing(errand[v], p) => Housing(errand[v], p)'
      BY <1>10 DEF Housing
    <3>3. Housing(errand[w], p) => link'[c.link].profile = p
      BY <1>1, <1>6 DEF Housing
    <3>4. QED  BY <1>5, <3>1, <3>2, <3>3
  <2>3. QED  BY <1>2, <2>1, <2>2, HousedStill
<1>14. QED  BY <1>10, <1>11, <1>12, <1>13 DEF LinkInv

(* A login is recorded, of the profile its connection names. *)
LEMMA SavesLoginLinks ==
    ASSUME LinkInv, CredentialsInv', NEW w \in Worker, NEW l \in Login, SavesLogin(w, l)
    PROVE  LinkInv'
<1>1. PICK c \in Errand : c = errand[w] /\ c.linkDoc \in LinkDoc /\ c.linkDoc.profile \in Profile \cup {None}
  BY LinkTypes
<1> DEFINE d == [status |-> "PENDING", link |-> c.link, profile |-> c.linkDoc.profile]
           N == AtRest
<1>2. /\ UNCHANGED <<link, profile, tangled>> /\ login' = [login EXCEPT ![l] = d]
      /\ c.pc = "savelogin" /\ login[l].status = "none"
      /\ errand' = [errand EXCEPT ![w] = N]
  BY <1>1 DEF SavesLogin, Finish, Fresh
<1>3. c.op = "login" /\ c.link \in Connection /\ c.linkDoc.profile \in Profile
  BY <1>1, <1>2, HasLink DEF LinkErrands
<1>4. login[l].link = None
  BY <1>2 DEF LinkInv, Filed
<1>5. /\ login'[l].status = "PENDING" /\ login'[l].link = c.link /\ login'[l].profile = c.linkDoc.profile
      /\ \A k \in Login : k # l => login'[k] = login[k]
  BY <1>2, LinkTypes
<1>6. N = AtRest /\ HandsOn(N)' /\ ~Leaving(N)
  BY RestLink DEF HandsOn, Leaving, LinkErrands
<1> HIDE DEF N, d
<1>7. c.link \notin tangled => Kept(c.link)'
  <2> SUFFICES ASSUME c.link \notin tangled PROVE Kept(c.link)'
    OBVIOUS
  <2>1. Opens(c) /\ Kept(c.link)
    BY <1>1, <1>3, Knows DEF Leaving
  <2>2. c.linkDoc = link[c.link]
    BY <1>2, <1>3, <2>1 DEF Opens
  <2>3. QED  BY <1>2, <1>5, <2>1, <2>2 DEF Kept, Exists, LoginsOf
<1>8. \A m \in Connection : m # c.link => LoginsOf(m)' = LoginsOf(m)
  BY <1>4, <1>5, LinkTypes DEF LoginsOf
<1>9. /\ errand'[w] = N /\ \A v \in Worker : v # w => errand'[v] = errand[v]
      /\ Connected' /\ \A v \in Worker : HandsOn(errand[v])'
  BY <1>1, <1>2, <1>3, <1>4, <1>5, <1>6, <1>7, <1>8, LinkActs, LinkTypes
<1>10. OneName'
  BY <1>1, <1>2, <1>3, <1>5, <1>6, <1>9, NamesStay
<1>11. Filed'
  BY <1>3, <1>5, <1>9 DEF LinkInv, Filed
<1>12. Housed'
  <2>1. \A v \in Worker, p \in Profile : Housing(errand[v], p) => Housing(errand[v], p)'
    BY <1>1, <1>2, <1>9 DEF Housing
  <2>2. QED  BY <1>2, <2>1 DEF LinkInv, Housed, Exists
<1>13. QED  BY <1>9, <1>10, <1>11, <1>12 DEF LinkInv

(* What was signed in to is saved, or the profile is gone. *)
LEMMA SavesProfileLinks ==
    ASSUME LinkInv, CredentialsInv', NEW w \in Worker, SavesProfile(w)
    PROVE  LinkInv'
<1>1. PICK c \in Errand : c = errand[w]
  BY LinkTypes
<1>2. PICK p : p = login[c.login].profile
  OBVIOUS
<1>3. /\ UNCHANGED <<link, login, tangled>> /\ c.op = "complete" /\ c.pc = "store"
  BY <1>1 DEF SavesProfile, Doing
<1>4. c.link \in Connection /\ c.login \in LoginsOf(c.link)
  BY <1>1, <1>3, HasLink DEF LinkErrands
<1>5. p \in Profile /\ Names(c.link, p)
  BY <1>2, <1>4, LinkTypes DEF LinkInv, Filed, LoginsOf, Names
<1>6. CASE profile[p] = "deleted"
  <2>1. errand' = [errand EXCEPT ![w] = AtRest] /\ UNCHANGED profile
    BY <1>1, <1>2, <1>6 DEF SavesProfile, Finish
  <2>2. errand'[w] = AtRest /\ \A v \in Worker : v # w => errand'[v] = errand[v]
    BY <2>1, LinkTypes
  <2>3. QED  BY <1>1, <1>3, <2>1, <2>2, RestLink, QuietLinks
<1>7. CASE profile[p] # "deleted"
  <2> DEFINE N == [c EXCEPT !.pc = "saves"]
  <2>1. errand' = [errand EXCEPT ![w] = N] /\ profile' = [profile EXCEPT ![p] = "signed"]
    BY <1>1, <1>2, <1>7 DEF SavesProfile, Step
  <2>2. N.op = "complete" /\ N.link = c.link /\ N.pc = "saves" /\ N.linkDoc = c.linkDoc /\ N.login = c.login
    BY <1>3 DEF Errand
  <2> HIDE DEF N
  <2>3. /\ profile'[p] = "signed" /\ \A q \in Profile : q # p => profile'[q] = profile[q]
        /\ Exists(p)
    <3>1. profile[p] # "none" /\ profile[p] \in {"none", "blank", "signed", "deleted"}
      BY <1>4, <1>5, NamedOnce, LinkTypes
    <3>2. Exists(p)
      BY <1>7, <3>1 DEF Exists
    <3>3. QED  BY <1>5, <2>1, <3>2, LinkTypes
  <2>4. HandsOn(N)' /\ ~Leaving(N)
    BY <1>3, <1>4, <2>2 DEF HandsOn, LinkErrands, Leaving, LoginsOf
  <2>5. c.link \notin tangled => Kept(c.link)' /\ Opens(N)' /\ Completes(N)' /\ Closes(N)'
    <3> SUFFICES ASSUME c.link \notin tangled
                 PROVE  Kept(c.link)' /\ Opens(N)' /\ Completes(N)' /\ Closes(N)'
      OBVIOUS
    <3>1. Completes(c) /\ Kept(c.link)
      BY <1>1, <1>3, <1>4, Knows DEF Leaving
    <3>2. link[c.link].profile = p
      BY <1>2, <1>4, <1>7, <3>1 DEF Kept
    <3>3. c.linkDoc.profile = p /\ c.linkDoc.status = "active" /\ p # None
      BY <1>3, <1>5, <3>1, <3>2, LinkTypes DEF Completes
    <3>4. Kept(c.link)'
      <4>1. \A l \in LoginsOf(c.link) : login[l].profile \in Profile
        BY <1>4, LinkTypes DEF LinkInv, Filed, LoginsOf
      <4>2. QED  BY <1>3, <2>3, <3>1, <3>2, <3>3, <4>1 DEF Kept, Exists, LoginsOf
    <3>5. Completes(N)'
      BY <1>3, <2>2, <2>3, <3>2, <3>3 DEF Completes
    <3>6. QED  BY <2>2, <3>4, <3>5 DEF Opens, Closes, Leaving
  <2>6. /\ errand'[w] = N /\ \A v \in Worker : v # w => errand'[v] = errand[v]
        /\ Connected' /\ \A v \in Worker : HandsOn(errand[v])'
    BY <1>1, <1>3, <1>4, <1>5, <2>1, <2>2, <2>3, <2>4, <2>5, LinkActs DEF LoginsOf
  <2>7. OneName'
    BY <1>1, <1>3, <1>4, <2>2, <2>3, <2>6, NamesStay
  <2>8. Filed'
    BY <1>3, <2>6 DEF LinkInv, Filed
  <2>9. Housed'
    <3>1. \A q \in Profile : Exists(q)' => Exists(q)
      BY <2>3 DEF Exists
    <3>2. \A v \in Worker, q \in Profile : Housing(errand[v], q) => Housing(errand[v], q)'
      BY <1>1, <1>3, <2>6 DEF Housing
    <3>3. QED  BY <1>3, <3>1, <3>2, HousedStill
  <2>10. QED  BY <2>6, <2>7, <2>8, <2>9 DEF LinkInv
<1>8. QED  BY <1>6, <1>7

(* The login or the connection is written, of a profile that is signed. *)
LEMMA SavesEitherLinks ==
    ASSUME LinkInv, CredentialsInv', NEW w \in Worker, NEW one \in {"login", "link"}, SavesEither(w, one)
    PROVE  LinkInv'
<1>1. PICK c \in Errand : c = errand[w] /\ c.linkDoc \in LinkDoc
  BY LinkTypes
<1> DEFINE M == [c EXCEPT !.left = c.left \ {one}]
           N == IF c.left = {one} THEN AtRest ELSE M
<1>2. /\ UNCHANGED <<profile, tangled>> /\ c.pc = "saves"
      /\ login' = login \/ login' = [login EXCEPT ![c.login].status = "COMPLETED"]
      /\ link' = link \/ link' = [link EXCEPT ![c.link] = c.linkDoc]
  BY <1>1 DEF SavesEither
<1>3. errand' = [errand EXCEPT ![w] = N]
  BY <1>1 DEF SavesEither, Finish
<1>4. M.op = c.op /\ M.link = c.link /\ M.pc = "saves" /\ M.linkDoc = c.linkDoc /\ M.login = c.login
  BY <1>2 DEF Errand
<1> HIDE DEF M
<1>5. c.op = "complete" /\ c.link \in Connection /\ c.login \in LoginsOf(c.link)
  BY <1>1, <1>2, HasLink DEF LinkErrands
<1>6. /\ link'[c.link] = link[c.link] \/ link'[c.link] = c.linkDoc
      /\ \A m \in Connection : m # c.link => link'[m] = link[m]
  BY <1>2, <1>5, LinkTypes
<1>7. \A l \in Login :
         /\ login'[l].link = login[l].link /\ login'[l].profile = login[l].profile
         /\ \/ login'[l].status = login[l].status
            \/ login'[l].status # "none" /\ login[l].link \in Connection
  <2>1. CASE login' = login
    BY <2>1
  <2>2. CASE login' = [login EXCEPT ![c.login].status = "COMPLETED"]
    <3> TAKE l \in Login
    <3>1. login[l] \in LoginDoc
      BY LinkTypes
    <3>2. login'[l] = IF l = c.login THEN [login[l] EXCEPT !.status = "COMPLETED"] ELSE login[l]
      BY <2>2, LinkTypes
    <3>3. QED  BY <1>5, <3>1, <3>2 DEF LoginDoc, LoginsOf
  <2>3. QED  BY <1>2, <2>1, <2>2
<1>8. N = AtRest \/ (N.link = c.link /\ N.linkDoc = c.linkDoc)
  BY <1>4
<1>9. HandsOn(N)' /\ ~Leaving(N)
  BY <1>4, <1>5, <1>7, RestLink DEF HandsOn, LinkErrands, Leaving, LoginsOf
<1>10. ASSUME c.link \notin tangled
       PROVE  /\ Kept(c.link)' /\ (N = AtRest \/ (Opens(N)' /\ Completes(N)' /\ Closes(N)'))
              /\ link'[c.link].profile = link[c.link].profile
  <2>1. Completes(c) /\ Kept(c.link)
    BY <1>1, <1>5, <1>10, Knows DEF Leaving
  <2>2. /\ c.linkDoc.profile = link[c.link].profile /\ c.linkDoc.status = "active"
        /\ c.linkDoc.profile # None /\ profile[c.linkDoc.profile] = "signed"
    BY <1>2, <1>5, <2>1 DEF Completes
  <2>3. link'[c.link].profile = link[c.link].profile /\ link'[c.link].status \in {"active", link[c.link].status}
    BY <1>6, <2>2
  <2>4. Kept(c.link)'
    BY <1>2, <1>7, <2>1, <2>2, <2>3 DEF Kept, Exists, LoginsOf
  <2>5. N = AtRest \/ (Opens(N)' /\ Completes(N)' /\ Closes(N)')
    BY <1>2, <1>4, <1>5, <2>2, <2>3 DEF Opens, Completes, Closes, Leaving
  <2>6. QED  BY <2>3, <2>4, <2>5
<1> HIDE DEF N
<1>11. /\ errand'[w] = N /\ \A v \in Worker : v # w => errand'[v] = errand[v]
       /\ Connected' /\ \A v \in Worker : HandsOn(errand[v])'
  <2>1. \A m \in Connection : LoginsOf(m)' = LoginsOf(m)
    BY <1>7 DEF LoginsOf
  <2>2. \A p \in Profile : profile'[p] = profile[p]
    BY <1>2
  <2>3. N = AtRest \/ N.link = c.link
    BY <1>8
  <2>4. c.link \notin tangled =>
          /\ ~Leaving(N) => Kept(c.link)'
          /\ N = AtRest \/ (Opens(N)' /\ Completes(N)' /\ Closes(N)')
    BY <1>10
  <2>5. tangled' = tangled
    BY <1>2
  <2>6. QED  BY <1>1, <1>3, <1>5, <1>6, <1>7, <1>9, <2>1, <2>2, <2>3, <2>4, <2>5, LinkActs
<1>12. OneName'
  BY <1>1, <1>2, <1>5, <1>6, <1>7, <1>8, <1>11, NamesStay
<1>13. Filed'
  <2>1. \A l \in Login : IF login'[l].status = "none"
                         THEN login'[l].link = None
                         ELSE login'[l].link \in Connection /\ login'[l].profile \in Profile
    BY <1>7, LinkTypes DEF LinkInv, Filed
  <2>2. QED  BY <1>11, <2>1 DEF Filed
<1>14. Housed'
  <2>1. \A p \in Profile : Exists(p)' => Exists(p)
    BY <1>2 DEF Exists
  <2>2. tangled \cap Connection = {} => \A n \in Connection : link'[n].profile = link[n].profile
    BY <1>5, <1>6, <1>10
  <2>3. \A v \in Worker, p \in Profile : Housing(errand[v], p) => Housing(errand[v], p)'
    BY <1>1, <1>5, <1>11 DEF Housing
  <2>4. QED  BY <1>2, <2>1, <2>2, <2>3, HousedStill
<1>15. QED  BY <1>11, <1>12, <1>13, <1>14 DEF LinkInv

(* The profile of a connection that is revoked is deleted. *)
LEMMA DeletesProfileLinks ==
    ASSUME LinkInv, CredentialsInv', NEW w \in Worker, DeletesProfile(w)
    PROVE  LinkInv'
<1>1. PICK c \in Errand : c = errand[w] /\ c.linkDoc.profile \in Profile \cup {None}
  BY LinkTypes
<1> DEFINE d == [status |-> "revoked", profile |-> None]
           N == [c EXCEPT !.pc = "savelink", !.linkDoc = d]
<1>2. /\ UNCHANGED <<link, login, tangled>> /\ c.pc = "delete"
      /\ profile' = [p \in Profile |-> IF p = c.linkDoc.profile THEN "deleted" ELSE profile[p]]
  BY <1>1 DEF DeletesProfile
<1>3. errand' = [errand EXCEPT ![w] = N]
  BY <1>1 DEF DeletesProfile
<1>4. N.op = c.op /\ N.link = c.link /\ N.pc = "savelink" /\ N.linkDoc = d /\ N.linkDoc.profile = None
  BY DEF Errand
<1> HIDE DEF N
<1>5. c.op = "disconnect" /\ c.link \in Connection
  BY <1>1, <1>2, HasLink DEF LinkErrands
<1>6. \A p \in Profile : /\ p = c.linkDoc.profile => profile'[p] = "deleted"
                         /\ p # c.linkDoc.profile => profile'[p] = profile[p]
  BY <1>2
<1>7. HandsOn(N)' /\ Leaving(N)
  BY <1>4, <1>5 DEF HandsOn, LinkErrands, Leaving
<1>8. c.link \notin tangled => Opens(N)' /\ Completes(N)' /\ Closes(N)'
  <2> SUFFICES ASSUME c.link \notin tangled PROVE Opens(N)' /\ Completes(N)' /\ Closes(N)'
    OBVIOUS
  <2>1. Closes(c) /\ Kept(c.link)
    BY <1>1, <1>2, <1>5, Knows DEF Leaving
  <2>2. c.linkDoc = link[c.link]
    BY <1>2, <1>5, <2>1 DEF Closes
  <2>3. \A l \in LoginsOf(c.link) : login[l].profile \in Profile
    BY <1>5, LinkTypes DEF LinkInv, Filed, LoginsOf
  <2>4. link[c.link].profile # None => profile'[link[c.link].profile] = "deleted"
    BY <1>1, <1>6, <2>2
  <2>5. \A l \in LoginsOf(c.link) : profile'[login[l].profile] = "deleted"
    BY <1>6, <2>1, <2>2, <2>3 DEF Kept
  <2>6. Closes(N)'
    BY <1>2, <1>4, <1>5, <2>4, <2>5 DEF Closes, Leaving, LoginsOf
  <2>7. QED  BY <1>4, <1>5, <2>6 DEF Opens, Completes
<1> HIDE DEF d
<1>9. /\ errand'[w] = N /\ \A v \in Worker : v # w => errand'[v] = errand[v]
      /\ Connected' /\ \A v \in Worker : HandsOn(errand[v])'
  <2>1. \A p \in Profile : profile'[p] # profile[p] => Names(c.link, p)
    BY <1>1, <1>6 DEF Names
  <2>2. QED  BY <1>1, <1>2, <1>3, <1>4, <1>5, <1>7, <1>8, <2>1, LinkActs DEF LoginsOf
<1>10. OneName'
  BY <1>1, <1>2, <1>4, <1>5, <1>6, <1>9, NamesStay
<1>11. Filed'
  BY <1>2, <1>9 DEF LinkInv, Filed
<1>12. Housed'
  <2>1. \A p \in Profile : Exists(p)' => Exists(p)
    BY <1>6 DEF Exists
  <2>2. \A v \in Worker, p \in Profile : Housing(errand[v], p) => Housing(errand[v], p)'
    BY <1>1, <1>5, <1>9 DEF Housing
  <2>3. QED  BY <1>2, <2>1, <2>2, HousedStill
<1>13. QED  BY <1>9, <1>10, <1>11, <1>12 DEF LinkInv

(* Nothing is connected in the beginning. *)
LEMMA LinkInit == Init_C => LinkInv
<1> SUFFICES ASSUME Init_C PROVE LinkInv
  OBVIOUS
<1>1. /\ link = [n \in Connection |-> NoLink] /\ errand = [w \in Worker |-> AtRest]
      /\ login = [l \in Login |-> [status |-> "none", link |-> None, profile |-> None]]
      /\ profile = [p \in Profile |-> "none"] /\ NoLink.profile = None /\ NoLink.status = "none"
  BY DEF Init_C, NoLink
<1>2. None \notin Profile /\ None \notin Connection
  BY CredentialsAssumption
<1>3. \A l \in Login : login[l].status = "none" /\ login[l].link = None /\ login[l].profile = None
  BY <1>1
<1>4. Filed
  BY <1>1, <1>3, RestLink DEF Filed, HandsOn
<1>5. \A n \in Connection, p \in Profile : ~Names(n, p)
  BY <1>1, <1>2, <1>3, RestLink DEF Names, LoginsOf
<1>6. OneName
  BY <1>5 DEF OneName
<1>7. Connected
  <2>1. \A w \in Worker : errand[w].link \notin Connection
    BY <1>1, <1>2, RestLink
  <2>2. \A n \in Connection : Kept(n)
    BY <1>1, <1>2, <1>3 DEF Kept, LoginsOf
  <2>3. QED  BY <2>1, <2>2 DEF Connected, Sound
<1>8. Housed
  BY <1>1 DEF Housed, Exists
<1>9. QED  BY <1>4, <1>6, <1>7, <1>8, CredentialsInit DEF LinkInv

(* Every step keeps the invariant of connections. *)
LEMMA LinkKept == LinkInv /\ [Next_C]_vars_C => LinkInv'
<1> SUFFICES ASSUME LinkInv, [Next_C]_vars_C PROVE LinkInv'
  OBVIOUS
<1>1. CredentialsInv'
  BY CredentialsStep DEF LinkInv
<1>2. CASE UNCHANGED vars_C
  BY <1>1, <1>2, LinkEnds
<1>3. CASE \/ \E w \in Worker, b \in Browser \cup {NoBrowser} : Authorizes(w, b)
           \/ \E w \in Worker, k \in Code : Exchanges(w, k)
           \/ \E w \in Worker, t \in Token : Beats(w, t)
           \/ \E w \in Worker, g \in Agent : RevokesAgent(w, g)
           \/ \E w \in Worker, s \in Secret, v \in Value : Creates(w, s, v) \/ Rotates(w, s, v)
           \/ \E w \in Worker, s \in Secret : Deletes(w, s)
  BY <1>1, <1>3, OtherRequests
<1>4. CASE \/ \E w \in Worker : ScansTokens(w) \/ SavesAgent(w) \/ UsesCode(w) \/ PassesGate(w) \/ ReadsAgent(w)
           \/ \E w \in Worker, t \in Token : Supersedes(w, t) \/ PutsToken(w, t)
           \/ \E w \in Worker, k \in Code : PutsCode(w, k)
           \/ \E w \in Worker : StoresValue(w) \/ SavesRecord(w) \/ DropsValue(w) \/ DropsRecord(w)
  BY <1>1, <1>4, OtherSteps
<1>5. CASE \/ \E k \in Code : CodeLapses(k)
           \/ \E l \in Login : LoginLapses(l)
           \/ \E w \in Worker : Abandons(w) \/ DeleteRefused(w)
  BY <1>1, <1>5, LinkEnds
<1>6. CASE \/ \E w \in Worker, n \in Connection : StartsLogin(w, n) \/ Disconnects(w, n)
           \/ \E w \in Worker, n \in Connection, l \in Login : CompletesLogin(w, n, l)
  BY <1>1, <1>6, LinkAsked
<1>7. CASE \/ \E n \in Connection : Connects(n)
           \/ \E w \in Worker, p \in Profile : CreatesProfile(w, p)
           \/ \E w \in Worker, l \in Login : SavesLogin(w, l)
  BY <1>1, <1>7, ConnectsLinks, CreatesProfileLinks, SavesLoginLinks
<1>8. CASE \/ \E w \in Worker : SavesLink(w) \/ SavesProfile(w) \/ DeletesProfile(w)
           \/ \E w \in Worker, one \in {"login", "link"} : SavesEither(w, one)
  BY <1>1, <1>8, SavesLinkLinks, SavesProfileLinks, DeletesProfileLinks, SavesEitherLinks
<1>9. QED  BY <1>2, <1>3, <1>4, <1>5, <1>6, <1>7, <1>8 DEF Next_C

LEMMA LinkInvariant == Spec_C => []LinkInv
BY LinkInit, LinkKept, PTL DEF Spec_C

(* completeBrowserLogin, revokeBrowserConnection: a connection shown as    *)
(* active has a profile that somebody signed in to, and that was not       *)
(* deleted, unless two requests met there or one died.                     *)
THEOREM ActiveHasLogin == Spec_C => []ActiveSignedIn
<1>1. LinkInv => ActiveSignedIn
  <2> SUFFICES ASSUME LinkInv, NEW n \in Connection \ tangled, link[n].status = "active",
                      n \notin {errand[w].link : w \in Running}
               PROVE  link[n].profile # None /\ profile[link[n].profile] = "signed"
    BY DEF ActiveSignedIn
  <2>1. \A w \in Worker : errand[w].link # n
    <3> TAKE w \in Worker
    <3>1. CASE w \in Running
      BY <3>1
    <3>2. CASE w \notin Running
      BY <3>2, InHand, RestLink, LinkTypes DEF Running, LinkInv
    <3>3. QED  BY <3>1, <3>2
  <2>2. Kept(n)
    BY <2>1 DEF LinkInv, Connected, Sound
  <2>3. QED  BY <2>2 DEF Kept
<1>2. QED  BY <1>1, LinkInvariant, PTL

(* startBrowserLogin, revokeBrowserConnection: once every request has      *)
(* ended, every profile at the browser service is named by a connection    *)
(* that was not revoked, if no two requests met at one and none died.      *)
THEOREM NoneLeftBehind == Spec_C => []NoProfileLeft
<1>1. LinkInv => NoProfileLeft
  <2> SUFFICES ASSUME LinkInv, Running = {}, tangled \cap Connection = {}, NEW p \in Profile,
                      profile[p] \in {"blank", "signed"}
               PROVE  \E n \in Connection : link[n].profile = p /\ link[n].status # "revoked"
    BY DEF NoProfileLeft
  <2>1. \A w \in Worker : errand[w] = AtRest
    BY InHand DEF Running, LinkInv
  <2>2. \A w \in Worker : ~Housing(errand[w], p) /\ ~Leaving(errand[w])
    BY <2>1, RestLink DEF Housing, Leaving, LinkErrands
  <2>3. PICK n \in Connection : link[n].profile = p
    BY <2>2 DEF LinkInv, Housed, Exists
  <2>4. Kept(n)
    BY <2>2 DEF LinkInv, Connected, Sound
  <2>5. QED  BY <2>3, <2>4, LinkTypes DEF Kept
<1>2. QED  BY <1>1, LinkInvariant, PTL
=============================================================================

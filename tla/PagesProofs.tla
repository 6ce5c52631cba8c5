----------------------------- MODULE PagesProofs -----------------------------
(* Sessions and Resources, for every number of tabs, requests, sign-ins,   *)
(* resources and reads: their types, alone and side by side; that a        *)
(* signed-out session does not come back; that a page never goes back.     *)
EXTENDS MCPages, TLAPS

(* Every session that is held anywhere was begun by a sign-in.             *)
Begun ==
    /\ stored.by # 0 => minted_S[stored.by] # 0
    /\ \A t \in Tab : tab[t].session.by # 0 => minted_S[tab[t].session.by] # 0
    /\ \A f \in Fetch : fetch[f].session.by # 0 => minted_S[fetch[f].session.by] # 0
    /\ \A g \in left : minted_S[g] # 0

(* Who renews, revokes or asks does so with a session.                     *)
Named ==
    /\ stored # NoSession => stored.by # 0
    /\ \A t \in Tab : tab[t].at \notin {"away", "leaving"} => tab[t].session.by # 0
    /\ \A f \in Fetch : fetch[f] # NoFetch => fetch[f].pc # "idle" /\ fetch[f].session.by # 0

(* What a page asked for, it asked for under the sign-in it still shows.   *)
Loyal == \A f \in Fetch : \A t \in Tab :
            fetch[f].tab = t /\ Runs(t) => fetch[f].session.by = tab[t].session.by

(* A sign-in that is over, but for the last write of the page: its refresh *)
(* token is revoked, and no renewal of it is on its way.                   *)
Over(g) ==
    g \notin raced /\ (g \in left \/ \E t \in Tab : tab[t].at = "clear" /\ tab[t].session.by = g)
Ended   == \A g \in SignIn : Over(g) => g \in revoked_S /\ ~Granted(g)

SessionsInv == SessionsTypeOK /\ Begun /\ Named /\ Loyal /\ Ended /\ SignedOutStays

(* The bounds, without the surfaces. *)
LEMMA Bounds == MaxSignIns \in Nat /\ MaxTokens \in Nat \ {0} /\ 0 \notin Tab /\ 0 \notin SignIn
BY SessionsAssumption DEF SignIn

(* No session is a session. *)
LEMMA NoSessionType == NoSession \in Session /\ NoSession.by = 0
BY Bounds DEF NoSession, Session

(* A session that is held anywhere is of a sign-in, or of none. *)
LEMMA Sources ==
    ASSUME SessionsTypeOK
    PROVE  /\ stored.by \in SignIn \cup {0} /\ left \subseteq SignIn
           /\ \A t \in Tab : tab[t].session \in Session /\ tab[t].session.by \in SignIn \cup {0}

     /\ \A f \in Fetch : fetch[f].session \in Session /\ fetch[f].session.by \in SignIn \cup {0}
<1>1. \A s \in Session : s.by \in SignIn \cup {0}
  BY Bounds DEF Session, SignIn
<1>2. \A t \in Tab : tab[t].session \in Session
  BY DEF SessionsTypeOK, TabDoc
<1>3. \A f \in Fetch : fetch[f].session \in Session
  BY DEF SessionsTypeOK, Call_S
<1>4. stored \in Session /\ left \subseteq SignIn
  BY DEF SessionsTypeOK
<1>5. QED  BY <1>1, <1>2, <1>3, <1>4

(* A renewal: an id token more, of a sign-in that was begun. *)
LEMMA Renews ==
    ASSUME SessionsTypeOK, NEW g \in SignIn, Mints(g)
    PROVE  /\ \A x \in SignIn : minted_S[x] # 0 => minted_S'[x] # 0
           /\ minted_S' \in [SignIn -> 0..MaxTokens] /\ lapsed_S' \in [SignIn -> 0..MaxTokens]
           /\ minted_S'[g] \in 0..MaxTokens
<1>1. minted_S[g] \in 0..MaxTokens /\ lapsed_S[g] \in 0..MaxTokens
  BY DEF SessionsTypeOK
<1>2. (IF minted_S[g] < MaxTokens THEN minted_S[g] + 1 ELSE minted_S[g]) \in 1..MaxTokens
  BY <1>1, Bounds
<1>3. (IF lapsed_S[g] < MaxTokens THEN lapsed_S[g] ELSE MaxTokens - 1) \in 0..MaxTokens
  BY <1>1, Bounds
<1>4. minted_S' = [minted_S EXCEPT
                     ![g] = IF minted_S[g] < MaxTokens THEN minted_S[g] + 1 ELSE minted_S[g]]
  BY DEF Mints
<1>5. lapsed_S' = [lapsed_S EXCEPT
                     ![g] = IF lapsed_S[g] < MaxTokens THEN lapsed_S[g] ELSE MaxTokens - 1]
  BY DEF Mints
<1>6. minted_S' \in [SignIn -> 0..MaxTokens] /\ lapsed_S' \in [SignIn -> 0..MaxTokens]
  BY <1>2, <1>3, <1>4, <1>5, Bounds DEF SessionsTypeOK
<1>7. \A x \in SignIn : minted_S'[x] = IF x # g THEN minted_S[x]
                        ELSE IF minted_S[g] < MaxTokens THEN minted_S[g] + 1 ELSE minted_S[g]
  BY <1>4 DEF SessionsTypeOK
<1>8. QED  BY <1>1, <1>2, <1>6, <1>7, Bounds

(* A sign-in begins what nobody has left. *)
LEMMA SignsInAtStep ==
    ASSUME SessionsInv, NEW t \in Tab, SignsInAt(t)
    PROVE  SessionsInv'
<1>1. SessionsTypeOK /\ Housed /\ Begun /\ Named /\ Loyal /\ Ended /\ SignedOutStays
  BY DEF SessionsInv, SessionsTypeOK
<1>2. /\ tab[t] \in TabDoc
      /\ stored \in Session
  BY <1>1 DEF SessionsTypeOK, Housed, NoFetch, SignsInAt
<1>3. /\ stored' \in Session /\ stored'.by \in SignIn /\ stored'.by # 0
      /\ minted_S[stored'.by] = 0 /\ minted_S'[stored'.by] = 1
      /\ \A x \in SignIn : minted_S[x] # 0 => minted_S'[x] # 0
      /\ minted_S' \in [SignIn -> 0..MaxTokens] /\ lapsed_S' \in [SignIn -> 0..MaxTokens]
  <2>1. PICK g \in SignIn : /\ \A h \in 1..g : (minted_S[h] = 0) <=> (h = g)
                           /\ minted_S' = [minted_S EXCEPT ![g] = 1]
                           /\ stored' = [by |-> g, age |-> 1]
    BY DEF SignsInAt
  <2>2. lapsed_S' = lapsed_S
    BY DEF SignsInAt
  <2>3. g \in 1..g /\ g \in 0..MaxSignIns /\ g # 0 /\ 1 \in 0..MaxTokens
    BY Bounds DEF SignIn
  <2>4. minted_S[g] = 0
    BY <2>1, <2>3
  <2>5. /\ minted_S' \in [SignIn -> 0..MaxTokens] /\ minted_S'[g] = 1
        /\ \A x \in SignIn \ {g} : minted_S'[x] = minted_S[x]
    BY <1>1, <2>1, <2>3 DEF SessionsTypeOK
  <2>6. stored' \in Session /\ stored'.by = g
    BY <2>1, <2>3 DEF Session
  <2>7. QED  BY <1>1, <2>2, <2>3, <2>4, <2>5, <2>6 DEF SessionsTypeOK
<1>4. /\ UNCHANGED <<lapsed_S, revoked_S, tab, fetch, left, raced>>
      /\ surface' \in Surface /\ fetched' \in Nat
  BY <1>1 DEF SessionsTypeOK, clock_S, SignsInAt
<1>5. Housed'
  BY <1>1, <1>2, <1>4, Bounds DEF Housed, Away
<1>6. SessionsTypeOK'
  BY <1>1, <1>2, <1>3, <1>4, <1>5, NoSessionType DEF SessionsTypeOK
<1>7. Begun'
  BY <1>1, <1>2, <1>3, <1>4, Bounds, Sources DEF Begun, Away, NoFetch, NoSession
<1>8. Named'
  BY <1>1, <1>2, <1>3, <1>4, Bounds DEF Named, Away
<1>9. Loyal'
  BY <1>1, <1>2, <1>4, Bounds DEF Loyal, Runs, Away, NoFetch, Housed
<1>10. Ended'
  BY <1>1, <1>2, <1>3, <1>4 DEF Ended, Over, Granted, Loyal, Runs, Named, Begun, Away, NoFetch
<1>11. SignedOutStays'
  BY <1>1, <1>2, <1>3, <1>4, <1>6, Bounds, Sources DEF SignedOutStays, Ended, Over, Granted,
     Begun, Named
<1>12. QED  BY <1>6, <1>7, <1>8, <1>9, <1>10, <1>11 DEF SessionsInv

(* A page opens with the session that is stored, which is not over. *)
LEMMA OpensStep ==
    ASSUME SessionsInv, NEW t \in Tab, Opens(t)
    PROVE  SessionsInv'
<1>1. SessionsTypeOK /\ Housed /\ Begun /\ Named /\ Loyal /\ Ended /\ SignedOutStays
  BY DEF SessionsInv, SessionsTypeOK
<1>2. /\ tab[t] \in TabDoc
      /\ stored \in Session
  BY <1>1 DEF SessionsTypeOK, Housed, NoFetch, Opens
<1>3. /\ tab[t] = Away
      /\ stored # NoSession
      /\ tab'[t].at = "gate" \/ tab'[t].at = "open"
      /\ tab'[t].session = stored
      /\ \A x \in Tab : x # t => tab'[x] = tab[x]
      /\ tab' \in [Tab -> TabDoc]
  BY <1>1, <1>2, Sources, NoSessionType DEF SessionsTypeOK, TabDoc, Goes, Session, NoSession,
     Away, NoFetch, Opens
<1>4. /\ UNCHANGED <<stored, minted_S, lapsed_S, revoked_S, fetch, left, raced>>
      /\ surface' \in Surface /\ fetched' \in Nat
  BY <1>1 DEF SessionsTypeOK, clock_S, Opens
<1>5. Housed'
  BY <1>1, <1>2, <1>3, <1>4, Bounds DEF Housed, Away
<1>6. SessionsTypeOK'
  BY <1>1, <1>2, <1>3, <1>4, <1>5, NoSessionType DEF SessionsTypeOK
<1>7. Begun'
  BY <1>1, <1>2, <1>3, <1>4, Bounds, Sources DEF Begun, Away, NoFetch, NoSession
<1>8. Named'
  BY <1>1, <1>2, <1>3, <1>4, Bounds DEF Named, Away
<1>9. Loyal'
  BY <1>1, <1>2, <1>3, <1>4, Bounds DEF Loyal, Runs, Away, NoFetch, Housed
<1>10. Ended'
  BY <1>1, <1>2, <1>3, <1>4 DEF Ended, Over, Granted, Loyal, Runs, Named, Begun, Away, NoFetch
<1>11. SignedOutStays'
  BY <1>1, <1>2, <1>3, <1>4, <1>6, Bounds, Sources DEF SignedOutStays, Ended, Over, Granted,
     Begun, Named
<1>12. QED  BY <1>6, <1>7, <1>8, <1>9, <1>10, <1>11 DEF SessionsInv

(* The provider renews no session that was revoked. *)
LEMMA GateMintsStep ==
    ASSUME SessionsInv, NEW t \in Tab, GateMints(t)
    PROVE  SessionsInv'
<1>1. SessionsTypeOK /\ Housed /\ Begun /\ Named /\ Loyal /\ Ended /\ SignedOutStays
  BY DEF SessionsInv, SessionsTypeOK
<1>2. /\ tab[t] \in TabDoc
      /\ stored \in Session
  BY <1>1 DEF SessionsTypeOK, Housed, NoFetch, GateMints
<1>3. Mints(tab[t].session.by)
  BY DEF GateMints
<1>4. tab[t].at = "gate"
  BY <1>1, <1>2 DEF NoFetch, GateMints
<1>5. /\ tab[t].session.by \in SignIn
      /\ tab[t].session.by \notin revoked_S
  BY <1>1, <1>2, <1>3, <1>4, Bounds, NoSessionType, Sources DEF SessionsTypeOK, Named, NoFetch,
     Away, Mints
<1>6. /\ \A x \in SignIn : minted_S[x] # 0 => minted_S'[x] # 0
      /\ minted_S' \in [SignIn -> 0..MaxTokens]
      /\ lapsed_S' \in [SignIn -> 0..MaxTokens]
      /\ minted_S'[tab[t].session.by] \in 0..MaxTokens
  BY <1>1, <1>3, <1>5, Renews
<1>7. /\ tab[t].at = "gate"
      /\ tab'[t].at = "minted"
      /\ tab'[t].session.by = tab[t].session.by
      /\ \A x \in Tab : x # t => tab'[x] = tab[x]
      /\ tab' \in [Tab -> TabDoc]
  BY <1>1, <1>2, <1>5, <1>6, Sources, NoSessionType DEF SessionsTypeOK, TabDoc, Goes, Session,
     NoSession, Away, NoFetch, GateMints
<1>8. /\ UNCHANGED <<stored, revoked_S, fetch, left, raced>>
      /\ surface' \in Surface /\ fetched' \in Nat
  BY <1>1 DEF SessionsTypeOK, clock_S, GateMints
<1>9. Housed'
  BY <1>1, <1>2, <1>7, <1>8, Bounds DEF Housed, Away
<1>10. SessionsTypeOK'
  BY <1>1, <1>2, <1>5, <1>6, <1>7, <1>8, <1>9, NoSessionType DEF SessionsTypeOK
<1>11. Begun'
  BY <1>1, <1>2, <1>5, <1>6, <1>7, <1>8, Bounds, Sources DEF Begun, Away, NoFetch, NoSession
<1>12. Named'
  BY <1>1, <1>2, <1>5, <1>7, <1>8, Bounds DEF Named, Away
<1>13. Loyal'
  BY <1>1, <1>2, <1>7, <1>8, Bounds DEF Loyal, Runs, Away, NoFetch, Housed
<1>14. Ended'
  BY <1>1, <1>2, <1>5, <1>6, <1>7, <1>8 DEF Ended, Over, Granted, Loyal, Runs, Named, Begun,
     Away, NoFetch
<1>15. SignedOutStays'
  BY <1>1, <1>2, <1>5, <1>7, <1>8, <1>10, Bounds, Sources DEF SignedOutStays, Ended, Over,
     Granted, Begun, Named
<1>16. QED  BY <1>10, <1>11, <1>12, <1>13, <1>14, <1>15 DEF SessionsInv

(* The gate stores a session whose renewal was on its way. *)
LEMMA GateOpensStep ==
    ASSUME SessionsInv, NEW t \in Tab, GateOpens(t)
    PROVE  SessionsInv'
<1>1. SessionsTypeOK /\ Housed /\ Begun /\ Named /\ Loyal /\ Ended /\ SignedOutStays
  BY DEF SessionsInv, SessionsTypeOK
<1>2. /\ tab[t] \in TabDoc
      /\ stored \in Session
  BY <1>1 DEF SessionsTypeOK, Housed, NoFetch, GateOpens
<1>3. /\ stored' = tab[t].session
      /\ stored' \in Session
      /\ stored'.by \in SignIn
  BY <1>1, <1>2, Bounds, NoSessionType, Sources DEF SessionsTypeOK, Named, NoFetch, GateOpens, Away
<1>4. /\ tab[t].at = "minted"
      /\ tab'[t].at = "open"
      /\ tab'[t].session = tab[t].session
      /\ \A x \in Tab : x # t => tab'[x] = tab[x]
      /\ tab' \in [Tab -> TabDoc]
  BY <1>1, <1>2, <1>3, Sources, NoSessionType DEF SessionsTypeOK, TabDoc, Goes, Session,
     NoSession, Away, NoFetch, GateOpens
<1>5. /\ UNCHANGED <<minted_S, lapsed_S, revoked_S, fetch, left, raced>>
      /\ surface' \in Surface /\ fetched' \in Nat
  BY <1>1 DEF SessionsTypeOK, clock_S, GateOpens
<1>6. Housed'
  BY <1>1, <1>2, <1>4, <1>5, Bounds DEF Housed, Away
<1>7. SessionsTypeOK'
  BY <1>1, <1>2, <1>3, <1>4, <1>5, <1>6, NoSessionType DEF SessionsTypeOK
<1>8. Begun'
  BY <1>1, <1>2, <1>3, <1>4, <1>5, Bounds, Sources DEF Begun, Away, NoFetch, NoSession
<1>9. Named'
  BY <1>1, <1>2, <1>3, <1>4, <1>5, Bounds DEF Named, Away
<1>10. Loyal'
  BY <1>1, <1>2, <1>4, <1>5, Bounds DEF Loyal, Runs, Away, NoFetch, Housed
<1>11. Ended'
  BY <1>1, <1>2, <1>3, <1>4, <1>5 DEF Ended, Over, Granted, Loyal, Runs, Named, Begun, Away, NoFetch
<1>12. SignedOutStays'
  BY <1>1, <1>2, <1>3, <1>4, <1>5, <1>7, Bounds, Sources DEF SignedOutStays, Ended, Over,
     Granted, Begun, Named
<1>13. QED  BY <1>7, <1>8, <1>9, <1>10, <1>11, <1>12 DEF SessionsInv

(* The gate removes what it may not renew. *)
LEMMA GateRefusedStep ==
    ASSUME SessionsInv, NEW t \in Tab, GateRefused(t)
    PROVE  SessionsInv'
<1>1. SessionsTypeOK /\ Housed /\ Begun /\ Named /\ Loyal /\ Ended /\ SignedOutStays
  BY DEF SessionsInv, SessionsTypeOK
<1>2. /\ tab[t] \in TabDoc
      /\ stored \in Session
  BY <1>1 DEF SessionsTypeOK, Housed, NoFetch, GateRefused
<1>3. /\ stored' = NoSession
      /\ stored' \in Session
      /\ stored'.by = 0
  BY <1>1, <1>2, Bounds, NoSessionType, Sources DEF SessionsTypeOK, Named, NoFetch, GateRefused,
     Away
<1>4. /\ tab[t].at = "gate"
      /\ tab'[t] = Away
      /\ \A x \in Tab : x # t => tab'[x] = tab[x]
      /\ tab' \in [Tab -> TabDoc]
  BY <1>1, <1>2, <1>3, Sources, NoSessionType DEF SessionsTypeOK, TabDoc, Goes, Session,
     NoSession, Away, NoFetch, GateRefused
<1>5. /\ UNCHANGED <<minted_S, lapsed_S, revoked_S, fetch, left, raced>>
      /\ surface' \in Surface /\ fetched' \in Nat
  BY <1>1 DEF SessionsTypeOK, clock_S, GateRefused
<1>6. Housed'
  BY <1>1, <1>2, <1>4, <1>5, Bounds DEF Housed, Away
<1>7. SessionsTypeOK'
  BY <1>1, <1>2, <1>3, <1>4, <1>5, <1>6, NoSessionType DEF SessionsTypeOK
<1>8. Begun'
  BY <1>1, <1>2, <1>3, <1>4, <1>5, Bounds, Sources DEF Begun, Away, NoFetch, NoSession
<1>9. Named'
  BY <1>1, <1>2, <1>3, <1>4, <1>5, Bounds DEF Named, Away
<1>10. Loyal'
  BY <1>1, <1>2, <1>4, <1>5, Bounds DEF Loyal, Runs, Away, NoFetch, Housed
<1>11. Ended'
  BY <1>1, <1>2, <1>3, <1>4, <1>5 DEF Ended, Over, Granted, Loyal, Runs, Named, Begun, Away, NoFetch
<1>12. SignedOutStays'
  BY <1>1, <1>2, <1>3, <1>4, <1>5, <1>7, Bounds, Sources DEF SignedOutStays, Ended, Over,
     Granted, Begun, Named
<1>13. QED  BY <1>7, <1>8, <1>9, <1>10, <1>11, <1>12 DEF SessionsInv

(* A sign-out starts. *)
LEMMA SignsOutStep ==
    ASSUME SessionsInv, NEW t \in Tab, SignsOut(t)
    PROVE  SessionsInv'
<1>1. SessionsTypeOK /\ Housed /\ Begun /\ Named /\ Loyal /\ Ended /\ SignedOutStays
  BY DEF SessionsInv, SessionsTypeOK
<1>2. /\ tab[t] \in TabDoc
      /\ stored \in Session
  BY <1>1 DEF SessionsTypeOK, Housed, NoFetch, SignsOut
<1>3. /\ tab[t].at = "open"
      /\ tab'[t].at = "revoke"
      /\ tab'[t].session = tab[t].session
      /\ \A x \in Tab : x # t => tab'[x] = tab[x]
      /\ tab' \in [Tab -> TabDoc]
  BY <1>1, <1>2, Sources, NoSessionType DEF SessionsTypeOK, TabDoc, Goes, Session, NoSession,
     Away, NoFetch, SignsOut
<1>4. /\ UNCHANGED <<stored, minted_S, lapsed_S, revoked_S, fetch, left, raced>>
      /\ surface' \in Surface /\ fetched' \in Nat
  BY <1>1 DEF SessionsTypeOK, clock_S, SignsOut
<1>5. Housed'
  BY <1>1, <1>2, <1>3, <1>4, Bounds DEF Housed, Away
<1>6. SessionsTypeOK'
  BY <1>1, <1>2, <1>3, <1>4, <1>5, NoSessionType DEF SessionsTypeOK
<1>7. Begun'
  BY <1>1, <1>2, <1>3, <1>4, Bounds, Sources DEF Begun, Away, NoFetch, NoSession
<1>8. Named'
  BY <1>1, <1>2, <1>3, <1>4, Bounds DEF Named, Away
<1>9. Loyal'
  BY <1>1, <1>2, <1>3, <1>4, Bounds DEF Loyal, Runs, Away, NoFetch, Housed
<1>10. Ended'
  BY <1>1, <1>2, <1>3, <1>4 DEF Ended, Over, Granted, Loyal, Runs, Named, Begun, Away, NoFetch
<1>11. SignedOutStays'
  BY <1>1, <1>2, <1>3, <1>4, <1>6, Bounds, Sources DEF SignedOutStays, Ended, Over, Granted,
     Begun, Named
<1>12. QED  BY <1>6, <1>7, <1>8, <1>9, <1>10, <1>11 DEF SessionsInv

(* From the revocation on, the sign-in is over, or raced. *)
LEMMA RevokesTokenStep ==
    ASSUME SessionsInv, NEW t \in Tab, RevokesToken(t)
    PROVE  SessionsInv'
<1>1. SessionsTypeOK /\ Housed /\ Begun /\ Named /\ Loyal /\ Ended /\ SignedOutStays
  BY DEF SessionsInv, SessionsTypeOK
<1>2. /\ tab[t] \in TabDoc
      /\ stored \in Session
  BY <1>1 DEF SessionsTypeOK, Housed, NoFetch, RevokesToken
<1>3. /\ revoked_S \subseteq revoked_S' /\ revoked_S' \subseteq SignIn
      /\ raced \subseteq raced' /\ raced' \subseteq SignIn
      /\ \A x \in SignIn : x \in raced' \/ (x \in revoked_S' /\ ~Granted(x)) 
  BY <1>1, <1>2, Bounds, NoSessionType, Sources DEF SignIn, SessionsTypeOK, Named, RevokesToken
<1>4. /\ tab[t].at = "revoke"
      /\ tab'[t].at = "clear"
      /\ tab'[t].session = tab[t].session
      /\ \A x \in Tab : x # t => tab'[x] = tab[x]
      /\ tab' \in [Tab -> TabDoc]
  BY <1>1, <1>2, <1>3, Sources, NoSessionType DEF SessionsTypeOK, TabDoc, Goes, Session,
     NoSession, Away, NoFetch, RevokesToken
<1>5. /\ UNCHANGED <<stored, minted_S, lapsed_S, fetch, left>>
      /\ surface' \in Surface /\ fetched' \in Nat
  BY <1>1 DEF SessionsTypeOK, clock_S, RevokesToken
<1>6. Housed'
  BY <1>1, <1>2, <1>4, <1>5, Bounds DEF Housed, Away
<1>7. SessionsTypeOK'
  BY <1>1, <1>2, <1>3, <1>4, <1>5, <1>6, NoSessionType DEF SessionsTypeOK
<1>8. Begun'
  BY <1>1, <1>4, <1>5, Bounds, Sources DEF Begun, Away, NoFetch, NoSession
<1>9. Named'
  BY <1>1, <1>2, <1>4, <1>5, Bounds DEF Named, Away
<1>10. Loyal'
  BY <1>1, <1>2, <1>4, <1>5, Bounds DEF Loyal, Runs, Away, NoFetch, Housed
<1>11. Ended'
  BY <1>1, <1>2, <1>3, <1>4, <1>5 DEF Ended, Over, Granted, Loyal, Runs, Named, Begun, Away, NoFetch
<1>12. SignedOutStays'
  BY <1>1, <1>2, <1>3, <1>4, <1>5, <1>7, Bounds, Sources DEF SignedOutStays, Ended, Over,
     Granted, Begun, Named
<1>13. QED  BY <1>7, <1>8, <1>9, <1>10, <1>11, <1>12 DEF SessionsInv

(* The page clears a sign-in that is over. *)
LEMMA ClearsSessionStep ==
    ASSUME SessionsInv, NEW t \in Tab, ClearsSession(t)
    PROVE  SessionsInv'
<1>1. SessionsTypeOK /\ Housed /\ Begun /\ Named /\ Loyal /\ Ended /\ SignedOutStays
  BY DEF SessionsInv, SessionsTypeOK
<1>2. /\ tab[t] \in TabDoc
      /\ stored \in Session
  BY <1>1 DEF SessionsTypeOK, Housed, NoFetch, ClearsSession
<1>3. /\ stored' = NoSession
      /\ stored' \in Session
      /\ stored'.by = 0
      /\ tab[t].session.by \in SignIn
      /\ left' = left \cup {tab[t].session.by}
  BY <1>1, <1>2, Bounds, NoSessionType, Sources DEF SessionsTypeOK, Named, NoFetch,
     ClearsSession, Away
<1>4. /\ tab[t].at = "clear"
      /\ tab'[t].at = "leaving"
      /\ tab'[t].session = NoSession
      /\ \A x \in Tab : x # t => tab'[x] = tab[x]
      /\ tab' \in [Tab -> TabDoc]
  BY <1>1, <1>2, <1>3, Sources, NoSessionType DEF SessionsTypeOK, TabDoc, Goes, Session,
     NoSession, Away, NoFetch, ClearsSession
<1>5. /\ UNCHANGED <<minted_S, lapsed_S, revoked_S, fetch, raced>>
      /\ surface' \in Surface /\ fetched' \in Nat
  BY <1>1 DEF SessionsTypeOK, clock_S, ClearsSession
<1>6. Housed'
  BY <1>1, <1>2, <1>4, <1>5, Bounds DEF Housed, Away
<1>7. SessionsTypeOK'
  BY <1>1, <1>2, <1>3, <1>4, <1>5, <1>6, NoSessionType DEF SessionsTypeOK
<1>8. Begun'
  BY <1>1, <1>2, <1>3, <1>4, <1>5, Bounds, Sources DEF Begun, Away, NoFetch, NoSession
<1>9. Named'
  BY <1>1, <1>2, <1>3, <1>4, <1>5, Bounds DEF Named, Away
<1>10. Loyal'
  BY <1>1, <1>2, <1>4, <1>5, Bounds DEF Loyal, Runs, Away, NoFetch, Housed
<1>11. Ended'
  BY <1>1, <1>2, <1>3, <1>4, <1>5 DEF Ended, Over, Granted, Loyal, Runs, Named, Begun, Away, NoFetch
<1>12. SignedOutStays'
  BY <1>1, <1>2, <1>3, <1>4, <1>5, <1>7, Bounds, Sources DEF SignedOutStays, Ended, Over,
     Granted, Begun, Named
<1>13. QED  BY <1>7, <1>8, <1>9, <1>10, <1>11, <1>12 DEF SessionsInv

(* Nothing of the page is left. *)
LEMMA UnloadsStep ==
    ASSUME SessionsInv, NEW t \in Tab, Unloads(t)
    PROVE  SessionsInv'
<1>1. SessionsTypeOK /\ Housed /\ Begun /\ Named /\ Loyal /\ Ended /\ SignedOutStays
  BY DEF SessionsInv, SessionsTypeOK
<1>2. /\ tab[t] \in TabDoc
      /\ stored \in Session
  BY <1>1 DEF SessionsTypeOK, Housed, NoFetch, Unloads
<1>3. /\ tab'[t] = Away
      /\ \A x \in Tab : x # t => tab'[x] = tab[x]
      /\ tab' \in [Tab -> TabDoc]
  BY <1>1, <1>2, Sources, NoSessionType DEF SessionsTypeOK, TabDoc, Goes, Session, NoSession,
     Away, NoFetch, Unloads
<1>4. /\ \A x \in Fetch : fetch[x].tab = t => fetch'[x] = NoFetch
      /\ \A x \in Fetch : fetch[x].tab # t => fetch'[x] = fetch[x]
      /\ fetch' \in [Fetch -> Call_S]
  BY <1>1, <1>2, Sources, NoSessionType DEF SessionsTypeOK, Call_S, Waits_S, Session, NoSession,
     Away, NoFetch, Unloads
<1>5. /\ UNCHANGED <<stored, minted_S, lapsed_S, revoked_S, left, raced>>
      /\ surface' \in Surface /\ fetched' \in Nat
  BY <1>1 DEF SessionsTypeOK, clock_S, Unloads
<1>6. Housed'
  BY <1>1, <1>2, <1>3, <1>4, <1>5, Bounds DEF Housed, Away
<1>7. SessionsTypeOK'
  BY <1>1, <1>2, <1>3, <1>4, <1>5, <1>6, NoSessionType DEF SessionsTypeOK
<1>8. Begun'
  BY <1>1, <1>2, <1>3, <1>4, <1>5, Bounds, Sources DEF Begun, Away, NoFetch, NoSession
<1>9. Named'
  BY <1>1, <1>2, <1>3, <1>4, <1>5, Bounds DEF Named, Away
<1>10. Loyal'
  BY <1>1, <1>2, <1>3, <1>4, <1>5, Bounds DEF Loyal, Runs, Away, NoFetch, Housed
<1>11. Ended'
  BY <1>1, <1>2, <1>3, <1>4, <1>5 DEF Ended, Over, Granted, Loyal, Runs, Named, Begun, Away, NoFetch
<1>12. SignedOutStays'
  BY <1>1, <1>2, <1>3, <1>4, <1>5, <1>7, Bounds, Sources DEF SignedOutStays, Ended, Over,
     Granted, Begun, Named
<1>13. QED  BY <1>7, <1>8, <1>9, <1>10, <1>11, <1>12 DEF SessionsInv

(* A request is sent under the session of its page. *)
LEMMA SendsStep ==
    ASSUME SessionsInv, NEW t \in Tab, NEW f \in Fetch, Sends(t, f)
    PROVE  SessionsInv'
<1>1. SessionsTypeOK /\ Housed /\ Begun /\ Named /\ Loyal /\ Ended /\ SignedOutStays
  BY DEF SessionsInv, SessionsTypeOK
<1>2. /\ fetch[f] \in Call_S
      /\ tab[t] \in TabDoc
      /\ stored \in Session
  BY <1>1 DEF SessionsTypeOK, Housed, NoFetch, Sends
<1>3. /\ Runs(t)
      /\ fetch[f] = NoFetch
      /\ fetch'[f] # NoFetch
      /\ fetch'[f].tab = t
      /\ fetch'[f].pc = "sent"
      /\ fetch'[f].session = tab[t].session
      /\ \A x \in Fetch : x # f => fetch'[x] = fetch[x]
      /\ fetch' \in [Fetch -> Call_S]
  BY <1>1, <1>2, Sources, NoSessionType DEF SessionsTypeOK, Call_S, Waits_S, Session, NoSession,
     Away, NoFetch, Runs, Sends
<1>4. /\ UNCHANGED <<stored, minted_S, lapsed_S, revoked_S, tab, left, raced>>
      /\ surface' \in Surface /\ fetched' \in Nat
  BY <1>1 DEF SessionsTypeOK, clock_S, Sends
<1>5. Housed'
  BY <1>1, <1>2, <1>3, <1>4, Bounds DEF Housed, Away, Runs
<1>6. SessionsTypeOK'
  BY <1>1, <1>2, <1>3, <1>4, <1>5, NoSessionType DEF SessionsTypeOK
<1>7. Begun'
  BY <1>1, <1>2, <1>3, <1>4, Bounds, Sources DEF Begun, Away, NoFetch, NoSession
<1>8. Named'
  BY <1>1, <1>2, <1>3, <1>4, Bounds DEF Named, Away, Runs
<1>9. Loyal'
  BY <1>1, <1>2, <1>3, <1>4, Bounds DEF Loyal, Runs, Away, NoFetch, Housed
<1>10. Ended'
  BY <1>1, <1>2, <1>3, <1>4 DEF Ended, Over, Granted, Loyal, Runs, Named, Begun, Away, NoFetch
<1>11. SignedOutStays'
  BY <1>1, <1>2, <1>3, <1>4, <1>6, Bounds, Sources DEF SignedOutStays, Ended, Over, Granted,
     Begun, Named
<1>12. QED  BY <1>6, <1>7, <1>8, <1>9, <1>10, <1>11 DEF SessionsInv

(* An answer arrives. *)
LEMMA AnsweredStep ==
    ASSUME SessionsInv, NEW f \in Fetch, Answered(f)
    PROVE  SessionsInv'
<1>1. SessionsTypeOK /\ Housed /\ Begun /\ Named /\ Loyal /\ Ended /\ SignedOutStays
  BY DEF SessionsInv, SessionsTypeOK
<1>2. /\ fetch[f] \in Call_S
      /\ fetch[f] # NoFetch
      /\ fetch[f].tab \in Tab
      /\ tab[fetch[f].tab] \in TabDoc
      /\ tab[fetch[f].tab].at \notin {"away", "gate", "minted"}
      /\ stored \in Session
  BY <1>1 DEF SessionsTypeOK, Housed, NoFetch, Answered
<1>3. /\ fetch'[f] = NoFetch
      /\ \A x \in Fetch : x # f => fetch'[x] = fetch[x]
      /\ fetch' \in [Fetch -> Call_S]
  BY <1>1, <1>2, Sources, NoSessionType DEF SessionsTypeOK, Call_S, Waits_S, Session, NoSession,
     Away, NoFetch, Answered
<1>4. /\ UNCHANGED <<stored, minted_S, lapsed_S, revoked_S, tab, left, raced>>
      /\ surface' \in Surface /\ fetched' \in Nat
  BY <1>1 DEF SessionsTypeOK, clock_S, Answered
<1>5. Housed'
  BY <1>1, <1>2, <1>3, <1>4, Bounds DEF Housed, Away
<1>6. SessionsTypeOK'
  BY <1>1, <1>2, <1>3, <1>4, <1>5, NoSessionType DEF SessionsTypeOK
<1>7. Begun'
  BY <1>1, <1>2, <1>3, <1>4, Bounds, Sources DEF Begun, Away, NoFetch, NoSession
<1>8. Named'
  BY <1>1, <1>2, <1>3, <1>4, Bounds DEF Named, Away
<1>9. Loyal'
  BY <1>1, <1>2, <1>3, <1>4, Bounds DEF Loyal, Runs, Away, NoFetch, Housed
<1>10. Ended'
  BY <1>1, <1>2, <1>3, <1>4 DEF Ended, Over, Granted, Loyal, Runs, Named, Begun, Away, NoFetch
<1>11. SignedOutStays'
  BY <1>1, <1>2, <1>3, <1>4, <1>6, Bounds, Sources DEF SignedOutStays, Ended, Over, Granted,
     Begun, Named
<1>12. QED  BY <1>6, <1>7, <1>8, <1>9, <1>10, <1>11 DEF SessionsInv

(* The session is refused. *)
LEMMA UnauthorizedStep ==
    ASSUME SessionsInv, NEW f \in Fetch, Unauthorized(f)
    PROVE  SessionsInv'
<1>1. SessionsTypeOK /\ Housed /\ Begun /\ Named /\ Loyal /\ Ended /\ SignedOutStays
  BY DEF SessionsInv, SessionsTypeOK
<1>2. /\ fetch[f] \in Call_S
      /\ fetch[f] # NoFetch
      /\ fetch[f].tab \in Tab
      /\ tab[fetch[f].tab] \in TabDoc
      /\ tab[fetch[f].tab].at \notin {"away", "gate", "minted"}
      /\ stored \in Session
  BY <1>1 DEF SessionsTypeOK, Housed, NoFetch, Unauthorized
<1>3. /\ fetch[f].pc = "sent"
      /\ fetch'[f] # NoFetch
      /\ fetch'[f].tab = fetch[f].tab
      /\ fetch'[f].pc = "renew" \/ fetch'[f].pc = "refused"
      /\ fetch'[f].session = fetch[f].session
      /\ \A x \in Fetch : x # f => fetch'[x] = fetch[x]
      /\ fetch' \in [Fetch -> Call_S]
  BY <1>1, <1>2, Sources, NoSessionType DEF SessionsTypeOK, Call_S, Waits_S, Session, NoSession,
     Away, NoFetch, Unauthorized
<1>4. /\ UNCHANGED <<stored, minted_S, lapsed_S, revoked_S, tab, left, raced>>
      /\ surface' \in Surface /\ fetched' \in Nat
  BY <1>1 DEF SessionsTypeOK, clock_S, Unauthorized
<1>5. Housed'
  BY <1>1, <1>2, <1>3, <1>4, Bounds DEF Housed, Away
<1>6. SessionsTypeOK'
  BY <1>1, <1>2, <1>3, <1>4, <1>5, NoSessionType DEF SessionsTypeOK
<1>7. Begun'
  BY <1>1, <1>2, <1>3, <1>4, Bounds, Sources DEF Begun, Away, NoFetch, NoSession
<1>8. Named'
  BY <1>1, <1>2, <1>3, <1>4, Bounds DEF Named, Away
<1>9. Loyal'
  BY <1>1, <1>2, <1>3, <1>4, Bounds DEF Loyal, Runs, Away, NoFetch, Housed
<1>10. Ended'
  BY <1>1, <1>2, <1>3, <1>4 DEF Ended, Over, Granted, Loyal, Runs, Named, Begun, Away, NoFetch
<1>11. SignedOutStays'
  BY <1>1, <1>2, <1>3, <1>4, <1>6, Bounds, Sources DEF SignedOutStays, Ended, Over, Granted,
     Begun, Named
<1>12. QED  BY <1>6, <1>7, <1>8, <1>9, <1>10, <1>11 DEF SessionsInv

(* The account is refused. *)
LEMMA DeactivatedStep ==
    ASSUME SessionsInv, NEW f \in Fetch, Deactivated(f)
    PROVE  SessionsInv'
<1>1. SessionsTypeOK /\ Housed /\ Begun /\ Named /\ Loyal /\ Ended /\ SignedOutStays
  BY DEF SessionsInv, SessionsTypeOK
<1>2. /\ fetch[f] \in Call_S
      /\ fetch[f] # NoFetch
      /\ fetch[f].tab \in Tab
      /\ tab[fetch[f].tab] \in TabDoc
      /\ tab[fetch[f].tab].at \notin {"away", "gate", "minted"}
      /\ stored \in Session
  BY <1>1 DEF SessionsTypeOK, Housed, NoFetch, Deactivated
<1>3. /\ fetch[f].pc = "sent"
      /\ fetch'[f] # NoFetch
      /\ fetch'[f].tab = fetch[f].tab
      /\ fetch'[f].pc = "refused"
      /\ fetch'[f].session = fetch[f].session
      /\ \A x \in Fetch : x # f => fetch'[x] = fetch[x]
      /\ fetch' \in [Fetch -> Call_S]
  BY <1>1, <1>2, Sources, NoSessionType DEF SessionsTypeOK, Call_S, Waits_S, Session, NoSession,
     Away, NoFetch, Deactivated
<1>4. /\ UNCHANGED <<stored, minted_S, lapsed_S, revoked_S, tab, left, raced>>
      /\ surface' \in Surface /\ fetched' \in Nat
  BY <1>1 DEF SessionsTypeOK, clock_S, Deactivated
<1>5. Housed'
  BY <1>1, <1>2, <1>3, <1>4, Bounds DEF Housed, Away
<1>6. SessionsTypeOK'
  BY <1>1, <1>2, <1>3, <1>4, <1>5, NoSessionType DEF SessionsTypeOK
<1>7. Begun'
  BY <1>1, <1>2, <1>3, <1>4, Bounds, Sources DEF Begun, Away, NoFetch, NoSession
<1>8. Named'
  BY <1>1, <1>2, <1>3, <1>4, Bounds DEF Named, Away
<1>9. Loyal'
  BY <1>1, <1>2, <1>3, <1>4, Bounds DEF Loyal, Runs, Away, NoFetch, Housed
<1>10. Ended'
  BY <1>1, <1>2, <1>3, <1>4 DEF Ended, Over, Granted, Loyal, Runs, Named, Begun, Away, NoFetch
<1>11. SignedOutStays'
  BY <1>1, <1>2, <1>3, <1>4, <1>6, Bounds, Sources DEF SignedOutStays, Ended, Over, Granted,
     Begun, Named
<1>12. QED  BY <1>6, <1>7, <1>8, <1>9, <1>10, <1>11 DEF SessionsInv

(* The provider renews no session that was revoked. *)
LEMMA FetchMintsStep ==
    ASSUME SessionsInv, NEW f \in Fetch, FetchMints(f)
    PROVE  SessionsInv'
<1>1. SessionsTypeOK /\ Housed /\ Begun /\ Named /\ Loyal /\ Ended /\ SignedOutStays
  BY DEF SessionsInv, SessionsTypeOK
<1>2. /\ fetch[f] \in Call_S
      /\ fetch[f] # NoFetch
      /\ fetch[f].tab \in Tab
      /\ tab[fetch[f].tab] \in TabDoc
      /\ tab[fetch[f].tab].at \notin {"away", "gate", "minted"}
      /\ stored \in Session
  BY <1>1 DEF SessionsTypeOK, Housed, NoFetch, FetchMints
<1>3. Mints(fetch[f].session.by)
  BY DEF FetchMints
<1>4. fetch[f].pc = "renew" /\ fetch[f] # NoFetch
  BY <1>1, <1>2 DEF NoFetch, FetchMints
<1>5. /\ fetch[f].session.by \in SignIn
      /\ fetch[f].session.by \notin revoked_S
  BY <1>1, <1>2, <1>3, <1>4, Bounds, NoSessionType, Sources DEF SessionsTypeOK, Named, NoFetch,
     Away, Mints
<1>6. /\ \A x \in SignIn : minted_S[x] # 0 => minted_S'[x] # 0
      /\ minted_S' \in [SignIn -> 0..MaxTokens]
      /\ lapsed_S' \in [SignIn -> 0..MaxTokens]
      /\ minted_S'[fetch[f].session.by] \in 0..MaxTokens
  BY <1>1, <1>3, <1>5, Renews
<1>7. /\ fetch[f].pc = "renew"
      /\ fetch'[f] # NoFetch
      /\ fetch'[f].tab = fetch[f].tab
      /\ fetch'[f].pc = "minted"
      /\ fetch'[f].session.by = fetch[f].session.by
      /\ \A x \in Fetch : x # f => fetch'[x] = fetch[x]
      /\ fetch' \in [Fetch -> Call_S]
  BY <1>1, <1>2, <1>5, <1>6, Sources, NoSessionType DEF SessionsTypeOK, Call_S, Waits_S, Session,
     NoSession, Away, NoFetch, FetchMints
<1>8. UNCHANGED <<stored, revoked_S, tab, left, raced>> /\ surface' \in Surface /\ fetched' \in Nat
  BY <1>1 DEF SessionsTypeOK, clock_S, FetchMints
<1>9. Housed'
  BY <1>1, <1>2, <1>7, <1>8, Bounds DEF Housed, Away
<1>10. SessionsTypeOK'
  BY <1>1, <1>2, <1>5, <1>6, <1>7, <1>8, <1>9, NoSessionType DEF SessionsTypeOK
<1>11. Begun'
  BY <1>1, <1>2, <1>5, <1>6, <1>7, <1>8, Bounds, Sources DEF Begun, Away, NoFetch, NoSession
<1>12. Named'
  BY <1>1, <1>2, <1>5, <1>7, <1>8, Bounds DEF Named, Away
<1>13. Loyal'
  BY <1>1, <1>2, <1>7, <1>8, Bounds DEF Loyal, Runs, Away, NoFetch, Housed
<1>14. Ended'
  BY <1>1, <1>2, <1>5, <1>6, <1>7, <1>8 DEF Ended, Over, Granted, Loyal, Runs, Named, Begun,
     Away, NoFetch
<1>15. SignedOutStays'
  BY <1>1, <1>2, <1>5, <1>7, <1>8, <1>10, Bounds, Sources DEF SignedOutStays, Ended, Over,
     Granted, Begun, Named
<1>16. QED  BY <1>10, <1>11, <1>12, <1>13, <1>14, <1>15 DEF SessionsInv

(* The provider refuses. *)
LEMMA FetchRefusedStep ==
    ASSUME SessionsInv, NEW f \in Fetch, FetchRefused(f)
    PROVE  SessionsInv'
<1>1. SessionsTypeOK /\ Housed /\ Begun /\ Named /\ Loyal /\ Ended /\ SignedOutStays
  BY DEF SessionsInv, SessionsTypeOK
<1>2. /\ fetch[f] \in Call_S
      /\ fetch[f] # NoFetch
      /\ fetch[f].tab \in Tab
      /\ tab[fetch[f].tab] \in TabDoc
      /\ tab[fetch[f].tab].at \notin {"away", "gate", "minted"}
      /\ stored \in Session
  BY <1>1 DEF SessionsTypeOK, Housed, NoFetch, FetchRefused
<1>3. /\ fetch[f].pc = "renew"
      /\ fetch'[f] # NoFetch
      /\ fetch'[f].tab = fetch[f].tab
      /\ fetch'[f].pc = "refused"
      /\ fetch'[f].session = fetch[f].session
      /\ \A x \in Fetch : x # f => fetch'[x] = fetch[x]
      /\ fetch' \in [Fetch -> Call_S]
  BY <1>1, <1>2, Sources, NoSessionType DEF SessionsTypeOK, Call_S, Waits_S, Session, NoSession,
     Away, NoFetch, FetchRefused
<1>4. /\ UNCHANGED <<stored, minted_S, lapsed_S, revoked_S, tab, left, raced>>
      /\ surface' \in Surface /\ fetched' \in Nat
  BY <1>1 DEF SessionsTypeOK, clock_S, FetchRefused
<1>5. Housed'
  BY <1>1, <1>2, <1>3, <1>4, Bounds DEF Housed, Away
<1>6. SessionsTypeOK'
  BY <1>1, <1>2, <1>3, <1>4, <1>5, NoSessionType DEF SessionsTypeOK
<1>7. Begun'
  BY <1>1, <1>2, <1>3, <1>4, Bounds, Sources DEF Begun, Away, NoFetch, NoSession
<1>8. Named'
  BY <1>1, <1>2, <1>3, <1>4, Bounds DEF Named, Away
<1>9. Loyal'
  BY <1>1, <1>2, <1>3, <1>4, Bounds DEF Loyal, Runs, Away, NoFetch, Housed
<1>10. Ended'
  BY <1>1, <1>2, <1>3, <1>4 DEF Ended, Over, Granted, Loyal, Runs, Named, Begun, Away, NoFetch
<1>11. SignedOutStays'
  BY <1>1, <1>2, <1>3, <1>4, <1>6, Bounds, Sources DEF SignedOutStays, Ended, Over, Granted,
     Begun, Named
<1>12. QED  BY <1>6, <1>7, <1>8, <1>9, <1>10, <1>11 DEF SessionsInv

(* A request stores a session whose renewal was on its way. *)
LEMMA PersistsStep ==
    ASSUME SessionsInv, NEW f \in Fetch, Persists(f)
    PROVE  SessionsInv'
<1>1. SessionsTypeOK /\ Housed /\ Begun /\ Named /\ Loyal /\ Ended /\ SignedOutStays
  BY DEF SessionsInv, SessionsTypeOK
<1>2. /\ fetch[f] \in Call_S
      /\ fetch[f] # NoFetch
      /\ fetch[f].tab \in Tab
      /\ tab[fetch[f].tab] \in TabDoc
      /\ tab[fetch[f].tab].at \notin {"away", "gate", "minted"}
      /\ stored \in Session
  BY <1>1 DEF SessionsTypeOK, Housed, NoFetch, Persists
<1>3. /\ stored' = fetch[f].session
      /\ stored' \in Session
      /\ stored'.by \in SignIn
  BY <1>1, <1>2, Bounds, NoSessionType, Sources DEF SessionsTypeOK, Named, NoFetch, Persists, Away
<1>4. /\ tab'[fetch[f].tab].at = tab[fetch[f].tab].at
      /\ tab'[fetch[f].tab].session = fetch[f].session
      /\ \A x \in Tab : x # fetch[f].tab => tab'[x] = tab[x]
      /\ tab' \in [Tab -> TabDoc]
  BY <1>1, <1>2, <1>3, Sources, NoSessionType DEF SessionsTypeOK, TabDoc, Goes, Session,
     NoSession, Away, NoFetch, Persists
<1>5. /\ fetch[f].pc = "minted"
      /\ fetch'[f] # NoFetch
      /\ fetch'[f].tab = fetch[f].tab
      /\ fetch'[f].pc = "sent"
      /\ fetch'[f].session = fetch[f].session
      /\ \A x \in Fetch : x # f => fetch'[x] = fetch[x]
      /\ fetch' \in [Fetch -> Call_S]
  BY <1>1, <1>2, <1>3, Sources, NoSessionType DEF SessionsTypeOK, Call_S, Waits_S, Session,
     NoSession, Away, NoFetch, Persists
<1>6. /\ UNCHANGED <<minted_S, lapsed_S, revoked_S, left, raced>>
      /\ surface' \in Surface /\ fetched' \in Nat
  BY <1>1 DEF SessionsTypeOK, clock_S, Persists
<1>7. Housed'
  BY <1>1, <1>2, <1>4, <1>5, <1>6, Bounds DEF Housed, Away
<1>8. SessionsTypeOK'
  BY <1>1, <1>2, <1>3, <1>4, <1>5, <1>6, <1>7, NoSessionType DEF SessionsTypeOK
<1>9. Begun'
  BY <1>1, <1>2, <1>3, <1>4, <1>5, <1>6, Bounds, Sources DEF Begun, Away, NoFetch, NoSession
<1>10. Named'
  BY <1>1, <1>2, <1>3, <1>4, <1>5, <1>6, Bounds DEF Named, Away
<1>11. Loyal'
  BY <1>1, <1>2, <1>4, <1>5, <1>6, Bounds DEF Loyal, Runs, Away, NoFetch, Housed
<1>12. Ended'
  BY <1>1, <1>2, <1>3, <1>4, <1>5, <1>6 DEF Ended, Over, Granted, Loyal, Runs, Named, Begun,
     Away, NoFetch
<1>13. SignedOutStays'
  BY <1>1, <1>2, <1>3, <1>4, <1>5, <1>6, <1>8, Bounds, Sources DEF SignedOutStays, Ended, Over,
     Granted, Begun, Named
<1>14. QED  BY <1>8, <1>9, <1>10, <1>11, <1>12, <1>13 DEF SessionsInv

(* The page ends; what is over stays over. *)
LEMMA EndsSessionStep ==
    ASSUME SessionsInv, NEW f \in Fetch, EndsSession(f)
    PROVE  SessionsInv'
<1>1. SessionsTypeOK /\ Housed /\ Begun /\ Named /\ Loyal /\ Ended /\ SignedOutStays
  BY DEF SessionsInv, SessionsTypeOK
<1>2. /\ fetch[f] \in Call_S
      /\ fetch[f] # NoFetch
      /\ fetch[f].tab \in Tab
      /\ tab[fetch[f].tab] \in TabDoc
      /\ tab[fetch[f].tab].at \notin {"away", "gate", "minted"}
      /\ stored \in Session
  BY <1>1 DEF SessionsTypeOK, Housed, NoFetch, EndsSession
<1>3. /\ stored' = NoSession
      /\ stored' \in Session
      /\ stored'.by = 0
  BY <1>1, <1>2, Bounds, NoSessionType, Sources DEF SessionsTypeOK, Named, NoFetch, EndsSession,
     Away
<1>4. /\ \/ tab'[fetch[f].tab].at = tab[fetch[f].tab].at
         \/ tab[fetch[f].tab].at = "open" /\ tab'[fetch[f].tab].at \in {"revoke", "leaving"}
      /\ tab'[fetch[f].tab].session = tab[fetch[f].tab].session
      /\ \A x \in Tab : x # fetch[f].tab => tab'[x] = tab[x]
      /\ tab' \in [Tab -> TabDoc]
  BY <1>1, <1>2, <1>3, Sources, NoSessionType DEF SessionsTypeOK, TabDoc, Goes, Session,
     NoSession, Away, NoFetch, EndsSession
<1>5. /\ fetch'[f] = NoFetch
      /\ \A x \in Fetch : x # f => fetch'[x] = fetch[x]
      /\ fetch' \in [Fetch -> Call_S]
  BY <1>1, <1>2, <1>3, Sources, NoSessionType DEF SessionsTypeOK, Call_S, Waits_S, Session,
     NoSession, Away, NoFetch, EndsSession
<1>6. /\ UNCHANGED <<minted_S, lapsed_S, revoked_S, left, raced>>
      /\ surface' \in Surface /\ fetched' \in Nat
  BY <1>1 DEF SessionsTypeOK, clock_S, EndsSession
<1>7. Housed'
  BY <1>1, <1>2, <1>4, <1>5, <1>6, Bounds DEF Housed, Away
<1>8. SessionsTypeOK'
  BY <1>1, <1>2, <1>3, <1>4, <1>5, <1>6, <1>7, NoSessionType DEF SessionsTypeOK
<1>9. Begun'
  BY <1>1, <1>2, <1>3, <1>4, <1>5, <1>6, Bounds, Sources DEF Begun, Away, NoFetch, NoSession
<1>10. Named'
  BY <1>1, <1>2, <1>3, <1>4, <1>5, <1>6, Bounds DEF Named, Away
<1>11. Loyal'
  BY <1>1, <1>2, <1>4, <1>5, <1>6, Bounds DEF Loyal, Runs, Away, NoFetch, Housed
<1>12. Ended'
  BY <1>1, <1>2, <1>3, <1>4, <1>5, <1>6 DEF Ended, Over, Granted, Loyal, Runs, Named, Begun,
     Away, NoFetch
<1>13. SignedOutStays'
  BY <1>1, <1>2, <1>3, <1>4, <1>5, <1>6, <1>8, Bounds, Sources DEF SignedOutStays, Ended, Over,
     Granted, Begun, Named
<1>14. QED  BY <1>8, <1>9, <1>10, <1>11, <1>12, <1>13 DEF SessionsInv

(* An id token lapses. *)
LEMMA TokenLapsesStep ==
    ASSUME SessionsInv, NEW g \in SignIn, TokenLapses(g)
    PROVE  SessionsInv'
<1>1. SessionsTypeOK /\ Housed /\ Begun /\ Named /\ Loyal /\ Ended /\ SignedOutStays
  BY DEF SessionsInv, SessionsTypeOK
<1>2. /\ stored \in Session
  BY <1>1 DEF SessionsTypeOK, Housed, NoFetch, TokenLapses
<1>3. /\ lapsed_S' \in [SignIn -> 0..MaxTokens]
  BY <1>1, <1>2, Bounds, NoSessionType, Sources DEF SessionsTypeOK, Named, NoFetch, TokenLapses,
     Away
<1>4. /\ UNCHANGED <<stored, minted_S, revoked_S, tab, fetch, left, raced>>
      /\ surface' \in Surface /\ fetched' \in Nat
  BY <1>1 DEF SessionsTypeOK, clock_S, TokenLapses
<1>5. Housed'
  BY <1>1, <1>4, Bounds DEF Housed, Away
<1>6. SessionsTypeOK'
  BY <1>1, <1>3, <1>4, <1>5, NoSessionType DEF SessionsTypeOK
<1>7. Begun'
  BY <1>1, <1>3, <1>4, Bounds, Sources DEF Begun, Away, NoFetch, NoSession
<1>8. Named'
  BY <1>1, <1>3, <1>4, Bounds DEF Named, Away
<1>9. Loyal'
  BY <1>1, <1>4, Bounds DEF Loyal, Runs, Away, NoFetch, Housed
<1>10. Ended'
  BY <1>1, <1>3, <1>4 DEF Ended, Over, Granted, Loyal, Runs, Named, Begun, Away, NoFetch
<1>11. SignedOutStays'
  BY <1>1, <1>3, <1>4, <1>6, Bounds, Sources DEF SignedOutStays, Ended, Over, Granted, Begun, Named
<1>12. QED  BY <1>6, <1>7, <1>8, <1>9, <1>10, <1>11 DEF SessionsInv

(* Every step keeps the invariant. *)
LEMMA SessionsStep == SessionsInv /\ [Next_S]_vars_S => SessionsInv'
<1> SUFFICES ASSUME SessionsInv, [Next_S]_vars_S PROVE SessionsInv'
  OBVIOUS
<1>1. ASSUME NEW t \in Tab,
             SignsInAt(t) \/ Opens(t) \/ GateMints(t) \/ GateOpens(t) \/ GateRefused(t)
      PROVE  SessionsInv'
  BY <1>1, SignsInAtStep, OpensStep, GateMintsStep, GateOpensStep, GateRefusedStep
<1>2. ASSUME NEW t \in Tab, SignsOut(t) \/ RevokesToken(t) \/ ClearsSession(t) \/ Unloads(t)
      PROVE  SessionsInv'
  BY <1>2, SignsOutStep, RevokesTokenStep, ClearsSessionStep, UnloadsStep
<1>3. ASSUME NEW t \in Tab, NEW f \in Fetch, Sends(t, f) PROVE SessionsInv'
  BY <1>3, SendsStep
<1>4. ASSUME NEW f \in Fetch, Serves(f) PROVE SessionsInv'
  BY <1>4, AnsweredStep, UnauthorizedStep, DeactivatedStep, FetchMintsStep, FetchRefusedStep,
     PersistsStep, EndsSessionStep DEF Serves
<1>5. ASSUME NEW g \in SignIn, TokenLapses(g) PROVE SessionsInv'
  BY <1>5, TokenLapsesStep
<1>6. CASE UNCHANGED vars_S
  BY <1>6 DEF vars_S, clock_S, SessionsInv, SessionsTypeOK, Housed, Begun, Named, Loyal, Ended, Over,
     Granted, Runs, SignedOutStays
<1>7. QED  BY <1>1, <1>2, <1>3, <1>4, <1>5, <1>6 DEF Next_S

(* Nobody is signed in, and no page is open, at the start. *)
LEMMA SessionsInit == Init_S => SessionsInv
<1> SUFFICES ASSUME Init_S PROVE SessionsInv
  OBVIOUS
<1>1. /\ stored = NoSession /\ left = {} /\ revoked_S = {} /\ raced = {} /\ fetched = 0
      /\ \A t \in Tab : tab[t] = Away
      /\ \A f \in Fetch : fetch[f] = NoFetch
  BY DEF Init_S
<1>2. surface \in Surface
  BY SessionsAssumption DEF Init_S
<1>3. Away \in TabDoc /\ NoFetch \in Call_S
  BY NoSessionType DEF Away, NoFetch, TabDoc, Call_S
<1>4. tab \in [Tab -> TabDoc] /\ fetch \in [Fetch -> Call_S]
  BY <1>3 DEF Init_S
<1>5. minted_S \in [SignIn -> 0..MaxTokens] /\ lapsed_S \in [SignIn -> 0..MaxTokens]
  BY Bounds DEF Init_S
<1>6. Housed
  BY <1>1 DEF Housed
<1>7. SessionsTypeOK
  BY <1>1, <1>2, <1>4, <1>5, <1>6, NoSessionType DEF SessionsTypeOK
<1>8. Begun /\ Named
  <2>1. /\ \A t \in Tab : tab[t].session.by = 0 /\ tab[t].at = "away"
        /\ \A f \in Fetch : fetch[f].session.by = 0
    BY <1>1, NoSessionType DEF Away, NoFetch
  <2>2. QED  BY <1>1, <2>1, NoSessionType DEF Begun, Named
<1>9. Loyal
  <2>1. \A t \in Tab : ~Runs(t)
    BY <1>1 DEF Runs, Away
  <2>2. QED  BY <2>1 DEF Loyal
<1>10. Ended /\ SignedOutStays
  BY <1>1 DEF Ended, Over, Away, SignedOutStays
<1>11. QED  BY <1>7, <1>8, <1>9, <1>10 DEF SessionsInv
-----------------------------------------------------------------------------
(* The state has its type, and every request in flight, and every session  *)
(* of a page, belongs to a page that is there: Unloads takes its requests. *)
THEOREM SessionsTyped == Spec_S => []SessionsTypeOK
<1>1. SessionsInv => SessionsTypeOK
  BY DEF SessionsInv
<1>2. QED  BY <1>1, SessionsInit, SessionsStep, PTL DEF Spec_S

(* However many tabs, requests and sign-ins: no tab puts a signed-out      *)
(* session back, but for a failed revocation or a renewal granted before.  *)
THEOREM SignedOutForGood == Spec_S => []SignedOutStays
<1>1. SessionsInv => SignedOutStays
  BY DEF SessionsInv
<1>2. QED  BY <1>1, SessionsInit, SessionsStep, PTL DEF Spec_S
-----------------------------------------------------------------------------
(* The page's data. Nothing in hand is ahead of the control plane.         *)
Recent ==
    /\ \A k \in Resource : slot[k].value <= fact[k]
    /\ \A k \in Resource : \A n \in Read : reading[k][n].pc = "answered" => reading[k][n].value <= fact[k]
    /\ acting.pc = "done" => acting.value <= fact[acting.on]

(* The operations console applies the answer of an act to this resource.   *)
Patching(k) == ~Shared /\ acting # NoAct /\ acting.on = k

(* Of a resource of which no two reads, nor a read and an act, met: there  *)
(* is one read at most, none beside an act, and what is about to be shown  *)
(* is no older than what is shown.                                         *)
Paced(k) ==
    /\ \A m, n \in InFlight(k) : m = n
    /\ Patching(k) => InFlight(k) = {}
    /\ \A n \in Read : reading[k][n].pc = "answered" => reading[k][n].value >= slot[k].value
    /\ Patching(k) /\ acting.pc = "done" => acting.value >= slot[k].value

ResourcesInv == ResourcesTypeOK /\ Recent /\ \A k \in Resource \ overlapped : Paced(k)

(* What the page shows never goes back by this step.                       *)
Onward == \A k \in Resource \ overlapped' :
             slot'[k].state # "unavailable" => slot'[k].value >= slot[k].value

LEMMA Numbers ==
    /\ MaxFact \in Nat \ {0} /\ Fact \subseteq Nat /\ 0 \in Fact /\ 1 \in Fact
    /\ 1 \in Read /\ Me \in Resource /\ LiveResource \subseteq Resource
BY ResourcesAssumption DEF Fact, Read

(* The components of the state, each of its type. *)
LEMMA OnThePage ==
    ASSUME ResourcesTypeOK
    PROVE  /\ \A k \in Resource : fact[k] \in Nat /\ fact[k] \in Fact
                                  /\ slot[k] \in Slot /\ slot[k].value \in Nat
           /\ \A k \in Resource : reading[k] \in [Read -> ReadDoc]
           /\ \A k \in Resource : \A n \in Read : reading[k][n] \in ReadDoc /\ reading[k][n].value \in Nat
           /\ acting \in Act /\ acting.on \in Resource /\ acting.value \in Nat
<1>1. \A k \in Resource : fact[k] \in Fact /\ slot[k] \in Slot /\ reading[k] \in [Read -> ReadDoc]
  BY DEF ResourcesTypeOK
<1>2. \A k \in Resource : \A n \in Read : reading[k][n] \in ReadDoc
  BY <1>1
<1>3. acting \in Act
  BY DEF ResourcesTypeOK
<1>4. /\ \A s \in Slot : s.value \in Nat
      /\ \A r \in ReadDoc : r.value \in Nat
      /\ \A a \in Act : a.on \in Resource /\ a.value \in Nat
  BY Numbers DEF Slot, ReadDoc, Act
<1>5. QED  BY <1>1, <1>2, <1>3, <1>4, Numbers

LEMMA Blanks ==
    /\ NoRead \in ReadDoc /\ [pc |-> "sent", value |-> 0] \in ReadDoc
    /\ [pc |-> "refused", value |-> 0] \in ReadDoc
    /\ [value |-> 0, state |-> "unavailable"] \in Slot /\ Blank \in Slot
    /\ NoAct \in Act /\ NoAct.pc = "none" /\ NoRead.pc = "none"
    /\ \A v \in Fact : /\ [pc |-> "answered", value |-> v] \in ReadDoc
                       /\ [value |-> v, state |-> "ready"] \in Slot
<1>1. /\ NoRead \in ReadDoc /\ [pc |-> "sent", value |-> 0] \in ReadDoc /\ NoRead.pc = "none"
      /\ [pc |-> "refused", value |-> 0] \in ReadDoc
  BY Numbers DEF NoRead, ReadDoc
<1>2. [value |-> 0, state |-> "unavailable"] \in Slot /\ Blank \in Slot
  BY Numbers DEF Slot, Blank
<1>3. NoAct \in Act /\ NoAct.pc = "none"
  BY Numbers DEF NoAct, Act
<1>4. \A v \in Fact : /\ [pc |-> "answered", value |-> v] \in ReadDoc
                      /\ [value |-> v, state |-> "ready"] \in Slot
  BY DEF ReadDoc, Slot
<1>5. QED  BY <1>1, <1>2, <1>3, <1>4

(* Reading some resources, and taking others for unavailable, keeps the    *)
(* invariant, whatever is allowed and whichever are asked for.             *)
LEMMA PassesStep ==
    ASSUME ResourcesInv, NEW keys \in SUBSET Resource, NEW may, CanPass(keys), Passes(keys, may),
           UNCHANGED <<page, fact>>, acting' \in {acting, NoAct}, allowed' \subseteq Resource,
           hidden' \in BOOLEAN, armed' \in BOOLEAN, used' \in Nat, failed' \in Nat
    PROVE  ResourcesInv' /\ Onward
<1>1. ResourcesTypeOK /\ Recent /\ \A k \in Resource \ overlapped : Paced(k)
  BY DEF ResourcesInv
<1>2. \A k \in keys : Free(k) \in Read /\ Free(k) \notin InFlight(k)
  <2>1. TAKE k \in keys
  <2>2. InFlight(k) # Read /\ InFlight(k) \subseteq Read
    BY DEF CanPass, InFlight
  <2>3. \E n \in Read : n \notin InFlight(k)
    BY <2>2
  <2>4. QED  BY <2>3 DEF Free
<1>3. \A k \in Resource :
        /\ k \in keys \cap may => reading'[k] = [reading[k] EXCEPT ![Free(k)] = [pc |-> "sent", value |-> 0]]
        /\ k \notin keys \cap may => reading'[k] = reading[k]
        /\ k \in keys \ may => slot'[k] = [value |-> 0, state |-> "unavailable"]
        /\ k \notin keys \ may => slot'[k] = slot[k]
  BY DEF Passes
<1>4. \A k \in Resource : /\ reading'[k] \in [Read -> ReadDoc]
                          /\ \A n \in Read : \/ reading'[k][n] = reading[k][n]
                                             \/ k \in keys \cap may /\ n = Free(k)
                                                /\ reading'[k][n] = [pc |-> "sent", value |-> 0]
  BY <1>1, <1>2, <1>3, OnThePage, Blanks
<1>5. \A k \in Resource : slot'[k] = slot[k] \/ slot'[k] = [value |-> 0, state |-> "unavailable"]
  BY <1>3
<1>6. ResourcesTypeOK'
  <2>1. reading' \in [Resource -> [Read -> ReadDoc]]
    BY <1>4 DEF Passes
  <2>2. slot' \in [Resource -> Slot]
    BY <1>1, <1>5, OnThePage, Blanks DEF Passes
  <2>3. overlapped' \subseteq Resource
    BY <1>1 DEF Passes, ResourcesTypeOK
  <2>4. acting' \in Act
    BY <1>1, Blanks, OnThePage
  <2>5. QED  BY <1>1, <2>1, <2>2, <2>3, <2>4 DEF ResourcesTypeOK
<1>7. Recent'
  <2>1. \A k \in Resource : slot'[k].value <= fact'[k]
    BY <1>1, <1>5, OnThePage DEF Recent
  <2>2. \A k \in Resource : \A n \in Read : reading'[k][n].pc = "answered" => reading'[k][n].value <= fact'[k]
    BY <1>1, <1>4, OnThePage DEF Recent
  <2>3. acting'.pc = "done" => acting'.value <= fact'[acting'.on]
    BY <1>1, Blanks DEF Recent
  <2>4. QED  BY <2>1, <2>2, <2>3 DEF Recent
<1>8. ASSUME NEW k \in Resource \ overlapped' PROVE Paced(k)'
  <2>1. k \notin overlapped /\ Paced(k)
    BY <1>1 DEF Passes
  <2>2. k \in keys \cap may => InFlight(k) = {} /\ ~Patching(k)
    BY <1>8 DEF Passes, Patching
  <2>3. Patching(k)' => Patching(k) /\ acting' = acting
    BY DEF Patching, Shared
  <2>4. \A n \in InFlight(k)' : \/ n \in InFlight(k)
                                \/ k \in keys \cap may /\ n = Free(k)
    BY <1>4 DEF InFlight
  <2>5. (\A m, n \in InFlight(k) : m = n)' /\ (Patching(k) => InFlight(k) = {})'
    BY <2>1, <2>2, <2>3, <2>4 DEF Paced
  <2>6. \A n \in Read : reading'[k][n].pc = "answered" => reading'[k][n].value >= slot'[k].value
    BY <1>1, <1>4, <1>5, <2>1, OnThePage DEF Paced
  <2>7. Patching(k)' /\ acting'.pc = "done" => acting'.value >= slot'[k].value
    BY <1>1, <1>5, <2>1, <2>3, OnThePage DEF Paced
  <2>8. QED  BY <2>5, <2>6, <2>7 DEF Paced
<1>9. Onward
  BY <1>1, <1>5, OnThePage DEF Onward
<1>10. QED  BY <1>6, <1>7, <1>8, <1>9 DEF ResourcesInv

(* The control plane answers, or the request fails, or its end is shown. *)
LEMMA ReadStep ==
    ASSUME ResourcesInv, NEW k \in Resource, NEW n \in Read, Replies(k, n) \/ Breaks(k, n)
    PROVE  ResourcesInv' /\ Onward
<1>1. ResourcesTypeOK /\ Recent /\ \A j \in Resource \ overlapped : Paced(j)
  BY DEF ResourcesInv
<1>2. /\ UNCHANGED <<page, fact, slot, allowed, hidden, armed, acting, used, overlapped>>
      /\ failed' \in Nat /\ reading[k][n].pc = "sent"
  BY <1>1 DEF Replies, Breaks, ResourcesTypeOK
<1>3. PICK r \in ReadDoc : /\ reading' = [reading EXCEPT ![k][n] = r]
                           /\ r.pc = "answered" => r.value = fact[k]
  <2>1. CASE Replies(k, n)
    BY <1>1, <2>1, OnThePage, Blanks DEF Replies
  <2>2. CASE Breaks(k, n)
    <3>1. [reading[k][n] EXCEPT !.pc = "failed"] \in ReadDoc
      BY <1>1, OnThePage DEF ReadDoc
    <3>2. [reading[k][n] EXCEPT !.pc = "failed"].pc = "failed"
      BY <1>1, OnThePage DEF ReadDoc
    <3>3. reading' = [reading EXCEPT ![k][n] = [reading[k][n] EXCEPT !.pc = "failed"]]
      BY <1>1, <2>2 DEF Breaks, ResourcesTypeOK
    <3>4. QED  BY <3>1, <3>2, <3>3
  <2>3. QED  BY <2>1, <2>2
<1>4. /\ reading' \in [Resource -> [Read -> ReadDoc]] /\ reading'[k][n] = r
      /\ \A j \in Resource : \A m \in Read : j # k \/ m # n => reading'[j][m] = reading[j][m]
  BY <1>1, <1>3 DEF ResourcesTypeOK
<1>5. ResourcesTypeOK'
  BY <1>1, <1>2, <1>4 DEF ResourcesTypeOK
<1>6. Recent'
  <2>1. \A j \in Resource : \A m \in Read : reading'[j][m].pc = "answered" => reading'[j][m].value <= fact[j]
    BY <1>1, <1>3, <1>4, OnThePage DEF Recent
  <2>2. QED  BY <1>1, <1>2, <2>1 DEF Recent
<1>7. ASSUME NEW j \in Resource \ overlapped PROVE Paced(j)'
  <2>1. InFlight(j)' \subseteq InFlight(j)
    BY <1>2, <1>4, Blanks DEF InFlight
  <2>2. Patching(j)' <=> Patching(j)
    BY <1>2 DEF Patching, Shared
  <2>3. \A m \in Read : reading'[j][m].pc = "answered" => reading'[j][m].value >= slot[j].value
    BY <1>1, <1>3, <1>4, <1>7, OnThePage DEF Paced, Recent
  <2>4. QED  BY <1>1, <1>2, <1>7, <2>1, <2>2, <2>3 DEF Paced
<1>8. Onward
  BY <1>1, <1>2, OnThePage DEF Onward
<1>9. QED  BY <1>2, <1>5, <1>6, <1>7, <1>8 DEF ResourcesInv

LEMMA LandsStep ==
    ASSUME ResourcesInv, NEW k \in Resource, NEW n \in Read, Lands(k, n)
    PROVE  ResourcesInv' /\ Onward
<1>1. ResourcesTypeOK /\ Recent /\ \A j \in Resource \ overlapped : Paced(j)
  BY DEF ResourcesInv
<1>2. UNCHANGED <<page, fact, allowed, hidden, armed, acting, used, failed, overlapped>>
  BY DEF Lands
<1>3. reading[k][n] \in ReadDoc /\ slot[k] \in Slot /\ reading[k][n] # NoRead /\ n \in InFlight(k)
  BY <1>1, OnThePage, Blanks DEF Lands, InFlight
<1>4. PICK s \in Slot : /\ slot' = [slot EXCEPT ![k] = s]
                        /\ \/ reading[k][n].pc = "answered" /\ s.value = reading[k][n].value
                           \/ s.value = slot[k].value
  <2>1. CASE reading[k][n].pc = "answered"
    <3>1. [value |-> reading[k][n].value, state |-> "ready"] \in Slot
      BY <1>3 DEF ReadDoc, Slot
    <3>2. slot' = [slot EXCEPT ![k] = [value |-> reading[k][n].value, state |-> "ready"]]
      BY <2>1 DEF Lands
    <3>3. QED  BY <2>1, <3>1, <3>2
  <2>2. CASE reading[k][n].pc # "answered"
    <3>1. [slot[k] EXCEPT !.state = "error"] \in Slot /\ [slot[k] EXCEPT !.state = "error"].value = slot[k].value
      BY <1>3 DEF Slot
    <3>2. slot' = [slot EXCEPT ![k] = [slot[k] EXCEPT !.state = "error"]]
      BY <1>1, <2>2 DEF Lands, ResourcesTypeOK
    <3>3. QED  BY <3>1, <3>2
  <2>3. QED  BY <2>1, <2>2
<1>5. /\ reading' \in [Resource -> [Read -> ReadDoc]] /\ reading'[k][n] = NoRead
      /\ \A j \in Resource : \A m \in Read : j # k \/ m # n => reading'[j][m] = reading[j][m]
  BY <1>1, Blanks DEF Lands, ResourcesTypeOK
<1>6. slot' \in [Resource -> Slot] /\ slot'[k] = s /\ \A j \in Resource \ {k} : slot'[j] = slot[j]
  BY <1>1, <1>4 DEF ResourcesTypeOK
<1>7. ResourcesTypeOK'
  BY <1>1, <1>2, <1>5, <1>6 DEF ResourcesTypeOK
<1>8. Recent'
  <2>1. \A j \in Resource : slot'[j].value <= fact[j]
    BY <1>1, <1>4, <1>6, OnThePage DEF Recent
  <2>2. \A j \in Resource : \A m \in Read : reading'[j][m].pc = "answered" => reading'[j][m].value <= fact[j]
    BY <1>1, <1>5, Blanks DEF Recent
  <2>3. QED  BY <1>1, <1>2, <2>1, <2>2 DEF Recent
<1>9. ASSUME NEW j \in Resource \ overlapped PROVE Paced(j)'
  <2>1. InFlight(j)' \subseteq InFlight(j)
    BY <1>5 DEF InFlight
  <2>2. Patching(j)' <=> Patching(j)
    BY <1>2 DEF Patching, Shared
  <2>3. j = k => InFlight(j)' = {} /\ ~Patching(j)
    BY <1>1, <1>3, <1>5, <1>9 DEF Paced, InFlight
  <2>4. \A m \in Read : reading'[j][m].pc = "answered" => reading'[j][m].value >= slot'[j].value
    <3>1. CASE j = k
      BY <2>3, <3>1, Blanks DEF InFlight
    <3>2. CASE j # k
      BY <1>1, <1>5, <1>6, <1>9, <3>2 DEF Paced
    <3>3. QED  BY <3>1, <3>2
  <2>5. QED  BY <1>1, <1>2, <1>6, <1>9, <2>1, <2>2, <2>3, <2>4 DEF Paced
<1>10. Onward
  BY <1>1, <1>2, <1>4, <1>6, OnThePage DEF Onward, Paced
<1>11. QED  BY <1>2, <1>7, <1>8, <1>9, <1>10 DEF ResourcesInv

(* The timer, the tab, the person and the membership: when all is read.    *)
LEMMA AsksStep ==
    ASSUME ResourcesInv, Refines \/ Ticks \/ Hides \/ Returns \/ Refreshes
    PROVE  ResourcesInv' /\ Onward
<1>1. ResourcesTypeOK
  BY DEF ResourcesInv
<1>2. /\ page.member \subseteq Resource /\ allowed \subseteq Resource /\ used + 1 \in Nat
      /\ used \in Nat /\ failed \in Nat /\ hidden \in BOOLEAN /\ armed \in BOOLEAN
  BY <1>1 DEF ResourcesTypeOK, Page
<1>3. LiveResource \in SUBSET Resource /\ Resource \in SUBSET Resource
  BY Numbers
<1>4. CASE Refines
  BY <1>2, <1>3, <1>4, PassesStep DEF Refines
<1>5. CASE Returns
  BY <1>2, <1>3, <1>5, PassesStep DEF Returns
<1>6. CASE Refreshes
  BY <1>2, <1>3, <1>6, PassesStep DEF Refreshes
<1>7. CASE Ticks /\ ~hidden
  BY <1>2, <1>3, <1>7, PassesStep DEF Ticks
<1>8. CASE Hides \/ (Ticks /\ hidden)
  <2>1. /\ UNCHANGED <<page, fact, slot, reading, allowed, acting, failed, overlapped>>
        /\ hidden' \in BOOLEAN /\ armed' \in BOOLEAN /\ used' \in Nat
    BY <1>2, <1>8 DEF Hides, Ticks
  <2>2. QED  BY <2>1, OnThePage, <1>1 DEF ResourcesInv, ResourcesTypeOK, Recent, Paced, Patching, Shared,
                InFlight, Onward
<1>9. QED  BY <1>4, <1>5, <1>6, <1>7, <1>8

LEMMA ActsStep ==
    ASSUME ResourcesInv, NEW k \in Resource, Acts(k) \/ Changes(k)
    PROVE  ResourcesInv' /\ Onward
<1>1. ResourcesTypeOK /\ Recent /\ \A j \in Resource \ overlapped : Paced(j)
  BY DEF ResourcesInv
<1>2. UNCHANGED <<page, slot, reading, allowed, hidden, armed, failed>>
  BY DEF Acts, Changes
<1>3. fact' \in [Resource -> Fact] /\ \A j \in Resource : fact'[j] >= fact[j]
  <2>1. CASE Acts(k)
    BY <1>1, <2>1, OnThePage DEF Acts, ResourcesTypeOK
  <2>2. CASE Changes(k)
    <3>1. fact[k] + 1 \in Fact
      BY <1>1, <2>2, OnThePage, Numbers DEF Changes, Fact
    <3>2. QED  BY <1>1, <2>2, <3>1, OnThePage DEF Changes, ResourcesTypeOK
  <2>3. QED  BY <2>1, <2>2
<1>4. /\ acting' \in Act /\ used' \in Nat /\ overlapped \subseteq overlapped' /\ overlapped' \subseteq Resource
      /\ \/ acting' = acting
         \/ /\ acting'.pc = "sent" /\ acting'.on = k
            /\ overlapped' = overlapped \cup (IF ~Shared /\ InFlight(k) # {} THEN {k} ELSE {})
  <2>1. [pc |-> "sent", on |-> k, value |-> 0] \in Act
    BY Numbers DEF Act
  <2>2. QED  BY <1>1, <2>1 DEF Acts, Changes, ResourcesTypeOK
<1>5. ResourcesTypeOK'
  BY <1>1, <1>2, <1>3, <1>4 DEF ResourcesTypeOK
<1>6. Recent'
  <2>1. \A j \in Resource : fact[j] \in Nat /\ fact'[j] \in Nat
    BY <1>3, <1>1, OnThePage, Numbers
  <2>2. \A j \in Resource : slot[j].value <= fact'[j]
    BY <1>1, <1>3, <2>1, OnThePage DEF Recent
  <2>3. \A j \in Resource : \A n \in Read : reading[j][n].pc = "answered" => reading[j][n].value <= fact'[j]
    BY <1>1, <1>3, <2>1, OnThePage DEF Recent
  <2>4. acting'.pc = "done" => acting'.value <= fact'[acting'.on]
    BY <1>1, <1>3, <1>4, <2>1, OnThePage DEF Recent
  <2>5. QED  BY <1>2, <2>2, <2>3, <2>4 DEF Recent
<1>7. ASSUME NEW j \in Resource \ overlapped' PROVE Paced(j)'
  <2>1. j \notin overlapped /\ Paced(j)
    BY <1>1, <1>4
  <2>2. InFlight(j)' = InFlight(j) /\ (Shared' <=> Shared)
    BY <1>2 DEF InFlight, Shared
  <2>3. Patching(j)' => InFlight(j) = {}
    BY <1>4, <1>7, <2>1, <2>2 DEF Patching, Paced
  <2>4. Patching(j)' /\ acting'.pc = "done" => acting' = acting /\ Patching(j)
    BY <1>4, <2>2 DEF Patching
  <2>5. QED  BY <1>2, <2>1, <2>2, <2>3, <2>4 DEF Paced
<1>8. Onward
  BY <1>1, <1>2, OnThePage DEF Onward
<1>9. QED  BY <1>5, <1>6, <1>7, <1>8 DEF ResourcesInv

(* The control plane's part of an act. *)
LEMMA ActLandsStep ==
    ASSUME ResourcesInv, ActLands
    PROVE  ResourcesInv' /\ Onward
<1>1. ResourcesTypeOK /\ Recent /\ \A j \in Resource \ overlapped : Paced(j)
  BY DEF ResourcesInv
<1>2. UNCHANGED <<page, slot, reading, allowed, hidden, armed, used, failed, overlapped>>
  BY DEF ActLands
<1>3. /\ fact' \in [Resource -> Fact] /\ \A j \in Resource : fact'[j] >= fact[j]
      /\ \/ acting' = NoAct
         \/ /\ acting' \in Act /\ acting # NoAct /\ acting'.on = acting.on
            /\ acting'.value = fact'[acting.on]
  <2>1. CASE fact[acting.on] < MaxFact
    <3>1. fact[acting.on] + 1 \in Fact
      BY <1>1, <2>1, OnThePage, Numbers DEF Fact
    <3>2. fact' = [fact EXCEPT ![acting.on] = fact[acting.on] + 1]
      BY <1>1, <2>1 DEF ActLands, ResourcesTypeOK
    <3>3. /\ fact' \in [Resource -> Fact] /\ fact'[acting.on] = fact[acting.on] + 1
          /\ \A j \in Resource : fact'[j] >= fact[j]
      BY <1>1, <3>1, <3>2, OnThePage DEF ResourcesTypeOK
    <3>4. acting' = [acting EXCEPT !.pc = "done", !.value = fact[acting.on] + 1]
      BY <2>1 DEF ActLands
    <3>5. acting' \in Act /\ acting'.on = acting.on /\ acting'.value = fact[acting.on] + 1
      BY <1>1, <3>1, <3>4, OnThePage DEF Act
    <3>6. acting # NoAct
      BY Blanks DEF ActLands
    <3>7. QED  BY <3>3, <3>5, <3>6
  <2>2. CASE ~(fact[acting.on] < MaxFact)
    BY <1>1, <2>2, OnThePage DEF ActLands, ResourcesTypeOK
  <2>3. QED  BY <2>1, <2>2
<1>4. ResourcesTypeOK'
  BY <1>1, <1>2, <1>3, Blanks DEF ResourcesTypeOK
<1>5. Recent'
  <2>1. \A j \in Resource : fact[j] \in Nat /\ fact'[j] \in Nat
    BY <1>3, <1>1, OnThePage, Numbers
  <2>2. \A j \in Resource : slot[j].value <= fact'[j]
    BY <1>1, <1>3, <2>1, OnThePage DEF Recent
  <2>3. \A j \in Resource : \A n \in Read : reading[j][n].pc = "answered" => reading[j][n].value <= fact'[j]
    BY <1>1, <1>3, <2>1, OnThePage DEF Recent
  <2>4. acting'.pc = "done" => acting'.value <= fact'[acting'.on]
    BY <1>1, <1>3, <2>1, OnThePage, Blanks
  <2>5. QED  BY <1>2, <2>2, <2>3, <2>4 DEF Recent
<1>6. ASSUME NEW j \in Resource \ overlapped PROVE Paced(j)'
  <2>1. InFlight(j)' = InFlight(j) /\ (Shared' <=> Shared)
    BY <1>2 DEF InFlight, Shared
  <2>2. Patching(j)' => Patching(j)
    BY <1>3, <2>1 DEF Patching
  <2>3. Patching(j)' => acting'.value = fact'[j]
    BY <1>3 DEF Patching
  <2>4. slot[j].value <= fact'[j] /\ slot[j].value \in Nat /\ fact'[j] \in Nat
    BY <1>2, <1>3, <1>5, <1>1, OnThePage, Numbers DEF Recent
  <2>5. Patching(j)' => acting'.value >= slot[j].value
    BY <2>3, <2>4
  <2>6. QED  BY <1>1, <1>2, <1>6, <2>1, <2>2, <2>5 DEF Paced
<1>7. Onward
  BY <1>1, <1>2, OnThePage DEF Onward
<1>8. QED  BY <1>2, <1>4, <1>5, <1>6, <1>7 DEF ResourcesInv

(* What the page does with the answer of an act. *)
LEMMA AppliesStep ==
    ASSUME ResourcesInv, Applies
    PROVE  ResourcesInv' /\ Onward
<1>1. ResourcesTypeOK /\ Recent /\ \A j \in Resource \ overlapped : Paced(j)
  BY DEF ResourcesInv
<1>2. /\ acting' = NoAct /\ acting.pc = "done" /\ acting # NoAct
      /\ UNCHANGED <<page, fact, allowed, hidden, armed, used, failed>>
  BY Blanks DEF Applies
<1>3. CASE Shared
  <2>1. /\ page.member \subseteq Resource /\ allowed \subseteq Resource
        /\ used \in Nat /\ failed \in Nat /\ hidden \in BOOLEAN /\ armed \in BOOLEAN
    BY <1>1 DEF ResourcesTypeOK, Page
  <2>2. CanPass(Resource) /\ Passes(Resource, allowed) /\ Resource \in SUBSET Resource
    BY <1>3 DEF Applies
  <2>3. QED  BY <1>2, <2>1, <2>2, PassesStep
<1>4. CASE ~Shared
  <2>1. /\ slot' = [slot EXCEPT ![acting.on] = [value |-> acting.value, state |-> "ready"]]
        /\ UNCHANGED <<reading, overlapped>>
    BY <1>4 DEF Applies
  <2>2. [value |-> acting.value, state |-> "ready"] \in Slot /\ acting.on \in Resource
    BY <1>1, OnThePage DEF Act, Slot
  <2>3. /\ slot' \in [Resource -> Slot] /\ slot'[acting.on].value = acting.value
        /\ \A j \in Resource \ {acting.on} : slot'[j] = slot[j]
    BY <1>1, <2>1, <2>2 DEF ResourcesTypeOK
  <2>4. ResourcesTypeOK'
    BY <1>1, <1>2, <2>1, <2>3, Blanks DEF ResourcesTypeOK
  <2>5. Recent'
    BY <1>1, <1>2, <2>1, <2>3, Blanks DEF Recent
  <2>6. ASSUME NEW j \in Resource \ overlapped PROVE Paced(j)'
    <3>1. InFlight(j)' = InFlight(j) /\ ~Patching(j)'
      BY <1>2, <2>1 DEF InFlight, Patching
    <3>2. j = acting.on => InFlight(j) = {}
      BY <1>1, <1>2, <1>4, <2>6 DEF Paced, Patching
    <3>3. \A n \in Read : reading[j][n].pc = "answered" => reading[j][n].value >= slot'[j].value
      <4>1. CASE j = acting.on
        BY <3>2, <4>1, Blanks DEF InFlight
      <4>2. CASE j # acting.on
        BY <1>1, <2>3, <2>6, <4>2 DEF Paced
      <4>3. QED  BY <4>1, <4>2
    <3>4. QED  BY <1>1, <2>1, <2>6, <3>1, <3>3 DEF Paced
  <2>7. Onward
    BY <1>1, <1>2, <1>4, <2>1, <2>3, OnThePage DEF Onward, Paced, Patching
  <2>8. QED  BY <1>2, <2>1, <2>4, <2>5, <2>6, <2>7 DEF ResourcesInv
<1>5. QED  BY <1>3, <1>4

LEMMA ResourcesStep == ResourcesInv /\ [Next_R]_vars_R => ResourcesInv' /\ Onward
<1> SUFFICES ASSUME ResourcesInv, [Next_R]_vars_R PROVE ResourcesInv' /\ Onward
  OBVIOUS
<1>1. ASSUME NEW k \in Resource, NEW n \in Read, Replies(k, n) \/ Breaks(k, n) \/ Lands(k, n)
      PROVE  ResourcesInv' /\ Onward
  BY <1>1, ReadStep, LandsStep
<1>2. CASE Refines \/ Ticks \/ Hides \/ Returns \/ Refreshes
  BY <1>2, AsksStep
<1>3. CASE ActLands \/ Applies
  BY <1>3, ActLandsStep, AppliesStep
<1>4. ASSUME NEW k \in Resource, Acts(k) \/ Changes(k) PROVE ResourcesInv' /\ Onward
  BY <1>4, ActsStep
<1>5. CASE UNCHANGED vars_R
  <2>1. ResourcesTypeOK
    BY DEF ResourcesInv
  <2>2. QED  BY <1>5, <2>1, OnThePage DEF vars_R, ResourcesInv, ResourcesTypeOK, Recent, Paced, Patching,
                Shared, InFlight, Onward
<1>6. QED  BY <1>1, <1>2, <1>3, <1>4, <1>5 DEF Next_R

LEMMA ResourcesInit == Init_R => ResourcesInv
<1> SUFFICES ASSUME Init_R PROVE ResourcesInv
  OBVIOUS
<1>1. /\ page \in Page /\ acting = NoAct /\ overlapped = {} /\ hidden = FALSE /\ used = 0 /\ failed = 0
      /\ allowed = page.claims /\ armed \in BOOLEAN /\ fact = [k \in Resource |-> 1]
  BY ResourcesAssumption DEF Init_R, Mounted
<1>2. \A k \in Resource : slot[k] \in Slot /\ slot[k].value = 0 /\ fact[k] = 1
  BY <1>1, Blanks DEF Init_R, Blank
<1>3. slot \in [Resource -> Slot]
  BY <1>2 DEF Init_R
<1>4. /\ reading \in [Resource -> [Read -> ReadDoc]]
      /\ \A k \in Resource : \A n \in Read : /\ reading[k][n].pc \in {"none", "sent"}
                                             /\ n # 1 => reading[k][n] = NoRead
  <2> DEFINE First(k, n) == IF Mounted /\ n = 1 /\ k \in page.claims
                            THEN [pc |-> "sent", value |-> 0] ELSE NoRead
  <2>1. reading = [k \in Resource |-> [n \in Read |-> First(k, n)]]
    BY DEF Init_R
  <2>2. \A k \in Resource : \A n \in Read : /\ First(k, n) \in ReadDoc /\ First(k, n).pc \in {"none", "sent"}
                                            /\ n # 1 => First(k, n) = NoRead
    BY Blanks
  <2> HIDE DEF First
  <2>3. QED  BY <2>1, <2>2
<1>5. ResourcesTypeOK
  BY <1>1, <1>3, <1>4, Blanks, Numbers DEF ResourcesTypeOK, Page
<1>6. Recent
  <2>1. \A k \in Resource : slot[k].value <= fact[k]
    BY <1>2
  <2>2. \A k \in Resource : \A n \in Read : reading[k][n].pc # "answered"
    BY <1>4
  <2>3. acting.pc # "done"
    BY <1>1, Blanks
  <2>4. QED  BY <2>1, <2>2, <2>3 DEF Recent
<1>7. \A k \in Resource : Paced(k)
  <2>1. TAKE k \in Resource
  <2>2. ~Patching(k)
    BY <1>1 DEF Patching
  <2>3. \A n \in InFlight(k) : n = 1
    BY <1>4 DEF InFlight
  <2>4. \A n \in Read : reading[k][n].pc # "answered"
    BY <1>4
  <2>5. QED  BY <2>2, <2>3, <2>4 DEF Paced
<1>8. QED  BY <1>5, <1>6, <1>7 DEF ResourcesInv
-----------------------------------------------------------------------------
(* The data of a page, and every read and act in flight, has its type.     *)
THEOREM ResourcesTyped == Spec_R => []ResourcesTypeOK
<1>1. ResourcesInv => ResourcesTypeOK
  BY DEF ResourcesInv
<1>2. ResourcesInv /\ [Next_R]_vars_R => ResourcesInv'
  BY ResourcesStep
<1>3. QED  BY <1>1, <1>2, ResourcesInit, PTL DEF Spec_R

(* However many resources and reads in flight, and whatever fails, is      *)
(* refused or is hidden: what a page shows of a resource never goes back,  *)
(* unless two reads of it, or a read and an act, were in flight together.  *)
THEOREM NeverGoesBack == Spec_R => NeverBackwards
<1>1. ResourcesInv /\ [Next_R]_vars_R => ResourcesInv'
  BY ResourcesStep
<1>2. ResourcesInv /\ [Next_R]_vars_R
        => [\A k \in Resource \ overlapped' :
              slot'[k].state # "unavailable" => slot'[k].value >= slot[k].value]_vars_R
  BY ResourcesStep DEF Onward
<1>3. QED  BY <1>1, <1>2, ResourcesInit, PTL DEF Spec_R, NeverBackwards

(* Side by side: each rests while the other moves, so both keep their      *)
(* invariants.                                                             *)
THEOREM PagesTyped == Spec_P => []PagesTypeOK
<1>1. Init_P => SessionsInv /\ ResourcesInv
  BY SessionsInit, ResourcesInit DEF Init_P
<1>2. SessionsInv /\ ResourcesInv /\ [Next_P]_vars_P => (SessionsInv /\ ResourcesInv)'
  BY SessionsStep, ResourcesStep DEF Next_P, vars_P
<1>3. SessionsInv /\ ResourcesInv => PagesTypeOK
  BY DEF PagesTypeOK, SessionsInv, ResourcesInv
<1>4. QED  BY <1>1, <1>2, <1>3, PTL DEF Spec_P
=============================================================================

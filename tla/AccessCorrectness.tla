--------------------------- MODULE AccessCorrectness ---------------------------
(***************************************************************************)
(* What signing in and out guarantees.                                     *)
(***************************************************************************)
EXTENDS Access

\* Type invariant.
TypeOK ==
  /\ challenge \in Seq(Challenge) /\ Len(challenge) <= MaxChallenges
  /\ session \in Seq(Session) /\ Len(session) <= MaxSessions
  /\ account \in [Names \cup {Wallet} -> {"none", "active", "inactive"}]
  /\ failures \in [Names -> Nat]
  /\ cookie \in [id : 0..Len(session), ttl : 0..Ttl]
  /\ tab \in [Tabs -> Tab]
  /\ \A t \in Tabs : tab[t].id \in 0..Len(session) /\ tab[t].nonce \in 0..Len(challenge)

(* A session that the mirror admits has a row that is not revoked, however *)
(* sign-out, sliding refresh and sign-in interleave: once logout has       *)
(* revoked a session, no later request is served with it.                  *)
MirrorIsLive ==
  /\ TypeOK
  /\ \A s \in DOMAIN session : session[s].ttl > 0 => ~session[s].revoked

(* A challenge opens one session at most: the nonce is claimed atomically, *)
(* also when two verifications find it unused.                             *)
NonceOpensOnce ==
  \A s, u \in DOMAIN session :
    session[s].birth = session[u].birth /\ session[s].birth # 0 => s = u

(* Failed logins of a name stay within the free ones and those that were   *)
(* under way when the backoff began: every request that checked before the *)
(* counter rose has still to fail, and there is one for a tab.             *)
FailuresBounded ==
  \A n \in Names :
    failures[n] + Cardinality({t \in Tabs : tab[t].who = n /\ tab[t].at \in {"password", "fail"}})
      <= FreeFailures + Cardinality(Tabs)

--------------------------------------------------------------------------------
(* The inductive invariant                                                 *)

\* What a tab k holds at the stages of its request.
StageOK(k) ==
  /\ k.doing = "nothing" <=> k.at = "idle"
  /\ k.at \in {"refresh", "principal", "delete", "revoke", "mirror"} => k.id # Nobody
  /\ k.at \in {"backoff", "password", "fail", "clear", "check", "create"} => k.who \in Names
  /\ k.at \in {"find", "claim"} => k.nonce # 0
  /\ k.nonce # 0 => k.at \in {"find", "claim", "upsert", "row"}

StagesOK == \A t \in Tabs : StageOK(tab[t])

\* A row without its mirror is known to the request that creates it only, ...
NewRowIsPrivate ==
  \A t \in Tabs : tab[t].at = "mirror" =>
    /\ ~session[tab[t].id].revoked
    /\ cookie.id # tab[t].id
    /\ \A u \in Tabs \ {t} : tab[u].id # tab[t].id

\* ... and a mirror that was deleted for a revocation does not come back.
RevokedIsGone ==
  \A t \in Tabs : tab[t].at = "revoke" => session[tab[t].id].ttl = 0

\* A request with a claim to a challenge, before it opens its session.
Claims(t) == tab[t].nonce # 0 /\ tab[t].at \in {"upsert", "row"}

\* Claims and sessions share out the used challenges.
ClaimsAreUsed ==
  /\ \A t \in Tabs : Claims(t) =>
       /\ challenge[tab[t].nonce] = "used"
       /\ \A u \in Tabs \ {t} : Claims(u) => tab[u].nonce # tab[t].nonce
       /\ \A s \in DOMAIN session : session[s].birth # tab[t].nonce
  /\ \A s \in DOMAIN session : session[s].birth # 0 =>
       session[s].birth \in DOMAIN challenge /\ challenge[session[s].birth] = "used"

AccessInv ==
  /\ MirrorIsLive /\ NonceOpensOnce
  /\ StagesOK /\ NewRowIsPrivate /\ RevokedIsGone /\ ClaimsAreUsed

================================================================================

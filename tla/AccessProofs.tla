------------------------------ MODULE AccessProofs ------------------------------
(***************************************************************************)
(* What signing in and out guarantees, for any number of tabs, names,      *)
(* challenges and sessions.                                                *)
(***************************************************************************)
EXTENDS AccessCorrectness, SequenceTheorems, FiniteSetTheorems, TLAPS

(* The requests of one tab, as Next lists them.                            *)
TabStep(t) ==
  \/ FetchMe(t) \/ Disconnect(t) \/ GetSession(t) \/ Refresh(t) \/ Principal(t)
  \/ DeleteMirror(t) \/ Revoke(t) \/ LoggedOut(t)
  \/ Connect(t) \/ IssueChallenge(t) \/ Resend(t) \/ FindChallenge(t) \/ Claim(t)
  \/ UpsertPlayer(t)
  \/ Login(t) \/ Backoff(t) \/ Password(t) \/ Fail(t) \/ ClearFailures(t)
  \/ Register(t) \/ CheckTaken(t) \/ CreateAccount(t)
  \/ CreateRow(t) \/ SetMirror(t) \/ SignedIn(t) \/ GiveUp(t)

(* Initially nobody has asked for anything.                                *)
LEMMA InitType == Init => TypeOK /\ StagesOK
  BY AccessAssumption DEF AccessAssumption, Init, TypeOK, StagesOK, StageOK, NewTab, Tab, NoCookie,
     Nobody, Session, Challenge

--------------------------------------------------------------------------------
(* Types                                                                   *)

TabsOK(k, sessions, challenges) ==
  /\ k \in [Tabs -> Tab]
  /\ \A t \in Tabs : k[t].id \in 0..sessions /\ k[t].nonce \in 0..challenges

Stages == {"idle", "get", "refresh", "principal", "delete", "revoke", "challenge", "find",
           "claim", "upsert", "backoff", "password", "fail", "clear", "check", "create",
           "row", "mirror", "answer"}

Doings == {"nothing", "me", "logout", "wallet", "login", "register"}

(* One field of a tab changes.                                             *)
LEMMA FieldType ==
  ASSUME NEW k \in Tab
  PROVE  /\ \A stage \in Stages : [k EXCEPT !.at = stage] \in Tab
         /\ \A doing \in Doings : [k EXCEPT !.doing = doing] \in Tab
         /\ \A n \in Nat : [k EXCEPT !.id = n] \in Tab /\ [k EXCEPT !.nonce = n] \in Tab
         /\ \A n \in Names \cup {Wallet} : [k EXCEPT !.who = n] \in Tab
         /\ \A me \in BOOLEAN : [k EXCEPT !.me = me] \in Tab
         /\ k.me \in BOOLEAN /\ k.id \in Nat /\ k.nonce \in Nat
  BY DEF Tab, Stages, Doings

\* A tab is given its challenge, or its session in place of the challenge.
WithChallenge(k, n) == [k EXCEPT !.at = "find", !.nonce = n]
WithSession(k, n) == [k EXCEPT !.at = "mirror", !.id = n, !.nonce = 0]

(* What it is given is in its fields.                                      *)
LEMMA GivenType ==
  ASSUME NEW k \in Tab, NEW n \in Nat
  PROVE  /\ WithChallenge(k, n) \in Tab
         /\ WithChallenge(k, n).id = k.id /\ WithChallenge(k, n).nonce = n
         /\ WithSession(k, n) \in Tab
         /\ WithSession(k, n).id = n /\ WithSession(k, n).nonce = 0
  BY DEF Tab, WithChallenge, WithSession

(* A tab becomes a tab with a session and a challenge that exist.          *)
LEMMA OneTabType ==
  ASSUME NEW m \in Nat, NEW n \in Nat, TabsOK(tab, m, n), NEW t \in Tabs,
         NEW k \in Tab, k.id \in 0..m, k.nonce \in 0..n, tab' = [tab EXCEPT ![t] = k]
  PROVE  TabsOK(tab', m, n)
  BY DEF TabsOK

(* A tab that rests, goes on or begins a request is still a tab.           *)
LEMMA TabType ==
  ASSUME NEW m \in Nat, NEW n \in Nat, TabsOK(tab, m, n), NEW t \in Tabs,
         \/ \E me \in BOOLEAN : Rest(t, me)
         \/ \E stage \in Stages : Go(t, stage)
         \/ Unauthenticated(t)
         \/ UNCHANGED tab
  PROVE  TabsOK(tab', m, n)
  <1>1. ASSUME NEW me \in BOOLEAN, Rest(t, me) PROVE TabsOK(tab', m, n)
    <2> DEFINE k == [NewTab EXCEPT !.me = me]
    <2>1. k \in Tab /\ k.id = 0 /\ k.nonce = 0
      BY DEF NewTab, Tab, Nobody
    <2>2. tab' = [tab EXCEPT ![t] = k] /\ 0 \in 0..m /\ 0 \in 0..n
      BY <1>1 DEF Rest
    <2> HIDE DEF k
    <2> QED
      BY <2>1, <2>2, OneTabType
  <1>2. ASSUME NEW stage \in Stages, Go(t, stage) PROVE TabsOK(tab', m, n)
    <2> DEFINE k == [tab[t] EXCEPT !.at = stage]
    <2>1. k \in Tab /\ k.id = tab[t].id /\ k.nonce = tab[t].nonce
      BY FieldType DEF TabsOK
    <2>2. tab' = [tab EXCEPT ![t] = k]
      BY <1>2 DEF Go
    <2> HIDE DEF k
    <2> QED
      BY <2>1, <2>2, OneTabType DEF TabsOK
  <1>3. CASE Unauthenticated(t)
    BY <1>1, <1>2, <1>3 DEF Unauthenticated, Stages
  <1> QED
    BY <1>1, <1>2, <1>3

(* So is one that begins a request with the cookie.                        *)
LEMMA BeginType ==
  ASSUME TypeOK, NEW t \in Tabs,
         NEW doing \in {"me", "logout", "wallet", "login", "register"},
         NEW stage \in {"get", "challenge", "backoff", "check"},
         NEW who \in Names \cup {Wallet}, Begin(t, doing, stage, who)
  PROVE  TypeOK'
  <1>1. Len(session) \in Nat /\ Len(challenge) \in Nat
    BY LenProperties DEF TypeOK
  <1>2. TabsOK(tab, Len(session), Len(challenge)) /\ cookie.id \in 0..Len(session)
    BY DEF TypeOK, TabsOK
  <1>3. TabsOK(tab', Len(session), Len(challenge))
    <2> DEFINE k == [tab[t] EXCEPT !.doing = doing, !.at = stage, !.who = who,
                                   !.id = cookie.id]
    <2>0. tab[t] \in Tab /\ cookie.id \in Nat
      BY <1>1, <1>2 DEF TabsOK
    <2>1. k \in Tab /\ k.id = cookie.id /\ k.nonce = tab[t].nonce
      BY <2>0 DEF Tab
    <2>2. tab' = [tab EXCEPT ![t] = k]
      BY DEF Begin
    <2> HIDE DEF k
    <2> QED
      BY <1>1, <1>2, <2>1, <2>2, OneTabType DEF TabsOK
  <1> QED
    BY <1>3 DEF TypeOK, TabsOK, Begin

(* A request that changes nothing but its own stage keeps the types.       *)
LEMMA MoveType ==
  ASSUME TypeOK, NEW t \in Tabs,
         UNCHANGED <<challenge, session, account, failures, cookie>>,
         \/ \E me \in BOOLEAN : Rest(t, me)
         \/ \E stage \in Stages : Go(t, stage)
         \/ Unauthenticated(t)
  PROVE  TypeOK'
  <1>1. Len(session) \in Nat /\ Len(challenge) \in Nat
    BY LenProperties DEF TypeOK
  <1>2. TabsOK(tab, Len(session), Len(challenge))
    BY DEF TypeOK, TabsOK
  <1>3. TabsOK(tab', Len(session), Len(challenge))
    BY <1>1, <1>2, TabType
  <1> QED
    BY <1>3 DEF TypeOK, TabsOK

(* A mirror that is set, prolonged or deleted, and a row that is revoked.  *)
LEMMA SessionType ==
  ASSUME session \in Seq(Session), NEW s \in 1..Len(session), NEW ttl \in 0..Ttl,
         \/ session' = [session EXCEPT ![s].ttl = ttl]
         \/ session' = [session EXCEPT ![s].revoked = TRUE]
  PROVE  session' \in Seq(Session) /\ Len(session') = Len(session)
  <1>1. session[s] \in Session
    BY ElementOfSeq
  <1>2. PICK new \in Session : session' = [session EXCEPT ![s] = new]
    <2>1. CASE session' = [session EXCEPT ![s].ttl = ttl]
      <3>1. [session[s] EXCEPT !.ttl = ttl] \in Session
        BY <1>1 DEF Session
      <3> QED
        BY <2>1, <3>1
    <2>2. CASE session' = [session EXCEPT ![s].revoked = TRUE]
      <3>1. [session[s] EXCEPT !.revoked = TRUE] \in Session
        BY <1>1 DEF Session
      <3> QED
        BY <2>2, <3>1
    <2> QED
      BY <2>1, <2>2
  <1> QED
    BY <1>2, ExceptSeq

(* A challenge that changes its status.                                    *)
LEMMA ChallengeType ==
  ASSUME challenge \in Seq(Challenge), NEW n \in 1..Len(challenge),
         NEW status \in Challenge, challenge' = [challenge EXCEPT ![n] = status]
  PROVE  challenge' \in Seq(Challenge) /\ Len(challenge') = Len(challenge)
  BY ExceptSeq

(* The steps of one tab keep the types.                                    *)
LEMMA TabStepType ==
  ASSUME TypeOK, StagesOK, NEW t \in Tabs, TabStep(t)
  PROVE  TypeOK'
  <1>0. /\ Len(session) \in Nat /\ Len(challenge) \in Nat
        /\ DOMAIN session = 1..Len(session) /\ DOMAIN challenge = 1..Len(challenge)
        /\ TabsOK(tab, Len(session), Len(challenge))
        /\ tab[t] \in Tab /\ tab[t].me \in BOOLEAN /\ tab[t].who \in Names \cup {Wallet}
        /\ tab[t].id \in 0..Len(session) /\ tab[t].nonce \in 0..Len(challenge)
    BY LenProperties DEF TypeOK, TabsOK, Tab
  <1>1. CASE FetchMe(t) \/ Disconnect(t) \/ Connect(t) \/ Login(t) \/ Register(t)
    BY <1>1, BeginType DEF FetchMe, Disconnect, Connect, Login, Register
  <1>2. CASE GetSession(t) \/ Principal(t) \/ FindChallenge(t) \/ Backoff(t) \/ Password(t)
             \/ CheckTaken(t)
    BY <1>0, <1>2, MoveType
       DEF GetSession, Principal, FindChallenge, Backoff, Password, CheckTaken, Stages
  <1>3. CASE GiveUp(t)
    BY <1>0, <1>3, MoveType DEF GiveUp
  <1>4. CASE Refresh(t) \/ DeleteMirror(t) \/ Revoke(t) \/ SetMirror(t)
    <2>1. tab[t].id \in 1..Len(session)
      BY <1>0, <1>4 DEF StagesOK, StageOK, Refresh, DeleteMirror, Revoke, SetMirror, At, Nobody
    <2>2. PICK ttl \in 0..Ttl :
            \/ session' = [session EXCEPT ![tab[t].id].ttl = ttl]
            \/ session' = [session EXCEPT ![tab[t].id].revoked = TRUE]
      BY <1>4, AccessAssumption DEF AccessAssumption, Refresh, DeleteMirror, Revoke, SetMirror
    <2>3. session' \in Seq(Session) /\ Len(session') = Len(session)
      BY <2>1, <2>2, SessionType DEF TypeOK
    <2>4. TabsOK(tab', Len(session), Len(challenge))
      BY <1>0, <1>4, TabType DEF Refresh, DeleteMirror, Revoke, SetMirror, Stages
    <2> QED
      BY <1>4, <2>3, <2>4 DEF TypeOK, TabsOK, Refresh, DeleteMirror, Revoke, SetMirror
  <1>5. CASE LoggedOut(t)
    <2>1. TabsOK(tab', Len(session), Len(challenge))
      BY <1>0, <1>5, TabType DEF LoggedOut
    <2> QED
      BY <1>0, <1>5, <2>1, AccessAssumption
         DEF TypeOK, TabsOK, LoggedOut, NoCookie, Nobody, AccessAssumption
  <1>6. CASE IssueChallenge(t)
    <2> DEFINE k == WithChallenge(tab[t], Len(challenge) + 1)
    <2>0. Len(challenge) + 1 \in Nat
      BY <1>0
    <2>1. k \in Tab /\ k.id = tab[t].id /\ k.nonce = Len(challenge) + 1
      BY <1>0, <2>0, GivenType
    <2>2. tab' = [tab EXCEPT ![t] = k]
      BY <1>6 DEF IssueChallenge, WithChallenge
    <2> HIDE DEF k
    <2>3. challenge' \in Seq(Challenge) /\ Len(challenge') = Len(challenge) + 1
      BY <1>6, AppendProperties DEF IssueChallenge, TypeOK, Challenge
    <2>4. TabsOK(tab, Len(session), Len(challenge) + 1)
      BY <1>0 DEF TabsOK
    <2>5. k.id \in 0..Len(session) /\ k.nonce \in 0..(Len(challenge) + 1)
      BY <1>0, <2>1
    <2>6. TabsOK(tab', Len(session), Len(challenge) + 1)
      BY <1>0, <2>0, <2>1, <2>2, <2>4, <2>5, OneTabType
    <2> QED
      BY <1>0, <1>6, <2>3, <2>6, AccessAssumption
         DEF IssueChallenge, TypeOK, TabsOK, AccessAssumption
  <1>7. CASE Resend(t)
    <2>1. PICK u \in Tabs : tab' = [tab EXCEPT ![t] = [tab[u] EXCEPT !.me = tab[t].me]]
      BY <1>7 DEF Resend
    <2> DEFINE k == [tab[u] EXCEPT !.me = tab[t].me]
    <2>2. k \in Tab /\ k.id = tab[u].id /\ k.nonce = tab[u].nonce
      BY <1>0, FieldType DEF TabsOK
    <2>3. tab' = [tab EXCEPT ![t] = k]
      BY <2>1
    <2> HIDE DEF k
    <2>4. TabsOK(tab', Len(session), Len(challenge))
      BY <1>0, <2>2, <2>3, OneTabType DEF TabsOK
    <2> QED
      BY <1>7, <2>4 DEF Resend, TypeOK, TabsOK
  <1>8. CASE Claim(t)
    <2>1. tab[t].nonce \in 1..Len(challenge)
      BY <1>0, <1>8 DEF StagesOK, StageOK, Claim, At
    <2>2. challenge' \in Seq(Challenge) /\ Len(challenge') = Len(challenge)
      BY <1>8, <2>1, ChallengeType DEF TypeOK, Claim, Challenge
    <2>3. TabsOK(tab', Len(session), Len(challenge))
      BY <1>0, <1>8, TabType DEF Claim, Stages
    <2> QED
      BY <1>8, <2>2, <2>3 DEF TypeOK, TabsOK, Claim
  <1>9. CASE UpsertPlayer(t) \/ Fail(t) \/ ClearFailures(t) \/ CreateAccount(t)
    <2>1. TabsOK(tab', Len(session), Len(challenge))
      BY <1>0, <1>9, TabType DEF UpsertPlayer, Fail, ClearFailures, CreateAccount, Stages
    <2>2. tab[t].at = "fail" => tab[t].who \in Names
      BY DEF StagesOK, StageOK
    <2>3. account' \in [Names \cup {Wallet} -> {"none", "active", "inactive"}]
      BY <1>9 DEF TypeOK, UpsertPlayer, Fail, ClearFailures, CreateAccount
    <2>4. failures' \in [Names -> Nat]
      BY <1>9, <2>2 DEF TypeOK, UpsertPlayer, Fail, ClearFailures, CreateAccount, At
    <2> QED
      BY <1>9, <2>1, <2>3, <2>4
         DEF TypeOK, TabsOK, UpsertPlayer, Fail, ClearFailures, CreateAccount
  <1>10. CASE CreateRow(t)
    <2> DEFINE k == WithSession(tab[t], Len(session) + 1)
               s == [who |-> tab[t].who, birth |-> tab[t].nonce, revoked |-> FALSE, ttl |-> 0]
    <2>0. Len(session) + 1 \in Nat /\ 0 \in Nat
      BY <1>0
    <2>1. k \in Tab /\ k.id = Len(session) + 1 /\ k.nonce = 0
      BY <1>0, <2>0, GivenType
    <2>2. tab' = [tab EXCEPT ![t] = k] /\ session' = Append(session, s)
      BY <1>10 DEF CreateRow, WithSession
    <2>3. s \in Session
      BY <1>0, AccessAssumption DEF Session, AccessAssumption
    <2> HIDE DEF k, s
    <2>4. session' \in Seq(Session) /\ Len(session') = Len(session) + 1
      BY <2>2, <2>3, AppendProperties DEF TypeOK
    <2>5. TabsOK(tab, Len(session) + 1, Len(challenge))
      BY <1>0 DEF TabsOK
    <2>6. k.id \in 0..(Len(session) + 1) /\ k.nonce \in 0..Len(challenge)
      BY <1>0, <2>1
    <2>7. TabsOK(tab', Len(session) + 1, Len(challenge))
      BY <1>0, <2>0, <2>1, <2>2, <2>5, <2>6, OneTabType
    <2> QED
      BY <1>0, <1>10, <2>4, <2>7, AccessAssumption
         DEF CreateRow, TypeOK, TabsOK, AccessAssumption
  <1>11. CASE SignedIn(t)
    <2>1. TabsOK(tab', Len(session), Len(challenge))
      <3>1. CASE tab[t].doing = "wallet"
        <4> DEFINE k == [tab[t] EXCEPT !.doing = "me", !.at = "get"]
        <4>1. k \in Tab /\ k.id = tab[t].id /\ k.nonce = tab[t].nonce
          BY <1>0 DEF Tab
        <4>2. tab' = [tab EXCEPT ![t] = k]
          BY <1>11, <3>1 DEF SignedIn
        <4> HIDE DEF k
        <4> QED
          BY <1>0, <4>1, <4>2, OneTabType
      <3>2. CASE tab[t].doing # "wallet"
        BY <1>0, <1>11, <3>2, TabType DEF SignedIn
      <3> QED
        BY <3>1, <3>2
    <2> QED
      BY <1>0, <1>11, <2>1, AccessAssumption DEF SignedIn, TypeOK, TabsOK, AccessAssumption
  <1> QED
    BY <1>1, <1>2, <1>3, <1>4, <1>5, <1>6, <1>7, <1>8, <1>9, <1>10, <1>11 DEF TabStep

(* Time and the administrator keep the types.                              *)
LEMMA OutsideType ==
  ASSUME TypeOK, Tick \/ ExpireChallenge \/ Forget \/ SetActive
  PROVE  TypeOK'
  <1>0. /\ Len(session) \in Nat /\ DOMAIN session = 1..Len(session)
        /\ DOMAIN challenge = 1..Len(challenge)
    BY LenProperties DEF TypeOK
  <1>1. CASE Tick
    <2>1. \A s \in DOMAIN session : [session[s] EXCEPT !.ttl = Less(@)] \in Session
      <3> SUFFICES ASSUME NEW s \in DOMAIN session
                   PROVE  [session[s] EXCEPT !.ttl = Less(@)] \in Session
        OBVIOUS
      <3>1. session[s] \in Session
        BY <1>0, ElementOfSeq DEF TypeOK
      <3>2. Less(session[s].ttl) \in 0..Ttl
        BY <3>1, AccessAssumption DEF Session, Less, AccessAssumption
      <3> QED
        BY <3>1, <3>2 DEF Session
    <2>2. session' \in Seq(Session) /\ Len(session') = Len(session)
      BY <1>0, <1>1, <2>1, IsASeq, LenProperties DEF Tick, TypeOK
    <2>3. cookie' \in [id : 0..Len(session), ttl : 0..Ttl]
      BY <1>0, <1>1, AccessAssumption DEF Tick, TypeOK, NoCookie, Nobody, AccessAssumption
    <2> QED
      BY <1>1, <2>2, <2>3 DEF Tick, TypeOK
  <1>2. CASE ExpireChallenge
    <2>1. PICK n \in 1..Len(challenge) : challenge' = [challenge EXCEPT ![n] = "expired"]
      BY <1>0, <1>2 DEF ExpireChallenge, Open
    <2>2. challenge' \in Seq(Challenge) /\ Len(challenge') = Len(challenge)
      BY <2>1, ChallengeType DEF TypeOK, Challenge
    <2> QED
      BY <1>2, <2>2 DEF ExpireChallenge, TypeOK
  <1>3. CASE Forget
    BY <1>3 DEF Forget, TypeOK
  <1>4. CASE SetActive
    BY <1>4 DEF SetActive, PatchUser, TypeOK
  <1> QED
    BY <1>1, <1>2, <1>3, <1>4

--------------------------------------------------------------------------------
(* Stages                                                                  *)

(* A step of a tab's request moves this tab only, from one stage with all  *)
(* it needs to another.                                                    *)
LEMMA OwnTab ==
  ASSUME TypeOK, StagesOK, NEW t \in Tabs, TabStep(t)
  PROVE  \E k : tab' = [tab EXCEPT ![t] = k] /\ StageOK(k)
  <1>0. tab[t] \in Tab /\ StageOK(tab[t])
    BY DEF TypeOK, StagesOK
  <1>1. ASSUME NEW me, Rest(t, me) PROVE \E k : tab' = [tab EXCEPT ![t] = k] /\ StageOK(k)
    <2>1. StageOK([NewTab EXCEPT !.me = me])
      BY DEF NewTab, StageOK, Nobody
    <2> QED
      BY <1>1, <2>1 DEF Rest
  <1>2. ASSUME NEW stage, Go(t, stage), StageOK([tab[t] EXCEPT !.at = stage])
        PROVE  \E k : tab' = [tab EXCEPT ![t] = k] /\ StageOK(k)
    BY <1>2 DEF Go
  <1>3. CASE Unauthenticated(t) /\ tab[t].at \in {"get", "principal"}
    BY <1>0, <1>1, <1>2, <1>3 DEF Unauthenticated, StageOK, Tab
  <1>4. ASSUME NEW doing \in Doings \ {"nothing"},
               NEW stage \in {"get", "challenge", "backoff", "check"}, NEW who,
               stage \in {"backoff", "check"} => who \in Names, Begin(t, doing, stage, who)
        PROVE  \E k : tab' = [tab EXCEPT ![t] = k] /\ StageOK(k)
    <2> DEFINE k == [tab[t] EXCEPT !.doing = doing, !.at = stage, !.who = who,
                                   !.id = cookie.id]
    <2>1. tab' = [tab EXCEPT ![t] = k] /\ tab[t].nonce = 0
      BY <1>0, <1>4 DEF Begin, StageOK
    <2>2. StageOK(k)
      BY <1>0, <1>4, <2>1 DEF StageOK, Tab
    <2> QED
      BY <2>1, <2>2
  <1>5. CASE FetchMe(t) \/ Disconnect(t) \/ Connect(t) \/ Login(t) \/ Register(t)
    BY <1>4, <1>5 DEF FetchMe, Disconnect, Connect, Login, Register, Doings
  <1>6. CASE GetSession(t) \/ Principal(t)
    BY <1>0, <1>1, <1>2, <1>3, <1>6 DEF GetSession, Principal, At, StageOK, Tab
  <1>7. CASE \/ Refresh(t) \/ DeleteMirror(t) \/ Revoke(t) \/ SetMirror(t)
    BY <1>0, <1>2, <1>7 DEF Refresh, DeleteMirror, Revoke, SetMirror, At, StageOK, Tab
  <1>8. CASE \/ FindChallenge(t) \/ Claim(t) \/ UpsertPlayer(t)
    BY <1>0, <1>1, <1>2, <1>8 DEF FindChallenge, Claim, UpsertPlayer, At, StageOK, Tab
  <1>9. CASE Backoff(t) \/ Password(t) \/ Fail(t) \/ ClearFailures(t) \/ CheckTaken(t)
             \/ CreateAccount(t)
    BY <1>0, <1>1, <1>2, <1>9
       DEF Backoff, Password, Fail, ClearFailures, CheckTaken, CreateAccount, At, StageOK, Tab
  <1>10. CASE GiveUp(t) \/ LoggedOut(t)
    BY <1>1, <1>10 DEF GiveUp, LoggedOut
  <1>11. CASE IssueChallenge(t)
    <2>1. StageOK(WithChallenge(tab[t], Len(challenge) + 1))
      BY <1>0, <1>11, LenProperties DEF IssueChallenge, WithChallenge, StageOK, Tab, TypeOK, At
    <2> QED
      BY <1>11, <2>1 DEF IssueChallenge, WithChallenge
  <1>12. CASE Resend(t)
    <2>1. PICK u \in Tabs :
            At(u, "find") /\ tab' = [tab EXCEPT ![t] = [tab[u] EXCEPT !.me = tab[t].me]]
      BY <1>12 DEF Resend
    <2>2. tab[u] \in Tab /\ StageOK(tab[u])
      BY DEF TypeOK, StagesOK
    <2>3. StageOK([tab[u] EXCEPT !.me = tab[t].me])
      BY <2>2 DEF StageOK, Tab
    <2> QED
      BY <2>1, <2>3
  <1>13. CASE CreateRow(t)
    <2>1. StageOK(WithSession(tab[t], Len(session) + 1))
      BY <1>0, <1>13, LenProperties DEF CreateRow, WithSession, StageOK, Tab, TypeOK, At, Nobody
    <2> QED
      BY <1>13, <2>1 DEF CreateRow, WithSession
  <1>14. CASE SignedIn(t)
    <2>1. StageOK([tab[t] EXCEPT !.doing = "me", !.at = "get"])
      BY <1>0, <1>14 DEF SignedIn, StageOK, Tab, At
    <2> QED
      BY <1>1, <1>14, <2>1 DEF SignedIn
  <1> QED
    BY <1>5, <1>6, <1>7, <1>8, <1>9, <1>10, <1>11, <1>12, <1>13, <1>14 DEF TabStep

(* The other tabs are where they were.                                     *)
LEMMA OtherTabs ==
  ASSUME TypeOK, StagesOK, NEW t \in Tabs, TabStep(t)
  PROVE  StagesOK' /\ \A u \in Tabs \ {t} : tab'[u] = tab[u]
  <1>1. PICK k : tab' = [tab EXCEPT ![t] = k] /\ StageOK(k)
    BY OwnTab
  <1>2. StageOK(tab'[t]) /\ \A u \in Tabs \ {t} : tab'[u] = tab[u]
    BY <1>1 DEF TypeOK
  <1> QED
    BY <1>2 DEF StagesOK

--------------------------------------------------------------------------------
(* Sessions                                                                *)

SessionsOK ==
  /\ \A s \in DOMAIN session : session[s].ttl > 0 => ~session[s].revoked
  /\ NewRowIsPrivate /\ RevokedIsGone

(* A session is created at the end.                                        *)
LEMMA RowAppended ==
  ASSUME session \in Seq(Session), NEW row \in Session, session' = Append(session, row)
  PROVE  /\ DOMAIN session' = DOMAIN session \cup {Len(session) + 1}
         /\ Len(session) + 1 \notin DOMAIN session
         /\ \A u \in DOMAIN session : session'[u] = session[u]
         /\ session'[Len(session) + 1] = row
  <1>1. Len(session) \in Nat /\ DOMAIN session = 1..Len(session)
    BY LenProperties
  <1>2. /\ Len(session') = Len(session) + 1 /\ session' \in Seq(Session)
        /\ \A u \in 1..Len(session) : session'[u] = session[u]
        /\ session'[Len(session) + 1] = row
    BY AppendProperties
  <1>3. DOMAIN session' = 1..(Len(session) + 1)
    BY <1>2, LenProperties
  <1> QED
    BY <1>1, <1>2, <1>3

(* What one session becomes, field by field.                               *)
LEMMA SessionFields ==
  ASSUME session \in Seq(Session), NEW s \in DOMAIN session, NEW ttl
  PROVE  /\ session' = [session EXCEPT ![s].ttl = ttl] =>
              /\ DOMAIN session' = DOMAIN session
              /\ \A u \in DOMAIN session :
                   /\ session'[u].revoked = session[u].revoked
                   /\ session'[u].birth = session[u].birth
                   /\ session'[u].ttl = IF u = s THEN ttl ELSE session[u].ttl
         /\ session' = [session EXCEPT ![s].revoked = TRUE] =>
              /\ DOMAIN session' = DOMAIN session
              /\ \A u \in DOMAIN session :
                   /\ u # s => session'[u].revoked = session[u].revoked
                   /\ session'[u].birth = session[u].birth
                   /\ session'[u].ttl = session[u].ttl
  <1>0. session \in [1..Len(session) -> Session] /\ DOMAIN session = 1..Len(session)
    BY LenProperties, SeqDef
  <1>1. \A u \in DOMAIN session : session[u] \in Session /\ session[u].revoked \in BOOLEAN
    BY <1>0 DEF Session
  <1>2. ASSUME session' = [session EXCEPT ![s].ttl = ttl]
        PROVE  /\ DOMAIN session' = DOMAIN session
               /\ \A u \in DOMAIN session :
                    /\ session'[u].revoked = session[u].revoked
                    /\ session'[u].birth = session[u].birth
                    /\ session'[u].ttl = IF u = s THEN ttl ELSE session[u].ttl
    BY <1>0, <1>1, <1>2 DEF Session
  <1>3. ASSUME session' = [session EXCEPT ![s].revoked = TRUE]
        PROVE  /\ DOMAIN session' = DOMAIN session
               /\ \A u \in DOMAIN session :
                    /\ u # s => session'[u].revoked = session[u].revoked
                    /\ session'[u].birth = session[u].birth
                    /\ session'[u].ttl = session[u].ttl
    BY <1>0, <1>1, <1>3 DEF Session
  <1> QED
    BY <1>2, <1>3

(* Where a tab may take the name of a session from: the cookie, another    *)
(* request, or nowhere.                                                    *)
OldNames(t) == {Nobody, cookie.id, tab[t].id} \cup {tab[u].id : u \in {w \in Tabs : At(w, "find")}}

(* A step that leaves the sessions alone and learns no new name.           *)
LEMMA QuietStep ==
  ASSUME TypeOK, StagesOK, SessionsOK, NEW t \in Tabs, TabStep(t), session' = session,
         tab'[t].at \notin {"mirror", "revoke"}, tab'[t].id \in OldNames(t),
         cookie'.id \in OldNames(t)
  PROVE  SessionsOK'
  <1>1. \A u \in Tabs \ {t} : tab'[u] = tab[u]
    BY OtherTabs
  <1>2. \A u \in Tabs \ {t} : tab[u].at = "mirror" => tab[u].id \notin OldNames(t)
    BY DEF SessionsOK, NewRowIsPrivate, OldNames, At, StagesOK, StageOK
  <1>3. NewRowIsPrivate'
    BY <1>1, <1>2 DEF SessionsOK, NewRowIsPrivate
  <1>4. RevokedIsGone'
    BY <1>1 DEF SessionsOK, RevokedIsGone
  <1> QED
    BY <1>3, <1>4 DEF SessionsOK

(* The requests of a tab keep sessions, mirrors and revocations in step.   *)
LEMMA TabStepSessions ==
  ASSUME TypeOK, StagesOK, SessionsOK, NEW t \in Tabs, TabStep(t)
  PROVE  SessionsOK'
  <1>0. /\ \A u \in Tabs \ {t} : tab'[u] = tab[u]
        /\ tab[t] \in Tab /\ tab \in [Tabs -> Tab]
        /\ tab[t].id \in 0..Len(session)
        /\ Len(session) \in Nat /\ DOMAIN session = 1..Len(session)
    BY OtherTabs, LenProperties DEF TypeOK
  <1>1. ASSUME NEW doing, NEW stage \in {"get", "challenge", "backoff", "check"}, NEW who,
               Begin(t, doing, stage, who)
        PROVE  SessionsOK'
    BY <1>0, <1>1, QuietStep DEF Begin, OldNames, Tab
  <1>2. CASE FetchMe(t) \/ Disconnect(t) \/ Connect(t) \/ Login(t) \/ Register(t)
    BY <1>1, <1>2 DEF FetchMe, Disconnect, Connect, Login, Register
  <1>3. ASSUME NEW me, Rest(t, me), session' = session, cookie'.id \in OldNames(t)
        PROVE  SessionsOK'
    BY <1>0, <1>3, QuietStep DEF Rest, NewTab, OldNames
  <1>4. ASSUME NEW stage \in Stages \ {"mirror", "revoke"}, Go(t, stage), session' = session,
               cookie' = cookie
        PROVE  SessionsOK'
    BY <1>0, <1>4, QuietStep DEF Go, OldNames, Tab
  <1>5. CASE GetSession(t) \/ Principal(t) \/ FindChallenge(t) \/ Claim(t) \/ UpsertPlayer(t)
             \/ Backoff(t) \/ Password(t) \/ Fail(t) \/ ClearFailures(t) \/ CheckTaken(t)
             \/ CreateAccount(t) \/ GiveUp(t)
    <2>1. cookie.id \in OldNames(t)
      BY DEF OldNames
    <2> QED
      BY <1>3, <1>4, <1>5, <2>1
         DEF GetSession, Principal, Unauthenticated, FindChallenge, Claim, UpsertPlayer, Backoff,
             Password, Fail, ClearFailures, CheckTaken, CreateAccount, GiveUp, Stages
  <1>6. CASE LoggedOut(t)
    BY <1>3, <1>6 DEF LoggedOut, OldNames, NoCookie
  <1>7. CASE IssueChallenge(t)
    BY <1>0, <1>7, QuietStep DEF IssueChallenge, OldNames, Tab
  <1>8. CASE Resend(t)
    BY <1>0, <1>8, QuietStep DEF Resend, OldNames, Tab, At
  <1>9. CASE SignedIn(t)
    <2>1. cookie'.id \in OldNames(t)
      BY <1>9 DEF SignedIn, OldNames
    <2>2. CASE tab[t].doing = "wallet"
      BY <1>0, <1>9, <2>1, <2>2, QuietStep DEF SignedIn, OldNames, Tab
    <2> QED
      BY <1>3, <1>9, <2>1, <2>2 DEF SignedIn
  <1>10. CASE Refresh(t)
    <2>1. tab[t].id \in DOMAIN session
      BY <1>0, <1>10 DEF StagesOK, StageOK, Refresh, At, Nobody
    <2> DEFINE ttl == IF session[tab[t].id].ttl > 0 THEN Ttl ELSE 0
    <2>2. session' = [session EXCEPT ![tab[t].id].ttl = ttl]
      BY <1>10 DEF Refresh
    <2>3. /\ DOMAIN session' = DOMAIN session
          /\ \A u \in DOMAIN session :
               /\ session'[u].revoked = session[u].revoked
               /\ session'[u].ttl = IF u = tab[t].id THEN ttl ELSE session[u].ttl
      BY <2>1, <2>2, SessionFields DEF TypeOK
    <2>4. tab'[t].at = "principal" /\ tab'[t].id = tab[t].id /\ cookie' = cookie
      BY <1>0, <1>10 DEF Refresh, Go, Tab
    <2>5. \A u \in Tabs : tab[u].id \in 0..Len(session) /\ StageOK(tab[u])
      BY DEF TypeOK, StagesOK
    <2>6. \A s \in DOMAIN session : session'[s].ttl > 0 => ~session'[s].revoked
      BY <2>3 DEF SessionsOK
    <2>7. NewRowIsPrivate'
      BY <1>0, <2>3, <2>4, <2>5 DEF SessionsOK, NewRowIsPrivate, StageOK, Nobody
    <2>8. RevokedIsGone'
      BY <1>0, <2>3, <2>4, <2>5 DEF SessionsOK, RevokedIsGone, StageOK, Nobody
    <2> QED
      BY <2>3, <2>6, <2>7, <2>8 DEF SessionsOK
  <1>11. CASE DeleteMirror(t)
    <2>1. tab[t].id \in DOMAIN session
      BY <1>0, <1>11 DEF StagesOK, StageOK, DeleteMirror, At, Nobody
    <2>2. /\ DOMAIN session' = DOMAIN session
          /\ \A u \in DOMAIN session :
               /\ session'[u].revoked = session[u].revoked
               /\ session'[u].ttl = IF u = tab[t].id THEN 0 ELSE session[u].ttl
      BY <1>11, <2>1, SessionFields DEF TypeOK, DeleteMirror
    <2>3. tab'[t].at = "revoke" /\ tab'[t].id = tab[t].id /\ cookie' = cookie
      BY <1>0, <1>11 DEF DeleteMirror, Go, Tab
    <2>4. \A u \in Tabs : tab[u].id \in 0..Len(session) /\ StageOK(tab[u])
      BY DEF TypeOK, StagesOK
    <2>5. \A s \in DOMAIN session : session'[s].ttl > 0 => ~session'[s].revoked
      BY <2>2 DEF SessionsOK
    <2>6. NewRowIsPrivate'
      BY <1>0, <2>2, <2>3, <2>4 DEF SessionsOK, NewRowIsPrivate, StageOK, Nobody
    <2>7. RevokedIsGone'
      BY <1>0, <2>1, <2>2, <2>3, <2>4 DEF SessionsOK, RevokedIsGone, StageOK, Nobody
    <2> QED
      BY <2>2, <2>5, <2>6, <2>7 DEF SessionsOK
  <1>12. CASE Revoke(t)
    <2>1. tab[t].id \in DOMAIN session /\ tab[t].at = "revoke"
      BY <1>0, <1>12 DEF StagesOK, StageOK, Revoke, At, Nobody
    <2>2. /\ DOMAIN session' = DOMAIN session
          /\ \A u \in DOMAIN session :
               /\ u # tab[t].id => session'[u].revoked = session[u].revoked
               /\ session'[u].ttl = session[u].ttl
      BY <1>12, <2>1, SessionFields DEF TypeOK, Revoke
    <2>3. tab'[t].at = "answer" /\ tab'[t].id = tab[t].id /\ cookie' = cookie
      BY <1>0, <1>12 DEF Revoke, Go, Tab
    <2>4. \A u \in Tabs : tab[u].id \in 0..Len(session) /\ StageOK(tab[u])
      BY DEF TypeOK, StagesOK
    <2>5. session[tab[t].id].ttl = 0
      BY <2>1 DEF SessionsOK, RevokedIsGone
    <2>6. \A s \in DOMAIN session : session'[s].ttl > 0 => ~session'[s].revoked
      BY <2>2, <2>5 DEF SessionsOK
    <2>7. NewRowIsPrivate'
      BY <1>0, <2>1, <2>2, <2>3, <2>4 DEF SessionsOK, NewRowIsPrivate, StageOK, Nobody
    <2>8. RevokedIsGone'
      BY <1>0, <2>2, <2>3, <2>4 DEF SessionsOK, RevokedIsGone, StageOK, Nobody
    <2> QED
      BY <2>2, <2>6, <2>7, <2>8 DEF SessionsOK
  <1>13. CASE SetMirror(t)
    <2>1. tab[t].id \in DOMAIN session /\ tab[t].at = "mirror"
      BY <1>0, <1>13 DEF StagesOK, StageOK, SetMirror, At, Nobody
    <2>2. /\ DOMAIN session' = DOMAIN session
          /\ \A u \in DOMAIN session :
               /\ session'[u].revoked = session[u].revoked
               /\ session'[u].ttl = IF u = tab[t].id THEN Ttl ELSE session[u].ttl
      BY <1>13, <2>1, SessionFields DEF TypeOK, SetMirror
    <2>3. tab'[t].at = "answer" /\ tab'[t].id = tab[t].id /\ cookie' = cookie
      BY <1>0, <1>13 DEF SetMirror, Go, Tab
    <2>4. \A u \in Tabs : tab[u].id \in 0..Len(session) /\ StageOK(tab[u])
      BY DEF TypeOK, StagesOK
    <2>5. /\ ~session[tab[t].id].revoked
          /\ \A u \in Tabs \ {t} : tab[u].id # tab[t].id
      BY <2>1 DEF SessionsOK, NewRowIsPrivate
    <2>6. \A s \in DOMAIN session : session'[s].ttl > 0 => ~session'[s].revoked
      BY <2>2, <2>5 DEF SessionsOK
    <2>7. NewRowIsPrivate'
      BY <1>0, <2>2, <2>3, <2>4 DEF SessionsOK, NewRowIsPrivate, StageOK, Nobody
    <2>8. RevokedIsGone'
      BY <1>0, <2>2, <2>3, <2>4, <2>5 DEF SessionsOK, RevokedIsGone, StageOK, Nobody
    <2> QED
      BY <2>2, <2>6, <2>7, <2>8 DEF SessionsOK
  <1>14. CASE CreateRow(t)
    <2> DEFINE row == [who |-> tab[t].who, birth |-> tab[t].nonce, revoked |-> FALSE, ttl |-> 0]
    <2>0. row \in Session /\ ~row.revoked /\ row.ttl = 0
      BY <1>0, AccessAssumption DEF Session, Tab, AccessAssumption
    <2>a. session' = Append(session, row)
      BY <1>14 DEF CreateRow
    <2> HIDE DEF row
    <2>1. /\ DOMAIN session' = DOMAIN session \cup {Len(session) + 1}
          /\ Len(session) + 1 \notin DOMAIN session
          /\ \A u \in DOMAIN session : session'[u] = session[u]
          /\ ~session'[Len(session) + 1].revoked /\ session'[Len(session) + 1].ttl = 0
      BY <2>0, <2>a, RowAppended DEF TypeOK
    <2>2. tab'[t].at = "mirror" /\ tab'[t].id = Len(session) + 1 /\ cookie' = cookie
      BY <1>0, <1>14 DEF CreateRow, Tab
    <2>3. \A u \in Tabs : tab[u].id \in 0..Len(session) /\ StageOK(tab[u])
      BY DEF TypeOK, StagesOK
    <2>4. cookie.id \in 0..Len(session)
      BY DEF TypeOK
    <2>5. \A s \in DOMAIN session' : session'[s].ttl > 0 => ~session'[s].revoked
      BY <1>0, <2>1 DEF SessionsOK
    <2>6. NewRowIsPrivate'
      BY <1>0, <2>1, <2>2, <2>3, <2>4 DEF SessionsOK, NewRowIsPrivate, StageOK, Nobody
    <2>7. RevokedIsGone'
      BY <1>0, <2>1, <2>2, <2>3 DEF SessionsOK, RevokedIsGone, StageOK, Nobody
    <2> QED
      BY <2>5, <2>6, <2>7 DEF SessionsOK
  <1> QED
    BY <1>2, <1>5, <1>6, <1>7, <1>8, <1>9, <1>10, <1>11, <1>12, <1>13, <1>14 DEF TabStep

(* Time and the administrator do, too.                                     *)
LEMMA OutsideSessions ==
  ASSUME TypeOK, StagesOK, SessionsOK, Tick \/ ExpireChallenge \/ Forget \/ SetActive
  PROVE  SessionsOK' /\ StagesOK'
  <1>0. /\ tab' = tab /\ DOMAIN session = 1..Len(session) /\ Len(session) \in Nat
        /\ \A u \in Tabs : tab[u].id \in 0..Len(session) /\ StageOK(tab[u])
    BY LenProperties DEF Tick, ExpireChallenge, Forget, SetActive, PatchUser, TypeOK, StagesOK
  <1>1. CASE Tick
    <2>1. \A s \in DOMAIN session : session[s] \in Session
      BY <1>0, ElementOfSeq DEF TypeOK
    <2>2. /\ DOMAIN session' = DOMAIN session
          /\ \A s \in DOMAIN session : /\ session'[s].revoked = session[s].revoked
                                       /\ session'[s].ttl = Less(session[s].ttl)
      BY <1>1, <2>1 DEF Tick, Session
    <2>3. \A s \in DOMAIN session :
            /\ session'[s].ttl > 0 => session[s].ttl > 0
            /\ session[s].ttl = 0 => session'[s].ttl = 0
      BY <2>1, <2>2, AccessAssumption DEF Less, Session, AccessAssumption
    <2>4. cookie'.id \in {cookie.id, Nobody}
      BY <1>1 DEF Tick, NoCookie, TypeOK
    <2>5. NewRowIsPrivate'
      BY <1>0, <2>2, <2>4 DEF SessionsOK, NewRowIsPrivate, StageOK, Nobody
    <2>6. RevokedIsGone'
      BY <1>0, <2>2, <2>3 DEF SessionsOK, RevokedIsGone, StageOK, Nobody
    <2>7. StagesOK'
      BY <1>0 DEF StagesOK
    <2> QED
      BY <2>2, <2>3, <2>5, <2>6, <2>7 DEF SessionsOK
  <1>2. CASE ExpireChallenge \/ Forget \/ SetActive
    BY <1>0, <1>2 DEF ExpireChallenge, Forget, SetActive, PatchUser, SessionsOK, NewRowIsPrivate,
       RevokedIsGone, StagesOK
  <1> QED
    BY <1>1, <1>2

--------------------------------------------------------------------------------
(* Claims                                                                  *)

(* A step that neither claims a challenge nor opens a session.             *)
LEMMA NoNewClaim ==
  ASSUME NonceOpensOnce, ClaimsAreUsed,
         DOMAIN session' = DOMAIN session,
         \A s \in DOMAIN session : session'[s].birth = session[s].birth,
         \A n \in DOMAIN challenge :
           n \in DOMAIN challenge' /\ (challenge[n] = "used" => challenge'[n] = "used"),
         \A t \in Tabs : Claims(t) => tab[t].nonce \in DOMAIN challenge,
         \A t \in Tabs : Claims(t)' => Claims(t) /\ tab'[t].nonce = tab[t].nonce
  PROVE  NonceOpensOnce' /\ ClaimsAreUsed'
  <1>1. NonceOpensOnce'
    BY DEF NonceOpensOnce
  <1>2. ASSUME NEW t \in Tabs, Claims(t)'
        PROVE  /\ challenge'[tab'[t].nonce] = "used"
               /\ \A u \in Tabs \ {t} : Claims(u)' => tab'[u].nonce # tab'[t].nonce
               /\ \A s \in DOMAIN session' : session'[s].birth # tab'[t].nonce
    BY <1>2 DEF ClaimsAreUsed
  <1>3. ASSUME NEW s \in DOMAIN session', session'[s].birth # 0
        PROVE  session'[s].birth \in DOMAIN challenge' /\ challenge'[session'[s].birth] = "used"
    BY <1>3 DEF ClaimsAreUsed
  <1> QED
    BY <1>1, <1>2, <1>3 DEF ClaimsAreUsed

\* No session is opened, and what is used stays used.
UsedStays ==
  /\ DOMAIN session' = DOMAIN session
  /\ \A s \in DOMAIN session : session'[s].birth = session[s].birth
  /\ \A n \in DOMAIN challenge :
       n \in DOMAIN challenge' /\ (challenge[n] = "used" => challenge'[n] = "used")

\* A tab has no claim that it did not have.
KeepsClaim(t) ==
  Claims(t)' => Claims(t) /\ tab'[t].nonce = tab[t].nonce

(* Challenges and sessions that do not change, or sessions that keep their birth. *)
LEMMA UsedIsKept ==
  ASSUME session' = session, challenge' = challenge
  PROVE  UsedStays
  BY DEF UsedStays

(* A tab that rests, or goes on to a stage before or after the claim.      *)
LEMMA RestKeepsClaim ==
  ASSUME tab \in [Tabs -> Tab], NEW t \in Tabs,
         \/ \E me \in BOOLEAN : Rest(t, me)
         \/ \E stage \in Stages \ {"upsert", "row"} : Go(t, stage)
         \/ Unauthenticated(t)
  PROVE  KeepsClaim(t)
  <1>1. ASSUME NEW me \in BOOLEAN, Rest(t, me) PROVE KeepsClaim(t)
    <2>1. tab'[t].at = "idle"
      BY <1>1 DEF Rest, NewTab
    <2> QED
      BY <2>1 DEF KeepsClaim, Claims
  <1>2. ASSUME NEW stage \in Stages \ {"upsert", "row"}, Go(t, stage) PROVE KeepsClaim(t)
    <2>1. tab'[t].at = stage
      BY <1>2 DEF Go, Tab
    <2> QED
      BY <2>1 DEF KeepsClaim, Claims
  <1>3. CASE Unauthenticated(t)
    BY <1>1, <1>2, <1>3 DEF Unauthenticated, Stages
  <1> QED
    BY <1>1, <1>2, <1>3

(* The requests of a tab claim a challenge and use a claim once.           *)
LEMMA TabStepClaims ==
  ASSUME TypeOK, StagesOK, NonceOpensOnce, ClaimsAreUsed, NEW t \in Tabs, TabStep(t)
  PROVE  NonceOpensOnce' /\ ClaimsAreUsed'
  <1>0. /\ \A u \in Tabs \ {t} : tab'[u] = tab[u]
        /\ tab[t] \in Tab /\ tab \in [Tabs -> Tab] /\ StageOK(tab[t])
        /\ tab[t].id \in 0..Len(session)
        /\ Len(session) \in Nat /\ DOMAIN session = 1..Len(session)
        /\ Len(challenge) \in Nat /\ DOMAIN challenge = 1..Len(challenge)
        /\ \A u \in Tabs : tab[u].nonce \in 0..Len(challenge)
    BY OtherTabs, LenProperties DEF TypeOK, StagesOK
  <1>a. \A u \in Tabs : Claims(u) => tab[u].nonce \in DOMAIN challenge
    BY <1>0 DEF Claims
  <1>1. ASSUME KeepsClaim(t), UsedStays PROVE NonceOpensOnce' /\ ClaimsAreUsed'
    BY <1>0, <1>a, <1>1, NoNewClaim DEF KeepsClaim, UsedStays, Claims
  <1>2. CASE Refresh(t) \/ DeleteMirror(t) \/ Revoke(t) \/ SetMirror(t)
    <2>1. tab[t].id \in DOMAIN session
      BY <1>0, <1>2 DEF StageOK, Refresh, DeleteMirror, Revoke, SetMirror, At, Nobody
    <2>2. /\ DOMAIN session' = DOMAIN session
          /\ \A s \in DOMAIN session : session'[s].birth = session[s].birth
      BY <1>2, <2>1, SessionFields DEF TypeOK, Refresh, DeleteMirror, Revoke, SetMirror
    <2>3. UsedStays
      BY <1>2, <2>2 DEF UsedStays, Refresh, DeleteMirror, Revoke, SetMirror
    <2>4. KeepsClaim(t)
      BY <1>0, <1>2, RestKeepsClaim DEF Refresh, DeleteMirror, Revoke, SetMirror, Stages
    <2> QED
      BY <1>1, <2>3, <2>4
  <1>3. CASE FetchMe(t) \/ Disconnect(t) \/ Connect(t) \/ Login(t) \/ Register(t)
    <2>a. ASSUME NEW doing, NEW stage, NEW who, Begin(t, doing, stage, who)
          PROVE  tab'[t].at = stage
      BY <1>0, <2>a DEF Begin, Tab
    <2>1. tab'[t].at \in {"get", "challenge", "backoff", "check"}
      BY <1>3, <2>a DEF FetchMe, Disconnect, Connect, Login, Register
    <2>2. UsedStays
      BY <1>3, UsedIsKept DEF FetchMe, Disconnect, Connect, Login, Register, Begin
    <2>3. KeepsClaim(t)
      BY <2>1 DEF KeepsClaim, Claims
    <2> QED
      BY <1>1, <2>2, <2>3
  <1>4. CASE GetSession(t) \/ Principal(t) \/ FindChallenge(t) \/ LoggedOut(t) \/ Backoff(t)
             \/ Password(t) \/ Fail(t) \/ CheckTaken(t) \/ GiveUp(t)
    <2>0. tab[t].me \in BOOLEAN
      BY <1>0 DEF Tab
    <2>1. UsedStays
      BY <1>4, UsedIsKept DEF GetSession, Principal, FindChallenge, LoggedOut, Backoff, Password,
         Fail, CheckTaken, GiveUp
    <2>2. KeepsClaim(t)
      BY <1>0, <1>4, <2>0, RestKeepsClaim
         DEF GetSession, Principal, FindChallenge, LoggedOut, Backoff, Password, Fail, CheckTaken,
             GiveUp, Stages
    <2> QED
      BY <1>1, <2>1, <2>2
  <1>5. CASE UpsertPlayer(t) \/ ClearFailures(t) \/ CreateAccount(t)
    <2>0. tab[t].me \in BOOLEAN
      BY <1>0 DEF Tab
    <2>1. UsedStays
      BY <1>5, UsedIsKept DEF UpsertPlayer, ClearFailures, CreateAccount
    <2>2. CASE Go(t, "row")
      <3>1. tab'[t].at = "row" /\ tab'[t].nonce = tab[t].nonce
        BY <1>0, <2>2 DEF Go, Tab
      <3>2. tab[t].nonce # 0 => Claims(t)
        BY <1>0, <1>5 DEF StageOK, Claims, UpsertPlayer, ClearFailures, CreateAccount, At
      <3> QED
        BY <1>1, <2>1, <3>1, <3>2 DEF KeepsClaim, Claims
    <2>3. CASE Rest(t, tab[t].me)
      BY <1>0, <1>1, <2>0, <2>1, <2>3, RestKeepsClaim
    <2> QED
      BY <1>5, <2>2, <2>3 DEF UpsertPlayer, ClearFailures, CreateAccount
  <1>6. CASE IssueChallenge(t)
    <2>1. tab'[t].at = "find" /\ session' = session
      BY <1>0, <1>6 DEF IssueChallenge, Tab
    <2>2. \A n \in DOMAIN challenge : n \in DOMAIN challenge' /\ challenge'[n] = challenge[n]
      <3>1. /\ Len(challenge') = Len(challenge) + 1 /\ challenge' \in Seq(Challenge)
            /\ \A n \in 1..Len(challenge) : challenge'[n] = challenge[n]
        BY <1>6, AppendProperties DEF IssueChallenge, TypeOK, Challenge
      <3>2. DOMAIN challenge' = 1..(Len(challenge) + 1)
        BY <3>1, LenProperties
      <3> QED
        BY <1>0, <3>1, <3>2
    <2>3. UsedStays
      BY <2>1, <2>2 DEF UsedStays
    <2>4. KeepsClaim(t)
      BY <2>1 DEF KeepsClaim, Claims
    <2> QED
      BY <1>1, <2>3, <2>4
  <1>7. CASE Resend(t)
    <2>1. tab'[t].at = "find"
      BY <1>0, <1>7 DEF Resend, At, Tab
    <2>2. KeepsClaim(t)
      BY <2>1 DEF KeepsClaim, Claims
    <2> QED
      BY <1>1, <1>7, <2>2, UsedIsKept DEF Resend
  <1>8. CASE SignedIn(t)
    <2>1. tab'[t].at \in {"get", "idle"}
      BY <1>0, <1>8 DEF SignedIn, Rest, NewTab, Tab
    <2>2. KeepsClaim(t)
      BY <2>1 DEF KeepsClaim, Claims
    <2> QED
      BY <1>1, <1>8, <2>2, UsedIsKept DEF SignedIn
  <1>9. CASE Claim(t)
    <2> DEFINE n == tab[t].nonce
    <2>1. n \in DOMAIN challenge /\ tab[t].at = "claim" /\ n # 0
      BY <1>0, <1>9 DEF Claim, At, StageOK
    <2>2. /\ session' = session /\ challenge' = [challenge EXCEPT ![n] = "used"]
          /\ DOMAIN challenge' = DOMAIN challenge /\ challenge'[n] = "used"
          /\ \A m \in DOMAIN challenge : m # n => challenge'[m] = challenge[m]
      BY <1>0, <1>9, <2>1 DEF Claim, TypeOK
    <2>3. CASE challenge[n] = "used"
      <3>1. Rest(t, FALSE)
        BY <1>9, <2>3 DEF Claim
      <3>2. KeepsClaim(t)
        BY <1>0, <3>1, RestKeepsClaim
      <3>3. UsedStays
        BY <2>2 DEF UsedStays
      <3> QED
        BY <1>1, <3>2, <3>3
    <2>4. CASE challenge[n] # "used"
      <3>1. /\ tab'[t].nonce = n
            /\ \A u \in Tabs \ {t} : Claims(u) => tab[u].nonce # n
            /\ \A s \in DOMAIN session : session[s].birth # n
        BY <1>0, <1>9, <2>1, <2>4 DEF Claim, Go, Tab, ClaimsAreUsed
      <3>2. NonceOpensOnce'
        BY <2>2 DEF NonceOpensOnce
      <3> QED
        BY <1>0, <1>a, <2>1, <2>2, <3>1, <3>2 DEF ClaimsAreUsed, Claims
    <2> QED
      BY <2>3, <2>4
  <1>10. CASE CreateRow(t)
    <2> DEFINE row == [who |-> tab[t].who, birth |-> tab[t].nonce, revoked |-> FALSE, ttl |-> 0]
    <2>0. row \in Session /\ row.birth = tab[t].nonce
      BY <1>0, AccessAssumption DEF Session, Tab, AccessAssumption
    <2>a. session' = Append(session, row)
      BY <1>10 DEF CreateRow
    <2> HIDE DEF row
    <2>1. /\ DOMAIN session' = DOMAIN session \cup {Len(session) + 1}
          /\ \A s \in DOMAIN session : session'[s] = session[s]
          /\ session'[Len(session) + 1].birth = tab[t].nonce
          /\ Len(session) + 1 \notin DOMAIN session
      BY <2>0, <2>a, RowAppended DEF TypeOK
    <2>2. tab'[t].nonce = 0 /\ challenge' = challenge /\ tab[t].at = "row"
      BY <1>0, <1>10 DEF CreateRow, Tab, At
    <2>3. tab[t].nonce # 0 => Claims(t)
      BY <2>2 DEF Claims
    <2>4. NonceOpensOnce'
      BY <2>1, <2>3 DEF NonceOpensOnce, ClaimsAreUsed
    <2> QED
      BY <1>0, <1>a, <2>1, <2>2, <2>3, <2>4 DEF ClaimsAreUsed, Claims
  <1> QED
    BY <1>2, <1>3, <1>4, <1>5, <1>6, <1>7, <1>8, <1>9, <1>10 DEF TabStep

(* A challenge that expires was open, so that no claim is lost.            *)
LEMMA OutsideClaims ==
  ASSUME TypeOK, NonceOpensOnce, ClaimsAreUsed, Tick \/ ExpireChallenge \/ Forget \/ SetActive
  PROVE  NonceOpensOnce' /\ ClaimsAreUsed'
  <1>0. tab' = tab /\ DOMAIN challenge = 1..Len(challenge)
    BY LenProperties DEF Tick, ExpireChallenge, Forget, SetActive, PatchUser, TypeOK
  <1>1. DOMAIN session' = DOMAIN session
        /\ \A s \in DOMAIN session : session'[s].birth = session[s].birth
    <2>1. CASE Tick
      <3>1. \A s \in DOMAIN session : session[s] \in Session
        BY ElementOfSeq, LenProperties DEF TypeOK
      <3> QED
        BY <2>1, <3>1 DEF Tick, Session
    <2>2. CASE ~Tick
      BY <2>2 DEF ExpireChallenge, Forget, SetActive, PatchUser
    <2> QED
      BY <2>1, <2>2
  <1>2. \A n \in DOMAIN challenge :
          n \in DOMAIN challenge' /\ (challenge[n] = "used" => challenge'[n] = "used")
    <2>1. CASE ExpireChallenge
      BY <2>1 DEF ExpireChallenge, Open
    <2>2. CASE ~ExpireChallenge
      BY <2>2 DEF Tick, Forget, SetActive, PatchUser
    <2> QED
      BY <2>1, <2>2
  <1>3. \A t \in Tabs : Claims(t) => tab[t].nonce \in DOMAIN challenge
    <2>1. \A t \in Tabs : tab[t].nonce \in 0..Len(challenge) /\ Len(challenge) \in Nat
      BY LenProperties DEF TypeOK
    <2> QED
      BY <1>0, <2>1 DEF Claims
  <1>4. \A t \in Tabs : Claims(t)' => Claims(t) /\ tab'[t].nonce = tab[t].nonce
    BY <1>0 DEF Claims
  <1> QED
    BY <1>1, <1>2, <1>3, <1>4, NoNewClaim

--------------------------------------------------------------------------------
(* Sessions                                                                *)

(* The inductive invariant holds initially ...                             *)
LEMMA InitAccess == Init => AccessInv
  <1> SUFFICES ASSUME Init PROVE AccessInv
    OBVIOUS
  <1>1. DOMAIN session = {}
    BY DEF Init
  <1>2. \A t \in Tabs : tab[t].at = "idle" /\ tab[t].nonce = 0
    BY DEF Init, NewTab
  <1>3. MirrorIsLive /\ NonceOpensOnce
    BY <1>1, InitType DEF MirrorIsLive, NonceOpensOnce
  <1>4. NewRowIsPrivate /\ RevokedIsGone /\ ClaimsAreUsed
    BY <1>1, <1>2 DEF NewRowIsPrivate, RevokedIsGone, ClaimsAreUsed, Claims
  <1> QED
    BY <1>3, <1>4, InitType DEF AccessInv

(* ... and every step keeps it.                                            *)
LEMMA NextAccess == AccessInv /\ [Next]_vars => AccessInv'
  <1> SUFFICES ASSUME AccessInv, [Next]_vars PROVE AccessInv'
    OBVIOUS
  <1>0. TypeOK /\ StagesOK /\ SessionsOK /\ NonceOpensOnce /\ ClaimsAreUsed
    BY DEF AccessInv, MirrorIsLive, SessionsOK
  <1>1. ASSUME NEW t \in Tabs, TabStep(t) PROVE AccessInv'
    <2>1. TypeOK' /\ StagesOK'
      BY <1>0, <1>1, TabStepType, OtherTabs
    <2>2. SessionsOK'
      BY <1>0, <1>1, TabStepSessions
    <2>3. NonceOpensOnce' /\ ClaimsAreUsed'
      BY <1>0, <1>1, TabStepClaims
    <2> QED
      BY <2>1, <2>2, <2>3 DEF AccessInv, MirrorIsLive, SessionsOK
  <1>2. CASE Tick \/ ExpireChallenge \/ Forget \/ SetActive
    <2>1. TypeOK'
      BY <1>0, <1>2, OutsideType
    <2>2. SessionsOK' /\ StagesOK'
      BY <1>0, <1>2, OutsideSessions
    <2>3. NonceOpensOnce' /\ ClaimsAreUsed'
      BY <1>0, <1>2, OutsideClaims
    <2> QED
      BY <2>1, <2>2, <2>3 DEF AccessInv, MirrorIsLive, SessionsOK
  <1>3. CASE UNCHANGED vars
    BY <1>3 DEF vars, AccessInv, MirrorIsLive, TypeOK, NonceOpensOnce, StagesOK, NewRowIsPrivate,
       RevokedIsGone, ClaimsAreUsed, Claims
  <1>4. Next => (\E t \in Tabs : TabStep(t)) \/ Tick \/ ExpireChallenge \/ Forget \/ SetActive
    BY DEF Next, TabStep
  <1> QED
    BY <1>1, <1>2, <1>3, <1>4

(* The inductive invariant holds of every state.                           *)
THEOREM AccessIsSound == Spec => []AccessInv
  BY InitAccess, NextAccess, PTL DEF Spec

(* MirrorIsLive holds of every state: no request is served with a session  *)
(* that has been revoked, whatever crossed the revocation.                 *)
THEOREM MirrorCorrect == Spec => []MirrorIsLive
  <1>1. AccessInv => MirrorIsLive
    BY DEF AccessInv
  <1> QED
    BY <1>1, AccessIsSound, PTL

(* NonceOpensOnce holds of every state: two verifications of one challenge *)
(* never both open a session.                                              *)
THEOREM NonceCorrect == Spec => []NonceOpensOnce
  <1>1. AccessInv => NonceOpensOnce
    BY DEF AccessInv
  <1> QED
    BY <1>1, AccessIsSound, PTL

--------------------------------------------------------------------------------
(* Failed logins                                                           *)

\* The logins of a name that have passed the backoff and may still fail.
Busy(n) == {t \in Tabs : tab[t].who = n /\ tab[t].at \in {"password", "fail"}}

(* They are finitely many.                                                 *)
LEMMA BusyIsFinite ==
  ASSUME NEW n
  PROVE  /\ IsFiniteSet(Busy(n)) /\ Cardinality(Busy(n)) \in Nat
         /\ Cardinality(Busy(n)) <= Cardinality(Tabs) /\ Cardinality(Tabs) \in Nat
  <1>1. Busy(n) \subseteq Tabs /\ IsFiniteSet(Tabs)
    BY AccessAssumption DEF Busy, AccessAssumption
  <1> QED
    BY <1>1, FS_Subset, FS_CardinalityType

(* So they are after a step.                                               *)
LEMMA BusyIsFiniteNext ==
  ASSUME NEW n
  PROVE  /\ IsFiniteSet(Busy(n)') /\ Cardinality(Busy(n)') \in Nat
         /\ Cardinality(Busy(n)') <= Cardinality(Tabs)
  <1>1. Busy(n)' \subseteq Tabs /\ IsFiniteSet(Tabs)
    BY AccessAssumption DEF Busy, AccessAssumption
  <1> QED
    BY <1>1, FS_Subset, FS_CardinalityType

(* Where no login of a name passes the backoff, there are no more of them. *)
LEMMA NoMoreBusy ==
  ASSUME NEW n, Busy(n)' \subseteq Busy(n)
  PROVE  Cardinality(Busy(n)') <= Cardinality(Busy(n))
  BY BusyIsFinite, FS_Subset

(* A step that counts no failure and lets no login past the backoff.       *)
LEMMA QuietFailures ==
  ASSUME TypeOK, TypeOK', FailuresBounded,
         \A n \in Names : failures'[n] <= failures[n],
         \A n \in Names : Busy(n)' \subseteq Busy(n)
  PROVE  FailuresBounded'
  <1> SUFFICES ASSUME NEW n \in Names
               PROVE  failures'[n] + Cardinality(Busy(n)') <= FreeFailures + Cardinality(Tabs)
    BY DEF FailuresBounded, Busy
  <1>1. failures[n] + Cardinality(Busy(n)) <= FreeFailures + Cardinality(Tabs)
    BY DEF FailuresBounded, Busy
  <1>2. Cardinality(Busy(n)') <= Cardinality(Busy(n))
    BY NoMoreBusy
  <1>3. failures[n] \in Nat /\ failures'[n] \in Nat
    BY DEF TypeOK
  <1> QED
    BY <1>1, <1>2, <1>3, BusyIsFinite, BusyIsFiniteNext, AccessAssumption DEF AccessAssumption

(* The requests of a tab keep the bound: a login passes the backoff only   *)
(* while the failures are few, and counts its own failure when it leaves.  *)
LEMMA TabStepFailures ==
  ASSUME TypeOK, StagesOK, FailuresBounded, NEW t \in Tabs, TabStep(t)
  PROVE  FailuresBounded'
  <1>0. /\ \A u \in Tabs \ {t} : tab'[u] = tab[u]
        /\ tab[t] \in Tab /\ tab \in [Tabs -> Tab] /\ StageOK(tab[t])
    BY OtherTabs DEF TypeOK, StagesOK
  <1>a. TypeOK'
    BY TabStepType
  <1>1. ASSUME \A n \in Names : failures'[n] <= failures[n],
               \/ tab'[t].at \notin {"password", "fail"}
               \/ tab[t].at = "password" /\ tab'[t].who = tab[t].who
        PROVE  FailuresBounded'
    <2>1. \A n \in Names : Busy(n)' \subseteq Busy(n)
      BY <1>0, <1>1 DEF Busy
    <2> QED
      BY <1>1, <1>a, <2>1, QuietFailures
  <1>2. CASE Fail(t)
    <2> SUFFICES ASSUME NEW n \in Names
                 PROVE  failures'[n] + Cardinality(Busy(n)') <= FreeFailures + Cardinality(Tabs)
      BY DEF FailuresBounded, Busy
    <2>0. tab'[t].at = "idle" /\ tab[t].at = "fail"
      BY <1>0, <1>2 DEF Fail, Rest, NewTab, At
    <2>1. failures[n] + Cardinality(Busy(n)) <= FreeFailures + Cardinality(Tabs)
      BY DEF FailuresBounded, Busy
    <2>2. CASE tab[t].who = n
      <3>1. failures'[n] = failures[n] + 1
        BY <1>2, <2>2 DEF Fail, TypeOK
      <3>2. Busy(n)' = Busy(n) \ {t} /\ t \in Busy(n)
        BY <1>0, <2>0, <2>2 DEF Busy
      <3>3. Cardinality(Busy(n)') = Cardinality(Busy(n)) - 1
        BY <3>2, BusyIsFinite, FS_RemoveElement
      <3> QED
        BY <2>1, <3>1, <3>3, BusyIsFinite DEF TypeOK
    <2>3. CASE tab[t].who # n
      <3>1. failures'[n] = failures[n]
        BY <1>2, <2>3 DEF Fail, TypeOK
      <3>2. Busy(n)' = Busy(n)
        BY <1>0, <2>0, <2>3 DEF Busy
      <3> QED
        BY <2>1, <3>1, <3>2
    <2> QED
      BY <2>2, <2>3
  <1>3. CASE Backoff(t)
    <2> SUFFICES ASSUME NEW n \in Names
                 PROVE  failures'[n] + Cardinality(Busy(n)') <= FreeFailures + Cardinality(Tabs)
      BY DEF FailuresBounded, Busy
    <2>1. failures'[n] = failures[n] /\ failures[n] \in Nat
      BY <1>3 DEF Backoff, TypeOK
    <2>2. CASE failures[n] > FreeFailures
      <3>1. failures[n] + Cardinality(Busy(n)) <= FreeFailures + Cardinality(Tabs)
        BY DEF FailuresBounded, Busy
      <3>2. tab'[t].who = n => tab'[t].at \notin {"password", "fail"}
        <4>1. CASE failures[tab[t].who] > FreeFailures
          BY <1>0, <1>3, <4>1 DEF Backoff, Rest, NewTab
        <4>2. CASE ~(failures[tab[t].who] > FreeFailures)
          BY <1>0, <1>3, <2>2, <4>2 DEF Backoff, Go, Tab
        <4> QED
          BY <4>1, <4>2
      <3>3. Busy(n)' \subseteq Busy(n)
        BY <1>0, <3>2 DEF Busy
      <3> QED
        BY <2>1, <3>1, <3>3, NoMoreBusy, BusyIsFinite, BusyIsFiniteNext, AccessAssumption
           DEF AccessAssumption
    <2>3. CASE ~(failures[n] > FreeFailures)
      <3>1. FreeFailures \in Nat /\ failures[n] <= FreeFailures
        BY <2>1, <2>3, AccessAssumption DEF AccessAssumption
      <3>2. Cardinality(Busy(n)') \in Nat /\ Cardinality(Busy(n)') <= Cardinality(Tabs)
        BY BusyIsFiniteNext
      <3>3. Cardinality(Tabs) \in Nat
        BY BusyIsFinite
      <3> QED
        BY <2>1, <3>1, <3>2, <3>3
    <2> QED
      BY <2>2, <2>3
  <1>4. CASE ClearFailures(t)
    <2>1. \A n \in Names : failures'[n] <= failures[n]
      BY <1>4 DEF ClearFailures, TypeOK
    <2>2. tab'[t].at = "row"
      BY <1>0, <1>4 DEF ClearFailures, Go, Tab
    <2> QED
      BY <1>1, <2>1, <2>2
  <1>5. CASE Password(t)
    <2>1. /\ tab[t].at = "password" /\ tab'[t].who = tab[t].who
          /\ failures' = failures
      BY <1>0, <1>5 DEF Password, At, Go, Tab
    <2> QED
      BY <1>1, <2>1 DEF TypeOK
  <1>6. CASE ~(Fail(t) \/ Backoff(t) \/ ClearFailures(t) \/ Password(t))
    <2>1. failures' = failures
      BY <1>6 DEF TabStep, FetchMe, Disconnect, GetSession, Refresh, Principal, DeleteMirror, Revoke,
         LoggedOut, Connect, IssueChallenge, Resend, FindChallenge, Claim, UpsertPlayer, Login,
         Register, CheckTaken, CreateAccount, CreateRow, SetMirror, SignedIn, GiveUp, Begin
    <2>2. tab'[t].at \notin {"password", "fail"}
      <3>1. ASSUME NEW me, Rest(t, me) PROVE tab'[t].at = "idle"
        BY <1>0, <3>1 DEF Rest, NewTab
      <3>2. ASSUME NEW stage, Go(t, stage) PROVE tab'[t].at = stage
        BY <1>0, <3>2 DEF Go, Tab
      <3>3. ASSUME NEW doing, NEW stage, NEW who, Begin(t, doing, stage, who)
            PROVE  tab'[t].at = stage
        BY <1>0, <3>3 DEF Begin, Tab
      <3>4. CASE FetchMe(t) \/ Disconnect(t) \/ Connect(t) \/ Login(t) \/ Register(t)
        BY <3>3, <3>4 DEF FetchMe, Disconnect, Connect, Login, Register
      <3>5. CASE IssueChallenge(t) \/ Resend(t) \/ CreateRow(t)
        BY <1>0, <3>5 DEF IssueChallenge, Resend, CreateRow, Tab, At
      <3>6. CASE SignedIn(t)
        BY <1>0, <3>1, <3>6 DEF SignedIn, Tab
      <3>7. CASE GetSession(t) \/ Refresh(t) \/ Principal(t) \/ DeleteMirror(t) \/ Revoke(t)
                 \/ LoggedOut(t) \/ FindChallenge(t) \/ Claim(t) \/ UpsertPlayer(t)
                 \/ CheckTaken(t) \/ CreateAccount(t) \/ SetMirror(t) \/ GiveUp(t)
        BY <3>1, <3>2, <3>7
           DEF GetSession, Refresh, Principal, DeleteMirror, Revoke, LoggedOut, FindChallenge,
               Claim, UpsertPlayer, CheckTaken, CreateAccount, SetMirror, GiveUp, Unauthenticated
      <3> QED
        BY <1>6, <3>4, <3>5, <3>6, <3>7 DEF TabStep
    <2> QED
      BY <1>1, <2>1, <2>2 DEF TypeOK
  <1> QED
    BY <1>2, <1>3, <1>4, <1>5, <1>6

(* FailuresBounded holds of every state: guesses sent at once get past the *)
(* backoff by one for each request, and no more.                           *)
THEOREM FailuresCorrect == Spec => []FailuresBounded
  <1>1. Init => FailuresBounded
    <2> SUFFICES ASSUME Init, NEW n \in Names
                 PROVE  failures[n] + Cardinality(Busy(n)) <= FreeFailures + Cardinality(Tabs)
      BY DEF FailuresBounded, Busy
    <2>1. failures[n] = 0
      BY DEF Init
    <2> QED
      BY <2>1, BusyIsFinite, AccessAssumption DEF AccessAssumption
  <1>2. AccessInv /\ AccessInv' /\ FailuresBounded /\ [Next]_vars => FailuresBounded'
    <2> SUFFICES ASSUME AccessInv, AccessInv', FailuresBounded, [Next]_vars
                 PROVE  FailuresBounded'
      OBVIOUS
    <2>0. TypeOK /\ TypeOK' /\ StagesOK
      BY DEF AccessInv, MirrorIsLive
    <2>1. ASSUME NEW t \in Tabs, TabStep(t) PROVE FailuresBounded'
      BY <2>0, <2>1, TabStepFailures
    <2>2. CASE Tick \/ ExpireChallenge \/ Forget \/ SetActive \/ UNCHANGED vars
      <3>1. \A n \in Names : failures'[n] <= failures[n]
        BY <2>0, <2>2 DEF Tick, ExpireChallenge, Forget, SetActive, PatchUser, vars, TypeOK
      <3>2. tab' = tab
        BY <2>2 DEF Tick, ExpireChallenge, Forget, SetActive, PatchUser, vars
      <3>3. \A n \in Names : Busy(n)' \subseteq Busy(n)
        BY <3>2 DEF Busy
      <3> QED
        BY <2>0, <3>1, <3>3, QuietFailures
    <2>3. Next => (\E t \in Tabs : TabStep(t)) \/ Tick \/ ExpireChallenge \/ Forget \/ SetActive
      BY DEF Next, TabStep
    <2> QED
      BY <2>1, <2>2, <2>3
  <1> QED
    BY <1>1, <1>2, AccessIsSound, PTL DEF Spec

================================================================================

-------------------------------- MODULE Access ---------------------------------
(***************************************************************************)
(* Signing in and out: wallet challenges, passwords, registration, and the *)
(* sessions they open, which live in a Session row, in a Redis mirror with *)
(* an idle time to live, and in the cookie of the browser.                 *)
(*                                                                         *)
(* The tabs are those of one browser, so that they share the cookie and    *)
(* the wallet.  A tab has one request under way; "at" is where the tab and *)
(* the handler of that request are.  Time is counted in ticks.             *)
(***************************************************************************)
EXTENDS Naturals, Sequences, FiniteSets

CONSTANTS
  Tabs,
  Names,           \* usernames; a studio is registered with its owner
  Wallet,          \* the account of the wallet
  Ttl,             \* IDLE_TTL_SEC, in ticks
  FreeFailures,    \* failures that backoffDelaySec lets pass
  MaxChallenges,   \* bound: challenges ever issued
  MaxSessions      \* bound: sessions ever created

ASSUME AccessAssumption ==
  /\ Wallet \notin Names /\ IsFiniteSet(Tabs)
  /\ Ttl \in Nat \ {0}
  /\ FreeFailures \in Nat /\ MaxChallenges \in Nat /\ MaxSessions \in Nat

VARIABLES
  challenge,   \* the AuthChallenge rows of the wallet, oldest first
  session,     \* the sessions, oldest first: row and mirror
  account,     \* the users, and the player of the wallet
  failures,    \* the Redis counter of failed logins of each name
  cookie,      \* the cookie jar: the session it names and its remaining Max-Age
  tab

vars == <<challenge, session, account, failures, cookie, tab>>

Nobody == 0
NoCookie == [id |-> Nobody, ttl |-> 0]

Challenge == {"open", "expired", "used"}

\* "birth" is the challenge of a wallet session, and 0 when a password opened it.
Session == [who : Names \cup {Wallet}, birth : Nat, revoked : BOOLEAN, ttl : 0..Ttl]

Tab == [doing : {"nothing", "me", "logout", "wallet", "login", "register"},
        at : {"idle", "get", "refresh", "principal", "delete", "revoke", "challenge", "find",
              "claim", "upsert", "backoff", "password", "fail", "clear", "check", "create",
              "row", "mirror", "answer"},
        who : Names \cup {Wallet}, id : Nat, nonce : Nat, me : BOOLEAN]

NewTab == [doing |-> "nothing", at |-> "idle", who |-> Wallet, id |-> Nobody, nonce |-> 0,
           me |-> FALSE]

Init ==
  /\ challenge = <<>> /\ session = <<>>
  /\ account = [n \in Names \cup {Wallet} |-> "none"]
  /\ failures = [n \in Names |-> 0]
  /\ cookie = NoCookie
  /\ tab = [t \in Tabs |-> NewTab]

At(t, stage) == tab[t].at = stage

Go(t, stage) == tab' = [tab EXCEPT ![t].at = stage]

\* The tab is idle again and has forgotten its request; "me" is what it now shows.
Rest(t, me) == tab' = [tab EXCEPT ![t] = [NewTab EXCEPT !.me = me]]

\* A tab sends a request that carries the cookie.
Begin(t, doing, stage, who) ==
  /\ tab[t].doing = "nothing"
  /\ tab' = [tab EXCEPT ![t].doing = doing, ![t].at = stage, ![t].who = who,
                        ![t].id = cookie.id]
  /\ UNCHANGED <<challenge, session, account, failures, cookie>>

--------------------------------------------------------------------------------
(* A request with a session: getPrincipal, and logout                      *)

FetchMe(t) == Begin(t, "me", "get", Wallet)

\* Disconnect is offered to a connected wallet.
Disconnect(t) == tab[t].me /\ Begin(t, "logout", "get", Wallet)

\* Without a principal, me answers 401; logout goes on to the cookie.
Unauthenticated(t) ==
  CASE tab[t].doing = "me" -> Rest(t, FALSE)
    [] tab[t].id = Nobody -> Go(t, "answer")
    [] OTHER -> Go(t, "delete")

\* readSession asks the mirror ...
GetSession(t) ==
  LET id == tab[t].id IN
  /\ At(t, "get")
  /\ IF id # Nobody /\ session[id].ttl > 0 THEN Go(t, "refresh") ELSE Unauthenticated(t)
  /\ UNCHANGED <<challenge, session, account, failures, cookie>>

\* ... and prolongs it, which does nothing to a key deleted meanwhile.
Refresh(t) ==
  LET id == tab[t].id IN
  /\ At(t, "refresh")
  /\ Go(t, "principal")
  /\ session' = [session EXCEPT ![id].ttl = IF @ > 0 THEN Ttl ELSE 0]
  /\ UNCHANGED <<challenge, account, failures, cookie>>

\* A user must be active; the wallet control shows players only.
Principal(t) ==
  LET who == session[tab[t].id].who IN
  /\ At(t, "principal")
  /\ CASE account[who] # "active" -> Unauthenticated(t)
       [] tab[t].doing = "me" -> Rest(t, who = Wallet)
       [] OTHER -> Go(t, "delete")
  /\ UNCHANGED <<challenge, session, account, failures, cookie>>

\* Mutant: the row is revoked and the mirror left to expire.
KeepMirror(t) ==
  /\ At(t, "delete")
  /\ Go(t, "revoke")
  /\ UNCHANGED <<challenge, session, account, failures, cookie>>

\* revokeSession: the mirror first ...
DeleteMirror(t) ==
  /\ At(t, "delete")
  /\ Go(t, "revoke")
  /\ session' = [session EXCEPT ![tab[t].id].ttl = 0]
  /\ UNCHANGED <<challenge, account, failures, cookie>>

\* ... then the row.
Revoke(t) ==
  /\ At(t, "revoke")
  /\ Go(t, "answer")
  /\ session' = [session EXCEPT ![tab[t].id].revoked = TRUE]
  /\ UNCHANGED <<challenge, account, failures, cookie>>

\* The answer clears the cookie, whichever session it names by now.
LoggedOut(t) ==
  /\ At(t, "answer") /\ tab[t].doing = "logout"
  /\ Rest(t, FALSE)
  /\ cookie' = NoCookie
  /\ UNCHANGED <<challenge, session, account, failures>>

--------------------------------------------------------------------------------
(* Connect Wallet: challenge, signature, verification                      *)

Connect(t) == ~tab[t].me /\ Begin(t, "wallet", "challenge", Wallet)

IssueChallenge(t) ==
  /\ At(t, "challenge")
  /\ Len(challenge) < MaxChallenges
  /\ challenge' = Append(challenge, "open")
  /\ tab' = [tab EXCEPT ![t].at = "find", ![t].nonce = Len(challenge) + 1]
  /\ UNCHANGED <<session, account, failures, cookie>>

\* The connection of a verify request breaks and it is sent again: two handlers run it.
Resend(t) ==
  /\ tab[t].doing = "nothing"
  /\ \E u \in Tabs : At(u, "find") /\ tab' = [tab EXCEPT ![t] = [tab[u] EXCEPT !.me = tab[t].me]]
  /\ UNCHANGED <<challenge, session, account, failures, cookie>>

Open == {n \in DOMAIN challenge : challenge[n] = "open"}

\* The newest challenge that is neither used nor expired (one element at most).
Newest == {n \in Open : \A m \in Open : m <= n}

(* The wallet has signed the tab's own nonce; verify looks for the newest. *)
FindChallenge(t) ==
  /\ At(t, "find")
  /\ \/ \E n \in Newest : n = tab[t].nonce /\ Go(t, "claim")
     \/ Newest = {} /\ Rest(t, FALSE)
     \/ \E n \in Newest : n # tab[t].nonce /\ Rest(t, FALSE)
  /\ UNCHANGED <<challenge, session, account, failures, cookie>>

\* Mutant: the claim does not look at usedAt.
ClaimAgain(t) ==
  /\ At(t, "claim")
  /\ Go(t, "upsert")
  /\ challenge' = [challenge EXCEPT ![tab[t].nonce] = "used"]
  /\ UNCHANGED <<session, account, failures, cookie>>

\* The nonce is claimed by whoever marks it first.
Claim(t) ==
  /\ At(t, "claim")
  /\ IF challenge[tab[t].nonce] = "used" THEN Rest(t, FALSE) ELSE Go(t, "upsert")
  /\ challenge' = [challenge EXCEPT ![tab[t].nonce] = "used"]
  /\ UNCHANGED <<session, account, failures, cookie>>

UpsertPlayer(t) ==
  /\ At(t, "upsert")
  /\ Go(t, "row")
  /\ account' = [account EXCEPT ![Wallet] = "active"]
  /\ UNCHANGED <<challenge, session, failures, cookie>>

--------------------------------------------------------------------------------
(* Login with a password, and registration                                 *)

Login(t) == \E n \in Names : Begin(t, "login", "backoff", n)

Register(t) == \E n \in Names : Begin(t, "register", "check", n)

\* Mutant: nobody looks at the failures.
NoBackoff(t) ==
  /\ At(t, "backoff")
  /\ Go(t, "password")
  /\ UNCHANGED <<challenge, session, account, failures, cookie>>

Backoff(t) ==
  /\ At(t, "backoff")
  /\ IF failures[tab[t].who] > FreeFailures THEN Rest(t, tab[t].me) ELSE Go(t, "password")
  /\ UNCHANGED <<challenge, session, account, failures, cookie>>

\* The password is right, if the name is that of an active user, or it is wrong.
Password(t) ==
  /\ At(t, "password")
  /\ \/ account[tab[t].who] = "active" /\ Go(t, "clear")
     \/ Go(t, "fail")
  /\ UNCHANGED <<challenge, session, account, failures, cookie>>

Fail(t) ==
  /\ At(t, "fail")
  /\ Rest(t, tab[t].me)
  /\ failures' = [failures EXCEPT ![tab[t].who] = @ + 1]
  /\ UNCHANGED <<challenge, session, account, cookie>>

ClearFailures(t) ==
  /\ At(t, "clear")
  /\ Go(t, "row")
  /\ failures' = [failures EXCEPT ![tab[t].who] = 0]
  /\ UNCHANGED <<challenge, session, account, cookie>>

CheckTaken(t) ==
  /\ At(t, "check")
  /\ IF account[tab[t].who] = "none" THEN Go(t, "create") ELSE Rest(t, tab[t].me)
  /\ UNCHANGED <<challenge, session, account, failures, cookie>>

\* One transaction; a name taken since the check is a unique violation (a 500).
CreateAccount(t) ==
  /\ At(t, "create")
  /\ IF account[tab[t].who] = "none" THEN Go(t, "row") ELSE Rest(t, tab[t].me)
  /\ account' = [account EXCEPT ![tab[t].who] = IF @ = "none" THEN "active" ELSE @]
  /\ UNCHANGED <<challenge, session, failures, cookie>>

--------------------------------------------------------------------------------
(* createSession, and what comes back                                      *)

CreateRow(t) ==
  /\ At(t, "row")
  /\ Len(session) < MaxSessions
  /\ session' = Append(session, [who |-> tab[t].who, birth |-> tab[t].nonce,
                                 revoked |-> FALSE, ttl |-> 0])
  /\ tab' = [tab EXCEPT ![t].at = "mirror", ![t].id = Len(session) + 1, ![t].nonce = 0]
  /\ UNCHANGED <<challenge, account, failures, cookie>>

SetMirror(t) ==
  /\ At(t, "mirror")
  /\ Go(t, "answer")
  /\ session' = [session EXCEPT ![tab[t].id].ttl = Ttl]
  /\ UNCHANGED <<challenge, account, failures, cookie>>

\* Set-Cookie; the wallet control then asks who it is.
SignedIn(t) ==
  /\ At(t, "answer") /\ tab[t].doing \in {"wallet", "login", "register"}
  /\ IF tab[t].doing = "wallet"
       THEN tab' = [tab EXCEPT ![t].doing = "me", ![t].at = "get"]
       ELSE Rest(t, FALSE)
  /\ cookie' = [id |-> tab[t].id, ttl |-> Ttl]
  /\ UNCHANGED <<challenge, session, account, failures>>

(* The request is refused by the rate limit or fails, the wallet declines  *)
(* to sign, or the answer is lost: the tab gives up.  Disconnect hides the *)
(* wallet when it is refused or fails, not when the connection breaks.     *)
GiveUp(t) ==
  /\ tab[t].doing # "nothing"
  /\ \E me \in (CASE tab[t].doing = "logout" -> {FALSE, tab[t].me}
                  [] tab[t].doing = "me" -> {FALSE}
                  [] OTHER -> {tab[t].me}) : Rest(t, me)
  /\ UNCHANGED <<challenge, session, account, failures, cookie>>

--------------------------------------------------------------------------------
(* Time, and the administrator                                             *)

Less(n) == IF n > 0 THEN n - 1 ELSE 0

Tick ==
  /\ session' = [s \in DOMAIN session |-> [session[s] EXCEPT !.ttl = Less(@)]]
  /\ cookie' = IF cookie.ttl > 1 THEN [cookie EXCEPT !.ttl = @ - 1] ELSE NoCookie
  /\ UNCHANGED <<challenge, account, failures, tab>>

\* The five minutes of a challenge are over.
ExpireChallenge ==
  /\ \E n \in Open : challenge' = [challenge EXCEPT ![n] = "expired"]
  /\ UNCHANGED <<session, account, failures, cookie, tab>>

\* The hour of a failure counter is over.
Forget ==
  /\ \E n \in Names : failures[n] > 0 /\ failures' = [failures EXCEPT ![n] = 0]
  /\ UNCHANGED <<challenge, session, account, cookie, tab>>

\* PATCH of a user by an administrator, who is not one of the names.
PatchUser(n, state) ==
  /\ account[n] # "none"
  /\ account' = [account EXCEPT ![n] = state]
  /\ UNCHANGED <<challenge, session, failures, cookie, tab>>

\* The button shows the state that the table was rendered with and asks for the other.
SetActive == \E n \in Names, state \in {"active", "inactive"} : PatchUser(n, state)

--------------------------------------------------------------------------------
Next ==
  \/ \E t \in Tabs :
       \/ FetchMe(t) \/ Disconnect(t) \/ GetSession(t) \/ Refresh(t) \/ Principal(t)
       \/ DeleteMirror(t) \/ Revoke(t) \/ LoggedOut(t)
       \/ Connect(t) \/ IssueChallenge(t) \/ Resend(t) \/ FindChallenge(t) \/ Claim(t) \/ UpsertPlayer(t)
       \/ Login(t) \/ Backoff(t) \/ Password(t) \/ Fail(t) \/ ClearFailures(t)
       \/ Register(t) \/ CheckTaken(t) \/ CreateAccount(t)
       \/ CreateRow(t) \/ SetMirror(t) \/ SignedIn(t) \/ GiveUp(t)
  \/ Tick \/ ExpireChallenge \/ Forget \/ SetActive

Spec == Init /\ [][Next]_vars

================================================================================

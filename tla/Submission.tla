------------------------------ MODULE Submission -------------------------------
(***************************************************************************)
(* Submission of a payment: the requests that run under withIdempotency    *)
(* (checkout/submit and p2p/trades/submit) and the checkout page, which    *)
(* submits its payment again until the server has an answer for it.        *)
(*                                                                         *)
(* A body stands for an order or a trade together with a transaction, and  *)
(* for the hash of the request; its settlement is a read, a check against  *)
(* the chain and a commit (module Settlement has the rest of it).          *)
(***************************************************************************)
EXTENDS Naturals, FiniteSets

CONSTANTS
  Scopes,        \* the routes that use withIdempotency
  Keys,          \* Idempotency-Key headers of other API clients
  Bodies,        \* request bodies
  Wrong,         \* bodies with a transaction on the chain that does not pay for the order
  OtherCalls,    \* what other API clients send
  Requests,      \* requests a server has in hand
  PageScope,     \* the route the page calls
  PageBody,      \* what the page sends
  NoCall,        \* what a request that is not there asks for
  MaxAttempts    \* MAX_ATTEMPTS

\* An Idempotency-Key header of the page.
Attempts == 1..MaxAttempts
Call == [scope : Scopes, key : Keys \cup Attempts, body : Bodies]

ASSUME SubmissionAssumption ==
  /\ MaxAttempts \in Nat \ {0}
  /\ Keys \cap Attempts = {}
  /\ NoCall \notin Call
  /\ PageScope \in Scopes /\ PageBody \in Bodies
  /\ Wrong \subseteq Bodies
  /\ OtherCalls \subseteq [scope : Scopes, key : Keys, body : Bodies]

VARIABLES
  request,   \* the requests in hand
  locked,    \* the Redis locks that are set: pairs of a scope and a key
  stored,    \* the IdempotencyKey rows: records of key, body and answer
  visible,   \* the bodies whose transaction Horizon shows
  paid,      \* the bodies whose order or trade is settled
  page,      \* submitPayment
  lapsed     \* history: locks whose time ran out over a request still inside

vars == <<request, locked, stored, visible, paid, page, lapsed>>

Answers == {"PAID", "ALREADY", "REJECTED", "not found"}

Request == [at : {"idle", "arrived", "lookup", "verify", "settle", "store", "release",
                  "answered"},
            call : Call \cup {NoCall}, answer : Answers \cup {"none", "error"},
            sender : {"page", "other"}]

Page == [at : {"ready", "waiting", "stopped"}, attempt : 0..MaxAttempts,
         answer : Answers \cup {"none"}, late : BOOLEAN]

Idle == [at |-> "idle", call |-> NoCall, answer |-> "none", sender |-> "other"]

Init ==
  /\ request = [r \in Requests |-> Idle]
  /\ locked = {} /\ stored = {} /\ visible = Wrong /\ paid = {} /\ lapsed = {}
  /\ page = [at |-> "ready", attempt |-> 1, answer |-> "none", late |-> FALSE]

LockOf(r) == <<request[r].call.scope, request[r].call.key>>

--------------------------------------------------------------------------------
(* The submit routes                                                       *)

\* The request r is at a stage; it moves on, perhaps with an answer.
At(r, stage) == request[r].at = stage

Go(r, to) == request' = [request EXCEPT ![r].at = to]

\* The answer leaves; what becomes of an answer to anyone but the page is of no interest.
Reply(r, answer) ==
  request' = [request EXCEPT ![r] = IF @.sender = "other" THEN Idle
                                    ELSE [@ EXCEPT !.at = "answered", !.answer = answer]]

Answer(r, answer, to) == request' = [request EXCEPT ![r].at = to, ![r].answer = answer]

(* Too many requests, no principal, no key or no valid body: refused       *)
(* before anything is done.                                                *)
Refuse(r) ==
  /\ At(r, "arrived")
  /\ Reply(r, "error")
  /\ UNCHANGED <<locked, stored, visible, paid, page, lapsed>>

\* Mutant: the lock is set even when it is there.
SeizeLock(r) ==
  /\ At(r, "arrived")
  /\ Go(r, "lookup")
  /\ locked' = locked \cup {LockOf(r)}
  /\ UNCHANGED <<stored, visible, paid, page, lapsed>>

\* SET NX PX: the request that sets the lock goes on, any other is a conflict.
Lock(r) ==
  /\ At(r, "arrived")
  /\ IF LockOf(r) \in locked
       THEN Reply(r, "error")
       ELSE Go(r, "lookup")
  /\ locked' = locked \cup {LockOf(r)}
  /\ UNCHANGED <<stored, visible, paid, page, lapsed>>

\* The stored answer is for this very request.
Replayable(row, call) == row.key = call.key /\ row.body = call.body

\* The row of the key, whatever its scope, answers the request or is a conflict.
Lookup(r) ==
  LET rows == {row \in stored : row.key = request[r].call.key} IN
  /\ At(r, "lookup")
  /\ \/ rows = {} /\ Go(r, "verify")
     \/ \E row \in rows :
          Answer(r, IF Replayable(row, request[r].call) THEN row.answer ELSE "error",
                 "release")
  /\ UNCHANGED <<locked, stored, visible, paid, page, lapsed>>

(* fn: verifyAndAdvanceOrder reads the order and asks Horizon for the      *)
(* transaction ...                                                         *)
Verify(r) ==
  LET b == request[r].call.body IN
  /\ At(r, "verify")
  /\ \/ b \in paid /\ Answer(r, "ALREADY", "store")
     \/ /\ b \notin paid
        /\ \/ b \notin visible /\ Answer(r, "not found", "store")
           \/ b \in visible \cap Wrong /\ Answer(r, "REJECTED", "store")
           \/ b \in visible \ Wrong /\ Go(r, "settle")
  /\ UNCHANGED <<locked, stored, visible, paid, page, lapsed>>

\* ... and commits the settlement.
Settle(r) ==
  /\ At(r, "settle")
  /\ Answer(r, "PAID", "store")
  /\ paid' = paid \cup {request[r].call.body}
  /\ UNCHANGED <<locked, stored, visible, page, lapsed>>

\* Mutant: a row that is already there is left, and the answer returned all the same.
StoreUnlessThere(r) ==
  LET c == request[r].call IN
  /\ At(r, "store")
  /\ Go(r, "release")
  /\ stored' = IF \E row \in stored : row.key = c.key THEN stored
               ELSE stored \cup {[key |-> c.key, body |-> c.body, answer |-> request[r].answer]}
  /\ UNCHANGED <<locked, visible, paid, page, lapsed>>

\* The row of a key is created once: the second attempt throws.
Store(r) ==
  LET c == request[r].call IN
  /\ At(r, "store")
  /\ IF \E row \in stored : row.key = c.key
       THEN Answer(r, "error", "release") /\ stored' = stored
       ELSE /\ Go(r, "release")
            /\ stored' = stored \cup
                 {[key |-> c.key, body |-> c.body, answer |-> request[r].answer]}
  /\ UNCHANGED <<locked, visible, paid, page, lapsed>>

\* The database or Horizon cannot be reached: the exception passes through finally.
Throw(r) ==
  /\ request[r].at \in {"lookup", "verify", "settle", "store"}
  /\ Answer(r, "error", "release")
  /\ UNCHANGED <<locked, stored, visible, paid, page, lapsed>>

\* The requests between their lock and its deletion.
Inside(l) == {r \in Requests :
  request[r].at \in {"lookup", "verify", "settle", "store", "release"} /\ LockOf(r) = l}

(* What is remembered of overrun locks once request r has left: a lock is  *)
(* forgotten when nobody is inside any more.                               *)
StillLapsed(r) == {l \in lapsed : Inside(l) \ {r} # {}}

\* finally: the lock is deleted, whoever holds it by now.
Unlock(r) ==
  /\ At(r, "release")
  /\ Reply(r, request[r].answer)
  /\ locked' = locked \ {LockOf(r)}
  /\ lapsed' = StillLapsed(r)
  /\ UNCHANGED <<stored, visible, paid, page>>

--------------------------------------------------------------------------------
(* The world around the server                                             *)

\* The 30 s of a lock have passed.
Expire(l) ==
  /\ l \in locked
  /\ locked' = locked \ {l}
  /\ lapsed' = lapsed \cup {m \in {l} : Inside(l) # {}}
  /\ UNCHANGED <<request, stored, visible, paid, page>>

\* RETRY_DELAY_MS after an attempt without a final answer comes the next one, if any.
NextAttempt ==
  IF page.attempt = MaxAttempts THEN [page EXCEPT !.at = "stopped"]
  ELSE [page EXCEPT !.at = "ready", !.attempt = @ + 1]

\* The server process dies over the request: no answer, and its lock stays.
Crash(r) ==
  /\ request[r].at \notin {"idle", "answered"}
  /\ request' = [request EXCEPT ![r] = Idle]
  /\ page' = IF request[r].sender = "page"
             THEN NextAttempt ELSE page
  /\ lapsed' = StillLapsed(r)
  /\ UNCHANGED <<locked, stored, visible, paid>>

\* Horizon shows the transaction.
Appear(b) ==
  /\ b \notin visible
  /\ visible' = visible \cup {b}
  /\ UNCHANGED <<request, locked, stored, paid, page, lapsed>>

Arrive(r, call, sender) ==
  /\ request[r].at = "idle"
  /\ request' = [request EXCEPT ![r] = [at |-> "arrived", call |-> call, answer |-> "none",
                                        sender |-> sender]]
  /\ UNCHANGED <<locked, stored, visible, paid, lapsed>>

\* An API client sends a request, perhaps one it has sent before.
OtherSend(r) == \E c \in OtherCalls : Arrive(r, c, "other") /\ page' = page

--------------------------------------------------------------------------------
(* submitPayment of the checkout page                                      *)

\* Mutant: every attempt is sent with the same key.
OneKey(attempt) == 1
\* The header names the attempt.
PageKey(attempt) == attempt

PageSend(r) ==
  /\ page.at = "ready"
  /\ Arrive(r, [scope |-> PageScope, key |-> PageKey(page.attempt), body |-> PageBody], "page")
  /\ page' = [page EXCEPT !.at = "waiting", !.answer = "none",
                          !.late = PageBody \in visible]

\* PAID, ALREADY and most rejections end the loop.
Final(answer) == answer \in {"PAID", "ALREADY", "REJECTED"}

PageReceive(r) ==
  /\ request[r].at = "answered" /\ request[r].sender = "page"
  /\ request' = [request EXCEPT ![r] = Idle]
  /\ page' = CASE Final(request[r].answer) ->
                   [page EXCEPT !.at = "stopped", !.answer = request[r].answer]
              [] request[r].answer = "not found" -> [NextAttempt EXCEPT !.answer = "not found"]
              [] OTHER -> NextAttempt
  /\ UNCHANGED <<locked, stored, visible, paid, lapsed>>

\* The connection breaks: the page gives the attempt up, the server does not.
PageLose(r) ==
  /\ request[r].at # "idle" /\ request[r].sender = "page"
  /\ request' = [request EXCEPT ![r] = IF @.at = "answered" THEN Idle
                                        ELSE [@ EXCEPT !.sender = "other"]]
  /\ page' = NextAttempt
  /\ UNCHANGED <<locked, stored, visible, paid, lapsed>>

--------------------------------------------------------------------------------
Serve(r) ==
  \/ Refuse(r) \/ Lock(r) \/ Lookup(r) \/ Verify(r) \/ Settle(r) \/ Store(r)
  \/ Throw(r) \/ Unlock(r)

Client(r) == OtherSend(r) \/ PageSend(r) \/ PageReceive(r) \/ PageLose(r)

Next ==
  \/ \E r \in Requests : Serve(r) \/ Client(r) \/ Crash(r)
  \/ \E l \in Scopes \X (Keys \cup Attempts) : Expire(l)
  \/ \E b \in Bodies : Appear(b)

Spec == Init /\ [][Next]_vars

================================================================================

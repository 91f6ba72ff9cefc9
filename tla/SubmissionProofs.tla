----------------------------- MODULE SubmissionProofs -----------------------------
(***************************************************************************)
(* What idempotency keys promise, for any routes, keys, bodies, requests   *)
(* and number of attempts.                                                 *)
(***************************************************************************)
EXTENDS SubmissionCorrectness, FiniteSetTheorems, TLAPS

Locks == Scopes \X (Keys \cup Attempts)

Stages == {"idle", "arrived", "lookup", "verify", "settle", "store", "release", "answered"}

Insides == {"lookup", "verify", "settle", "store", "release"}

--------------------------------------------------------------------------------
(* One request moves                                                       *)

Others(r) == \A u \in Requests \ {r} : request'[u] = request[u]

\* The request r is at another stage, with an answer.
Becomes(r, at, answer) ==
  /\ request'[r].at = at /\ request'[r].answer = answer
  /\ request'[r].call = request[r].call /\ request'[r].sender = request[r].sender

\* The request r has left.
Leaves(r) == request'[r] = Idle

Requesting == [Requests -> Request]

(* A request that is another request.                                      *)
LEMMA OneRequest ==
  ASSUME request \in Requesting, NEW r \in Requests, NEW k \in Request,
         request' = [request EXCEPT ![r] = k]
  PROVE  request' \in Requesting /\ request'[r] = k /\ Others(r)
  BY DEF Requesting, Others

LEMMA IdleIsARequest ==
  /\ Idle \in Request /\ Idle.at = "idle" /\ Idle.sender = "other" /\ Idle.call = NoCall
  /\ Idle.answer = "none"
  BY DEF Idle, Request

(* What Go, Answer and Reply make of a request.                            *)
LEMMA GoIs ==
  ASSUME request \in Requesting, NEW r \in Requests, NEW to \in Stages, Go(r, to)
  PROVE  request' \in Requesting /\ Others(r) /\ Becomes(r, to, request[r].answer)
  <1> DEFINE k == [request[r] EXCEPT !.at = to]
  <1>0. request[r] \in Request
    BY DEF Requesting
  <1>1. /\ k \in Request /\ k.at = to /\ k.answer = request[r].answer
        /\ k.call = request[r].call /\ k.sender = request[r].sender
    BY <1>0 DEF Request, Stages
  <1>2. request' = [request EXCEPT ![r] = k]
    BY DEF Go
  <1> HIDE DEF k
  <1> QED
    BY <1>1, <1>2, OneRequest DEF Becomes

LEMMA AnswerIs ==
  ASSUME request \in Requesting, NEW r \in Requests, NEW to \in Stages,
         NEW answer \in Answers \cup {"none", "error"}, Answer(r, answer, to)
  PROVE  request' \in Requesting /\ Others(r) /\ Becomes(r, to, answer)
  <1> DEFINE k == [request[r] EXCEPT !.at = to, !.answer = answer]
  <1>0. request[r] \in Request
    BY DEF Requesting
  <1>1. /\ k \in Request /\ k.at = to /\ k.answer = answer
        /\ k.call = request[r].call /\ k.sender = request[r].sender
    BY <1>0 DEF Request, Stages
  <1>2. request' = [request EXCEPT ![r] = k]
    BY <1>0 DEF Answer, Request
  <1> HIDE DEF k
  <1> QED
    BY <1>1, <1>2, OneRequest DEF Becomes

LEMMA ReplyIs ==
  ASSUME request \in Requesting, NEW r \in Requests,
         NEW answer \in Answers \cup {"none", "error"}, Reply(r, answer)
  PROVE  /\ request' \in Requesting /\ Others(r)
         /\ Leaves(r) \/ Becomes(r, "answered", answer)
  <1>0. request[r] \in Request
    BY DEF Requesting
  <1>1. CASE request[r].sender = "other"
    <2>1. request' = [request EXCEPT ![r] = Idle]
      BY <1>1 DEF Reply
    <2> QED
      BY <2>1, OneRequest, IdleIsARequest DEF Leaves
  <1>2. CASE request[r].sender # "other"
    <2> DEFINE k == [request[r] EXCEPT !.at = "answered", !.answer = answer]
    <2>1. /\ k \in Request /\ k.at = "answered" /\ k.answer = answer
          /\ k.call = request[r].call /\ k.sender = request[r].sender
      BY <1>0 DEF Request
    <2>2. request' = [request EXCEPT ![r] = k]
      BY <1>2 DEF Reply
    <2> HIDE DEF k
    <2> QED
      BY <2>1, <2>2, OneRequest DEF Becomes
  <1> QED
    BY <1>1, <1>2

--------------------------------------------------------------------------------
(* Answers                                                                 *)

Row(call, answer) == [key |-> call.key, body |-> call.body, answer |-> answer]

\* The answer that a request k has is the stored one.
AnswerOK(k) ==
  k.at \in {"release", "answered"} /\ k.answer # "error" => Row(k.call, k.answer) \in stored

\* AnswerIsStored with its rows one by one, and what keeps it.
AnswersInv ==
  /\ TypeOK /\ StagesOK /\ OneRow
  /\ \A r \in Requests : AnswerOK(request[r])
  /\ page.attempt \in Attempts

(* Where a key has one row, the two say the same.                          *)
LEMMA OneAnswer ==
  ASSUME TypeOK, OneRow
  PROVE  AnswerIsStored <=> \A r \in Requests : AnswerOK(request[r])
  <1>1. ASSUME NEW r \in Requests, request[r].at # "idle"
        PROVE  Row(request[r].call, request[r].answer) \in stored <=>
                 {row \in stored : row.key = request[r].call.key} =
                   {Row(request[r].call, request[r].answer)}
    BY DEF OneRow, Row
  <1> QED
    BY <1>1 DEF AnswerIsStored, AnswerOK, Row

(* A step of one request, while rows and transactions only come.           *)
LEMMA OthersKeepAnswers ==
  ASSUME AnswersInv, NEW r \in Requests, Others(r), request' \in Requesting,
         visible \subseteq visible', stored \subseteq stored',
         StageOK(request[r])', AnswerOK(request[r])'
  PROVE  StagesOK' /\ \A u \in Requests : AnswerOK(request[u])'
  <1>1. ASSUME NEW u \in Requests \ {r} PROVE StageOK(request[u])' /\ AnswerOK(request[u])'
    <2>1. request'[u] = request[u]
      BY DEF Others
    <2>2. StageOK(request[u]) /\ AnswerOK(request[u])
      BY DEF AnswersInv, StagesOK
    <2> QED
      BY <2>1, <2>2 DEF StageOK, AnswerOK
  <1> QED
    BY <1>1 DEF StagesOK

(* A request of a route answers with the row of its key, or with its own   *)
(* answer once that has become the row.                                    *)
LEMMA ServeAnswers ==
  ASSUME AnswersInv, NEW r \in Requests, Serve(r)
  PROVE  AnswersInv'
  <1>0. /\ request \in Requesting /\ request[r] \in Request /\ StageOK(request[r])
        /\ AnswerOK(request[r])
    BY DEF AnswersInv, TypeOK, StagesOK, Requesting
  <1>1. ASSUME NEW at \in Stages \ {"idle", "settle", "store", "release", "answered"},
               request[r].at # "idle", Becomes(r, at, request[r].answer), Others(r),
               request' \in Requesting,
               UNCHANGED <<stored, visible, paid, page>>, TypeOK'
        PROVE  AnswersInv'
    <2>1. StageOK(request[r])' /\ AnswerOK(request[r])'
      BY <1>0, <1>1 DEF StageOK, AnswerOK, Becomes
    <2> QED
      BY <1>1, <2>1, OthersKeepAnswers DEF AnswersInv, OneRow
  <1>2. ASSUME Leaves(r), Others(r), request' \in Requesting,
               UNCHANGED <<stored, visible, paid, page>>, TypeOK'
        PROVE  AnswersInv'
    <2>1. StageOK(request[r])' /\ AnswerOK(request[r])'
      BY <1>2, IdleIsARequest DEF StageOK, AnswerOK, Leaves
    <2> QED
      BY <1>2, <2>1, OthersKeepAnswers DEF AnswersInv, OneRow
  <1>3. ASSUME NEW at \in {"release", "answered"}, NEW answer, request[r].at # "idle",
               answer # "error" => Row(request[r].call, answer) \in stored,
               Becomes(r, at, answer), Others(r), request' \in Requesting,
               UNCHANGED <<stored, visible, paid, page>>, TypeOK'
        PROVE  AnswersInv'
    <2>1. StageOK(request[r])' /\ AnswerOK(request[r])'
      BY <1>0, <1>3 DEF StageOK, AnswerOK, Becomes
    <2> QED
      BY <1>3, <2>1, OthersKeepAnswers DEF AnswersInv, OneRow
  <1>4. ASSUME NEW answer \in Answers, request[r].at # "idle", Becomes(r, "store", answer),
               Others(r), request' \in Requesting,
               UNCHANGED <<stored, visible, page>>, TypeOK'
        PROVE  AnswersInv'
    <2>1. StageOK(request[r])' /\ AnswerOK(request[r])'
      BY <1>0, <1>4 DEF StageOK, AnswerOK, Becomes
    <2> QED
      BY <1>4, <2>1, OthersKeepAnswers DEF AnswersInv, OneRow
  <1>5. ASSUME request' \in Requesting, UNCHANGED <<stored, visible, paid, page>>,
               locked' \subseteq Locks, lapsed' \subseteq lapsed
        PROVE  TypeOK'
    BY <1>5 DEF AnswersInv, TypeOK, Requesting, Locks
  <1>6. request[r].at # "idle" => LockOf(r) \in Locks /\ request[r].call \in Call
    BY <1>0 DEF StageOK, LockOf, Call, Locks
  <1>7. locked \subseteq Locks
    BY DEF AnswersInv, TypeOK, Locks
  <1>8. CASE Refuse(r)
    <2>1. /\ request' \in Requesting /\ Others(r) /\ request[r].at # "idle"
          /\ Leaves(r) \/ Becomes(r, "answered", "error")
      BY <1>0, <1>8, ReplyIs DEF Refuse, At
    <2>2. TypeOK'
      BY <1>5, <1>7, <1>8, <2>1 DEF Refuse
    <2> QED
      BY <1>2, <1>3, <1>8, <2>1, <2>2 DEF Refuse
  <1>9. CASE Lock(r)
    <2>0. request[r].at # "idle"
      BY <1>9 DEF Lock, At
    <2>1. /\ request' \in Requesting /\ Others(r)
          /\ \/ Leaves(r) \/ Becomes(r, "answered", "error")
             \/ Becomes(r, "lookup", request[r].answer)
      BY <1>0, <1>9, ReplyIs, GoIs DEF Lock, Stages
    <2>2. TypeOK'
      BY <1>5, <1>6, <1>7, <1>9, <2>0, <2>1 DEF Lock
    <2>3. UNCHANGED <<stored, visible, paid, page>>
      BY <1>9 DEF Lock
    <2> QED
      BY <1>1, <1>2, <1>3, <2>0, <2>1, <2>2, <2>3 DEF Stages
  <1>10. CASE Lookup(r)
    <2>0. request[r].at # "idle" /\ UNCHANGED <<locked, lapsed, stored, visible, paid, page>>
      BY <1>10 DEF Lookup, At
    <2>1. CASE Go(r, "verify")
      <3>1. request' \in Requesting /\ Others(r) /\ Becomes(r, "verify", request[r].answer)
        BY <1>0, <2>1, GoIs DEF Stages
      <3> QED
        BY <1>1, <1>5, <1>7, <2>0, <3>1 DEF Stages
    <2>2. CASE ~Go(r, "verify")
      <3>1. PICK row \in stored :
              /\ row.key = request[r].call.key
              /\ Answer(r, IF Replayable(row, request[r].call) THEN row.answer ELSE "error",
                        "release")
        BY <1>10, <2>2 DEF Lookup
      <3> DEFINE answer == IF Replayable(row, request[r].call) THEN row.answer ELSE "error"
      <3>2. row \in [key : Keys \cup Attempts, body : Bodies, answer : Answers]
        BY DEF AnswersInv, TypeOK
      <3>3. answer \in Answers \cup {"none", "error"}
        BY <3>2
      <3>4. answer # "error" => Row(request[r].call, answer) \in stored
        <4>1. answer # "error" => row = Row(request[r].call, answer)
          BY <3>2 DEF Replayable, Row
        <4> QED
          BY <4>1
      <3>5. Answer(r, answer, "release")
        BY <3>1
      <3> HIDE DEF answer
      <3>6. request' \in Requesting /\ Others(r) /\ Becomes(r, "release", answer)
        BY <1>0, <3>3, <3>5, AnswerIs DEF Stages
      <3> QED
        BY <1>3, <1>5, <1>7, <2>0, <3>4, <3>6
    <2> QED
      BY <2>1, <2>2
  <1>11. CASE Verify(r)
    <2>0. request[r].at # "idle" /\ UNCHANGED <<locked, lapsed, stored, visible, paid, page>>
      BY <1>11 DEF Verify, At
    <2>1. CASE \E answer \in Answers : Answer(r, answer, "store")
      <3>1. PICK answer \in Answers : Answer(r, answer, "store")
        BY <2>1
      <3>2. request' \in Requesting /\ Others(r) /\ Becomes(r, "store", answer)
        BY <1>0, <3>1, AnswerIs DEF Stages
      <3> QED
        BY <1>4, <1>5, <1>7, <2>0, <3>2
    <2>2. CASE Go(r, "settle") /\ request[r].call.body \in visible \ Wrong
      <3>1. request' \in Requesting /\ Others(r) /\ Becomes(r, "settle", request[r].answer)
        BY <1>0, <2>2, GoIs DEF Stages
      <3>2. StageOK(request[r])' /\ AnswerOK(request[r])'
        BY <1>0, <2>0, <2>2, <3>1 DEF StageOK, AnswerOK, Becomes
      <3>3. TypeOK'
        BY <1>5, <1>7, <2>0, <3>1
      <3> QED
        BY <2>0, <3>1, <3>2, <3>3, OthersKeepAnswers DEF AnswersInv, OneRow
    <2> QED
      BY <1>11, <2>1, <2>2 DEF Verify, Answers
  <1>12. CASE Settle(r)
    <2>1. request' \in Requesting /\ Others(r) /\ Becomes(r, "store", "PAID")
      BY <1>0, <1>12, AnswerIs DEF Settle, Stages, Answers
    <2>2. request[r].at = "settle" /\ request[r].call.body \in visible \ Wrong
      BY <1>0, <1>12 DEF Settle, At, StageOK
    <2>3. TypeOK'
      BY <1>12, <2>1, <2>2 DEF AnswersInv, TypeOK, Settle, Requesting
    <2> QED
      BY <1>4, <1>12, <2>1, <2>2, <2>3 DEF Settle, Answers
  <1>13. CASE Store(r)
    <2>0. /\ request[r].at = "store" /\ request[r].answer \in Answers /\ request[r].call \in Call
          /\ UNCHANGED <<locked, lapsed, visible, paid, page>>
      BY <1>0, <1>13 DEF Store, At, StageOK
    <2>1. CASE \E row \in stored : row.key = request[r].call.key
      <3>1. request' \in Requesting /\ Others(r) /\ Becomes(r, "release", "error")
        BY <1>0, <1>13, <2>1, AnswerIs DEF Store, Stages
      <3> QED
        BY <1>3, <1>5, <1>7, <1>13, <2>0, <2>1, <3>1 DEF Store
    <2>2. CASE \A row \in stored : row.key # request[r].call.key
      <3> DEFINE new == Row(request[r].call, request[r].answer)
      <3>1. request' \in Requesting /\ Others(r) /\ Becomes(r, "release", request[r].answer)
        BY <1>0, <1>13, <2>2, GoIs DEF Store, Stages
      <3>2. stored' = stored \cup {new}
        BY <1>13, <2>2 DEF Store, Row
      <3>3. /\ new \in [key : Keys \cup Attempts, body : Bodies, answer : Answers]
            /\ new.key = request[r].call.key
        BY <2>0 DEF Row, Call
      <3>4. OneRow'
        BY <2>2, <3>2, <3>3 DEF AnswersInv, OneRow
      <3>5. TypeOK'
        BY <2>0, <3>1, <3>2, <3>3 DEF AnswersInv, TypeOK, Requesting
      <3>6. StageOK(request[r])' /\ AnswerOK(request[r])'
        BY <2>0, <3>1, <3>2 DEF StageOK, AnswerOK, Becomes
      <3> HIDE DEF new
      <3> QED
        BY <2>0, <3>1, <3>2, <3>4, <3>5, <3>6, OthersKeepAnswers DEF AnswersInv
    <2> QED
      BY <2>1, <2>2
  <1>14. CASE Throw(r)
    <2>1. /\ request' \in Requesting /\ Others(r) /\ Becomes(r, "release", "error")
          /\ request[r].at # "idle" /\ UNCHANGED <<locked, lapsed, stored, visible, paid, page>>
      BY <1>0, <1>14, AnswerIs DEF Throw, Stages
    <2> QED
      BY <1>3, <1>5, <1>7, <2>1
  <1>15. CASE Unlock(r)
    <2>0. request[r].at = "release" /\ UNCHANGED <<stored, visible, paid, page>>
      BY <1>15 DEF Unlock, At
    <2>1. /\ request' \in Requesting /\ Others(r)
          /\ Leaves(r) \/ Becomes(r, "answered", request[r].answer)
      BY <1>0, <1>15, ReplyIs DEF Unlock, Request
    <2>2. request[r].answer # "error" => Row(request[r].call, request[r].answer) \in stored
      BY <1>0, <2>0 DEF AnswerOK
    <2>3. TypeOK'
      BY <1>5, <1>7, <1>15, <2>1 DEF Unlock, StillLapsed
    <2> QED
      BY <1>2, <1>3, <2>0, <2>1, <2>2, <2>3
  <1> QED
    BY <1>8, <1>9, <1>10, <1>11, <1>12, <1>13, <1>14, <1>15 DEF Serve

--------------------------------------------------------------------------------
(* The page and the other clients                                          *)

\* The page is done with its attempt.
MovesOn ==
  /\ page' \in Page /\ page'.attempt \in Attempts /\ page'.late = page.late
  /\ page'.attempt >= page.attempt
  /\ \/ page'.at = "stopped"
     \/ page'.at = "ready" /\ page'.attempt > page.attempt

LEMMA OneMore ==
  ASSUME NEW m \in Nat, NEW a \in 1..m
  PROVE  a \in Nat /\ a >= a /\ (a # m => a + 1 \in 1..m /\ a + 1 \in 0..m /\ a + 1 > a /\ a + 1 >= a)
  OBVIOUS

(* It stops or has another attempt to make.                                *)
LEMMA NextAttemptIs ==
  ASSUME page \in Page, page.attempt \in Attempts,
         page' = NextAttempt \/ page' = [NextAttempt EXCEPT !.answer = "not found"]
  PROVE  /\ MovesOn
         /\ page'.answer = page.answer \/ page'.answer = "not found"
         /\ page' = NextAttempt => page'.answer = page.answer
  <1>0. MaxAttempts \in Nat /\ Attempts = 1..MaxAttempts
    BY SubmissionAssumption DEF SubmissionAssumption, Attempts
  <1>1. ASSUME NEW p \in Page, NextAttempt = p, p.late = page.late, p.answer = page.answer,
               p.attempt \in Attempts, p.attempt >= page.attempt,
               \/ p.at = "stopped"
               \/ p.at = "ready" /\ p.attempt > page.attempt
        PROVE  /\ MovesOn
               /\ page'.answer = page.answer \/ page'.answer = "not found"
               /\ page' = NextAttempt => page'.answer = page.answer
    <2> DEFINE q == [p EXCEPT !.answer = "not found"]
    <2>1. /\ q \in Page /\ q.late = p.late /\ q.answer = "not found" /\ q.attempt = p.attempt
          /\ q.at = p.at
      BY DEF Page, Answers
    <2>2. page' = p \/ page' = q
      BY <1>1
    <2> HIDE DEF q
    <2> QED
      BY <1>1, <2>1, <2>2 DEF MovesOn
  <1>2. CASE page.attempt = MaxAttempts
    <2> DEFINE p == [page EXCEPT !.at = "stopped"]
    <2>1. /\ p \in Page /\ p.at = "stopped" /\ p.attempt = page.attempt /\ p.late = page.late
          /\ p.answer = page.answer
      BY DEF Page
    <2>2. NextAttempt = p
      BY <1>2 DEF NextAttempt
    <2> HIDE DEF p
    <2>3. page.attempt >= page.attempt
      BY <1>0, OneMore
    <2> QED
      BY <1>1, <2>1, <2>2, <2>3
  <1>3. CASE page.attempt # MaxAttempts
    <2>1. PICK n : n = page.attempt + 1
      OBVIOUS
    <2>2. n \in Attempts /\ n > page.attempt /\ n >= page.attempt
      BY <1>0, <1>3, <2>1, OneMore
    <2>3. n \in 0..MaxAttempts
      BY <1>0, <1>3, <2>1, OneMore
    <2> DEFINE p == [page EXCEPT !.at = "ready", !.attempt = n]
    <2>4. /\ p \in Page /\ p.at = "ready" /\ p.attempt = n /\ p.late = page.late
          /\ p.answer = page.answer
      BY <2>3 DEF Page
    <2>5. NextAttempt = p
      <3>1. NextAttempt = [page EXCEPT !.at = "ready", !.attempt = @ + 1]
        BY <1>3 DEF NextAttempt
      <3>2. [page EXCEPT !.at = "ready", !.attempt = @ + 1]
              = [page EXCEPT !.at = "ready", !.attempt = page.attempt + 1]
        BY DEF Page
      <3> QED
        BY <2>1, <3>1, <3>2
    <2> HIDE DEF p
    <2> QED
      BY <1>1, <2>2, <2>4, <2>5
  <1> QED
    BY <1>2, <1>3

(* An answer that has come ends the loop or the attempt.                   *)
LEMMA PageReceiveIs ==
  ASSUME page \in Page, page.attempt \in Attempts, request \in Requesting, NEW r \in Requests,
         PageReceive(r)
  PROVE  /\ MovesOn /\ request' \in Requesting /\ Others(r) /\ Leaves(r)
         /\ page'.answer = "not found" =>
              page.answer = "not found" \/ request[r].answer = "not found"
  <1>0. request' \in Requesting /\ Others(r) /\ Leaves(r)
    BY OneRequest, IdleIsARequest DEF PageReceive, Leaves
  <1>1. CASE Final(request[r].answer)
    <2> DEFINE p == [page EXCEPT !.at = "stopped", !.answer = request[r].answer]
    <2>1. request[r].answer \in Answers /\ request[r].answer # "not found"
      BY <1>1 DEF Final, Answers
    <2>2. /\ p \in Page /\ p.at = "stopped" /\ p.attempt = page.attempt /\ p.late = page.late
          /\ p.answer = request[r].answer
      BY <2>1 DEF Page
    <2>3. page' = p
      <3>1. page' = CASE Final(request[r].answer) -> p
                      [] request[r].answer = "not found" -> [NextAttempt EXCEPT !.answer = "not found"]
                      [] OTHER -> NextAttempt
        BY DEF PageReceive
      <3> QED
        BY <1>1, <2>1, <3>1
    <2> HIDE DEF p
    <2>4. page.attempt >= page.attempt
      BY SubmissionAssumption, OneMore DEF SubmissionAssumption, Attempts
    <2> QED
      BY <1>0, <2>1, <2>2, <2>3, <2>4 DEF MovesOn
  <1>2. CASE ~Final(request[r].answer) /\ request[r].answer = "not found"
    <2>1. page' = [NextAttempt EXCEPT !.answer = "not found"]
      BY <1>2 DEF PageReceive
    <2> QED
      BY <1>0, <1>2, <2>1, NextAttemptIs
  <1>3. CASE ~Final(request[r].answer) /\ request[r].answer # "not found"
    <2>1. page' = NextAttempt
      BY <1>3 DEF PageReceive
    <2> QED
      BY <1>0, <2>1, NextAttemptIs
  <1> QED
    BY <1>1, <1>2, <1>3

\* A request r has come with a call.
Comes(r, call, sender) ==
  request'[r] = [at |-> "arrived", call |-> call, answer |-> "none", sender |-> sender]

LEMMA ArriveIs ==
  ASSUME request \in Requesting, NEW r \in Requests, NEW call \in Call,
         NEW sender \in {"page", "other"}, Arrive(r, call, sender)
  PROVE  /\ request' \in Requesting /\ Others(r) /\ Comes(r, call, sender)
         /\ request[r].at = "idle"
  <1> DEFINE k == [at |-> "arrived", call |-> call, answer |-> "none", sender |-> sender]
  <1>1. k \in Request
    BY DEF Request
  <1>2. request' = [request EXCEPT ![r] = k]
    BY DEF Arrive
  <1> QED
    BY <1>1, <1>2, OneRequest DEF Comes, Arrive

(* The calls of the page and of the other clients are calls.               *)
LEMMA Callers ==
  /\ OtherCalls \subseteq Call /\ \A c \in OtherCalls : c.key \in Keys /\ c.key \notin Attempts
  /\ \A attempt \in Attempts :
       /\ [scope |-> PageScope, key |-> attempt, body |-> PageBody] \in Call
       /\ attempt \notin Keys
  BY SubmissionAssumption DEF SubmissionAssumption, Call

(* What the page sends, and what becomes of it.                            *)
LEMMA PageSendIs ==
  ASSUME page \in Page, page.attempt \in Attempts, request \in Requesting, NEW r \in Requests,
         PageSend(r)
  PROVE  /\ request' \in Requesting /\ Others(r) /\ request[r].at = "idle"
         /\ Comes(r, [scope |-> PageScope, key |-> page.attempt, body |-> PageBody], "page")
         /\ page.at = "ready" /\ page' \in Page /\ page'.at = "waiting"
         /\ page'.attempt = page.attempt /\ page'.answer = "none"
         /\ page'.late <=> PageBody \in visible
  <1> DEFINE late == PageBody \in visible
  <1>0. late \in BOOLEAN
    OBVIOUS
  <1> HIDE DEF late
  <1> DEFINE p == [page EXCEPT !.at = "waiting", !.answer = "none", !.late = late]
  <1>1. /\ p \in Page /\ p.at = "waiting" /\ p.attempt = page.attempt /\ p.answer = "none"
        /\ p.late = late
    BY <1>0 DEF Page
  <1>2. page' = p /\ page.at = "ready"
    BY DEF PageSend, late
  <1> HIDE DEF p
  <1>3. Arrive(r, [scope |-> PageScope, key |-> page.attempt, body |-> PageBody], "page")
    BY DEF PageSend, PageKey
  <1> QED
    BY <1>1, <1>2, <1>3, ArriveIs, Callers DEF late

\* The server goes on with a request whose connection broke.
Orphaned(r) ==
  /\ request'[r].at = request[r].at /\ request'[r].answer = request[r].answer
  /\ request'[r].call = request[r].call /\ request'[r].sender = "other"

LEMMA PageLoseIs ==
  ASSUME request \in Requesting, NEW r \in Requests, PageLose(r)
  PROVE  /\ request' \in Requesting /\ Others(r) /\ request[r].at # "idle"
         /\ Leaves(r) \/ Orphaned(r)
  <1>0. request[r] \in Request
    BY DEF Requesting
  <1>1. CASE request[r].at = "answered"
    <2>1. request' = [request EXCEPT ![r] = Idle]
      BY <1>1 DEF PageLose
    <2> QED
      BY <2>1, OneRequest, IdleIsARequest DEF Leaves, PageLose
  <1>2. CASE request[r].at # "answered"
    <2> DEFINE k == [request[r] EXCEPT !.sender = "other"]
    <2>1. /\ k \in Request /\ k.at = request[r].at /\ k.answer = request[r].answer
          /\ k.call = request[r].call /\ k.sender = "other"
      BY <1>0 DEF Request
    <2>2. request' = [request EXCEPT ![r] = k]
      BY <1>2 DEF PageLose
    <2> HIDE DEF k
    <2> QED
      BY <2>1, <2>2, OneRequest DEF Orphaned, PageLose
  <1> QED
    BY <1>1, <1>2

(* A request that comes or goes has no answer yet, or none any more.       *)
LEMMA ClientAnswers ==
  ASSUME AnswersInv, NEW r \in Requests, Client(r) \/ Crash(r)
  PROVE  AnswersInv'
  <1>0. /\ request \in Requesting /\ StageOK(request[r]) /\ AnswerOK(request[r])
        /\ page \in Page /\ page.attempt \in Attempts
    BY DEF AnswersInv, TypeOK, StagesOK, Requesting
  <1>1. ASSUME request' \in Requesting, Others(r), page' \in Page, page'.attempt \in Attempts,
               UNCHANGED <<locked, stored, visible, paid>>, lapsed' \subseteq lapsed,
               \/ Leaves(r) \/ Orphaned(r)
               \/ \E call \in Call, sender \in {"page", "other"} : Comes(r, call, sender)
        PROVE  AnswersInv'
    <2>1. TypeOK'
      BY <1>1 DEF AnswersInv, TypeOK, Requesting
    <2>2. StageOK(request[r])' /\ AnswerOK(request[r])'
      <3>1. CASE Leaves(r)
        BY <3>1, IdleIsARequest DEF StageOK, AnswerOK, Leaves
      <3>2. CASE Orphaned(r) /\ request[r].at # "idle"
        BY <1>0, <1>1, <3>2 DEF StageOK, AnswerOK, Orphaned
      <3>3. CASE Orphaned(r) /\ request[r].at = "idle"
        <4>1. request'[r] = Idle
          BY <1>0, <1>1, <3>3 DEF StageOK, Orphaned, Idle, Requesting, Request
        <4> QED
          BY <4>1, IdleIsARequest DEF StageOK, AnswerOK
      <3>4. ASSUME NEW call \in Call, NEW sender \in {"page", "other"}, Comes(r, call, sender)
            PROVE  StageOK(request[r])' /\ AnswerOK(request[r])'
        BY <3>4 DEF StageOK, AnswerOK, Comes
      <3> QED
        BY <1>1, <3>1, <3>2, <3>3, <3>4
    <2> QED
      BY <1>1, <2>1, <2>2, OthersKeepAnswers DEF AnswersInv, OneRow
  <1>2. CASE OtherSend(r)
    <2>1. PICK c \in OtherCalls : Arrive(r, c, "other") /\ page' = page
      BY <1>2 DEF OtherSend
    <2>2. c \in Call
      BY Callers
    <2>3. request' \in Requesting /\ Others(r) /\ Comes(r, c, "other")
      BY <1>0, <2>1, <2>2, ArriveIs
    <2> QED
      BY <1>0, <1>1, <2>1, <2>2, <2>3 DEF Arrive
  <1>3. CASE PageSend(r)
    <2>1. [scope |-> PageScope, key |-> page.attempt, body |-> PageBody] \in Call
      BY <1>0, Callers
    <2>2. UNCHANGED <<locked, stored, visible, paid, lapsed>>
      BY <1>3 DEF PageSend, Arrive
    <2> QED
      BY <1>0, <1>1, <1>3, <2>1, <2>2, PageSendIs
  <1>4. CASE PageReceive(r)
    <2>1. UNCHANGED <<locked, stored, visible, paid, lapsed>>
      BY <1>4 DEF PageReceive
    <2> QED
      BY <1>0, <1>1, <1>4, <2>1, PageReceiveIs DEF MovesOn
  <1>5. CASE PageLose(r)
    <2>1. UNCHANGED <<locked, stored, visible, paid, lapsed>> /\ page' = NextAttempt
      BY <1>5 DEF PageLose
    <2>2. page' \in Page /\ page'.attempt \in Attempts
      BY <1>0, <2>1, NextAttemptIs DEF MovesOn
    <2> QED
      BY <1>0, <1>1, <1>5, <2>1, <2>2, PageLoseIs
  <1>6. CASE Crash(r)
    <2>1. UNCHANGED <<locked, stored, visible, paid>> /\ lapsed' \subseteq lapsed
      BY <1>6 DEF Crash, StillLapsed
    <2>2. page' \in Page /\ page'.attempt \in Attempts
      BY <1>0, <1>6, NextAttemptIs DEF Crash, MovesOn
    <2>3. request' \in Requesting /\ Others(r) /\ Leaves(r)
      BY <1>0, <1>6, OneRequest, IdleIsARequest DEF Crash, Leaves
    <2> QED
      BY <1>1, <2>1, <2>2, <2>3
  <1> QED
    BY <1>2, <1>3, <1>4, <1>5, <1>6 DEF Client

--------------------------------------------------------------------------------
(* Locks                                                                   *)

\* The request r has left or has not been inside.
IsOutside(r) == request'[r].at \notin Insides

(* Nobody but r is inside where they were not.                             *)
LEMMA LeavesInside ==
  ASSUME NEW r \in Requests, Others(r), IsOutside(r)
  PROVE  \A l : Inside(l)' = Inside(l) \ {r}
  <1> SUFFICES ASSUME NEW l PROVE Inside(l)' = Inside(l) \ {r}
    OBVIOUS
  <1>1. ASSUME NEW u \in Requests \ {r} PROVE u \in Inside(l)' <=> u \in Inside(l)
    BY DEF Others, Inside, LockOf
  <1>2. r \notin Inside(l)' /\ Inside(l)' \subseteq Requests /\ Inside(l) \subseteq Requests
    BY DEF IsOutside, Inside, Insides
  <1> QED
    BY <1>1, <1>2

(* A request that stays inside or stays outside.                           *)
LEMMA KeepsInside ==
  ASSUME LockIsHeld, NEW r \in Requests, Others(r),
         request'[r].at \in Insides =>
           request[r].at \in Insides /\ request'[r].call = request[r].call,
         locked \subseteq locked', lapsed' = lapsed
  PROVE  LockIsHeld'
  <1>1. \A l : Inside(l)' \subseteq Inside(l)
    BY DEF Others, Inside, Insides, LockOf
  <1> SUFFICES ASSUME NEW l \in Locks, l \notin lapsed'
               PROVE  /\ Inside(l)' # {} => l \in locked'
                      /\ \A u, v \in Inside(l)' : u = v
    BY DEF LockIsHeld, Locks
  <1>2. /\ Inside(l) # {} => l \in locked
        /\ \A u, v \in Inside(l) : u = v
    BY DEF LockIsHeld, Locks
  <1> QED
    BY <1>1, <1>2

(* A request that leaves forgets the overrun locks it leaves alone.        *)
LEMMA LeavingForgets ==
  ASSUME LockIsHeld, NEW r \in Requests, Others(r), IsOutside(r),
         lapsed' = StillLapsed(r),
         \A l \in Locks : l \in locked /\ l # LockOf(r) => l \in locked',
         locked' = locked \/ request[r].at \in Insides
  PROVE  LockIsHeld'
  <1>1. \A l : Inside(l)' = Inside(l) \ {r}
    BY LeavesInside
  <1> SUFFICES ASSUME NEW l \in Locks, l \notin lapsed'
               PROVE  /\ Inside(l)' # {} => l \in locked'
                      /\ \A u, v \in Inside(l)' : u = v
    BY DEF LockIsHeld, Locks
  <1>2. CASE l \in lapsed
    BY <1>1, <1>2 DEF StillLapsed
  <1>3. CASE l \notin lapsed
    <2>1. /\ Inside(l) # {} => l \in locked
          /\ \A u, v \in Inside(l) : u = v
      BY <1>3 DEF LockIsHeld, Locks
    <2>2. \/ locked' = locked
          \/ l = LockOf(r) /\ r \in Inside(l)
          \/ l # LockOf(r)
      BY DEF Inside, Insides
    <2> QED
      BY <1>1, <2>1, <2>2
  <1> QED
    BY <1>2, <1>3

(* A request enters while nobody has set its lock, and deletes the lock    *)
(* when it leaves.                                                         *)
LEMMA ServeLocks ==
  ASSUME AnswersInv, LockIsHeld, NEW r \in Requests, Serve(r)
  PROVE  LockIsHeld'
  <1>0. request \in Requesting /\ request[r] \in Request /\ AnswerOK(request[r])
    BY DEF AnswersInv, TypeOK, Requesting
  <1>1. ASSUME Leaves(r) PROVE request'[r].at \notin Insides
    BY <1>1, IdleIsARequest DEF Leaves, Insides
  <1>2. CASE Refuse(r)
    <2>1. Others(r) /\ request'[r].at \notin Insides
      BY <1>0, <1>1, <1>2, ReplyIs DEF Refuse, Becomes, Insides
    <2> QED
      BY <1>2, <2>1, KeepsInside DEF Refuse
  <1>3. CASE Lookup(r) \/ Verify(r) \/ Settle(r) \/ Store(r) \/ Throw(r)
    <2>1. request[r].at \in Insides /\ locked' = locked /\ lapsed' = lapsed
      BY <1>3 DEF Lookup, Verify, Settle, Store, Throw, At, Insides
    <2>2. ASSUME NEW to \in Stages, Go(r, to) PROVE LockIsHeld'
      BY <1>0, <2>1, <2>2, GoIs, KeepsInside DEF Becomes
    <2>3. ASSUME NEW to, NEW answer, Answer(r, answer, to) PROVE LockIsHeld'
      <3>1. Others(r) /\ request'[r].call = request[r].call
        BY <1>0, <2>3 DEF Answer, Others, Requesting, Request
      <3> QED
        BY <2>1, <3>1, KeepsInside
    <2> QED
      BY <1>3, <2>2, <2>3 DEF Lookup, Verify, Settle, Store, Throw, Stages
  <1>4. CASE Lock(r) /\ LockOf(r) \in locked
    <2>1. Others(r) /\ request'[r].at \notin Insides
      BY <1>0, <1>1, <1>4, ReplyIs DEF Lock, Becomes, Insides
    <2> QED
      BY <1>4, <2>1, KeepsInside DEF Lock
  <1>5. CASE Lock(r) /\ LockOf(r) \notin locked
    <2>1. Others(r) /\ Becomes(r, "lookup", request[r].answer) /\ request[r].at = "arrived"
      BY <1>0, <1>5, GoIs DEF Lock, Stages, At
    <2>2. locked' = locked \cup {LockOf(r)} /\ lapsed' = lapsed
      BY <1>5 DEF Lock
    <2>3. \A l : Inside(l)' \subseteq Inside(l) \cup {u \in {r} : l = LockOf(r)}
      BY <2>1 DEF Inside, Others, Becomes, LockOf
    <2> SUFFICES ASSUME NEW l \in Locks, l \notin lapsed'
                 PROVE  /\ Inside(l)' # {} => l \in locked'
                        /\ \A u, v \in Inside(l)' : u = v
      BY DEF LockIsHeld, Locks
    <2>4. /\ Inside(l) # {} => l \in locked
          /\ \A u, v \in Inside(l) : u = v
      BY <2>2 DEF LockIsHeld, Locks
    <2>5. CASE l = LockOf(r)
      BY <1>5, <2>2, <2>3, <2>4, <2>5
    <2>6. CASE l # LockOf(r)
      BY <2>2, <2>3, <2>4, <2>6
    <2> QED
      BY <2>5, <2>6
  <1>6. CASE Unlock(r)
    <2>1. Others(r) /\ request'[r].at \notin Insides
      <3>1. Reply(r, request[r].answer) /\ request[r].answer \in Answers \cup {"none", "error"}
        BY <1>0, <1>6 DEF Unlock, Request
      <3> QED
        BY <1>0, <1>1, <3>1, ReplyIs DEF Becomes, Insides
    <2>2. /\ locked' = locked \ {LockOf(r)} /\ lapsed' = StillLapsed(r)
          /\ request[r].at \in Insides
      BY <1>6 DEF Unlock, At, Insides
    <2> QED
      BY <2>1, <2>2, LeavingForgets DEF IsOutside
  <1> QED
    BY <1>2, <1>3, <1>4, <1>5, <1>6 DEF Serve

(* Clients leave the locks alone; a crash leaves them behind.              *)
LEMMA ClientLocks ==
  ASSUME AnswersInv, LockIsHeld, NEW r \in Requests, Client(r) \/ Crash(r)
  PROVE  LockIsHeld'
  <1>0. request \in Requesting /\ page \in Page /\ page.attempt \in Attempts
    BY DEF AnswersInv, TypeOK, Requesting
  <1>1. CASE OtherSend(r)
    <2>1. PICK c \in OtherCalls : Arrive(r, c, "other")
      BY <1>1 DEF OtherSend
    <2>a. c \in Call
      BY Callers
    <2>b. Others(r) /\ Comes(r, c, "other")
      BY <1>0, <2>1, <2>a, ArriveIs
    <2>2. Others(r) /\ request'[r].at = "arrived"
      BY <2>b DEF Comes
    <2> QED
      BY <2>1, <2>2, KeepsInside DEF Arrive, Insides
  <1>2. CASE PageSend(r)
    <2>1. Others(r) /\ request'[r].at = "arrived"
      BY <1>0, <1>2, PageSendIs DEF Comes
    <2> QED
      BY <1>2, <2>1, KeepsInside DEF PageSend, Arrive, Insides
  <1>3. CASE PageReceive(r)
    <2>1. Others(r) /\ request'[r].at = "idle"
      BY <1>0, <1>3, PageReceiveIs, IdleIsARequest DEF Leaves
    <2> QED
      BY <1>3, <2>1, KeepsInside DEF PageReceive, Insides
  <1>4. CASE PageLose(r)
    <2>1. /\ Others(r)
          /\ \/ request'[r].at = "idle"
             \/ request'[r].at = request[r].at /\ request'[r].call = request[r].call
      BY <1>0, <1>4, PageLoseIs, IdleIsARequest DEF Leaves, Orphaned
    <2> QED
      BY <1>4, <2>1, KeepsInside DEF PageLose, Insides
  <1>5. CASE Crash(r)
    <2>1. Others(r) /\ request'[r].at = "idle"
      BY <1>0, <1>5, OneRequest, IdleIsARequest DEF Crash
    <2>2. IsOutside(r)
      BY <2>1 DEF IsOutside, Insides
    <2> QED
      BY <1>5, <2>1, <2>2, LeavingForgets DEF Crash
  <1> QED
    BY <1>1, <1>2, <1>3, <1>4, <1>5 DEF Client

(* A lock that runs out over a request is remembered as overrun.           *)
LEMMA ExpireLocks ==
  ASSUME LockIsHeld, NEW k \in Locks, Expire(k)
  PROVE  LockIsHeld'
  <1>1. \A l : Inside(l)' = Inside(l)
    BY DEF Expire, Inside, LockOf
  <1>2. /\ locked' = locked \ {k}
        /\ lapsed' = lapsed \cup {m \in {k} : Inside(k) # {}}
    BY DEF Expire
  <1> SUFFICES ASSUME NEW l \in Locks, l \notin lapsed'
               PROVE  /\ Inside(l)' # {} => l \in locked'
                      /\ \A u, v \in Inside(l)' : u = v
    BY DEF LockIsHeld, Locks
  <1>3. /\ Inside(l) # {} => l \in locked
        /\ \A u, v \in Inside(l) : u = v
    BY <1>2 DEF LockIsHeld, Locks
  <1> QED
    BY <1>1, <1>2, <1>3

(* Two requests inside at most is one.                                     *)
LEMMA HeldIsExclusive ==
  ASSUME LockIsHeld
  PROVE  Exclusive
  <1> SUFFICES ASSUME NEW l \in Locks, l \notin lapsed PROVE Cardinality(Inside(l)) <= 1
    BY DEF Exclusive, Locks
  <1>1. \A r, u \in Inside(l) : r = u
    BY DEF LockIsHeld, Locks
  <1>2. CASE Inside(l) = {}
    BY <1>2, FS_EmptySet
  <1>3. ASSUME NEW r \in Inside(l) PROVE Cardinality(Inside(l)) <= 1
    <2>1. Inside(l) = {r}
      BY <1>1
    <2> QED
      BY <2>1, FS_Singleton
  <1> QED
    BY <1>2, <1>3

--------------------------------------------------------------------------------
(* The attempts of the page                                                *)

\* Where a request k stands to the attempts of the page.
PagesOwn(k) ==
  k.sender = "page" =>
    /\ page.at = "waiting" /\ NotHidden(k.answer)
    /\ k.call = [scope |-> PageScope, key |-> page.attempt, body |-> PageBody]

OthersOwn(k) ==
  k.at # "idle" /\ k.sender = "other" /\ k.call.key \in Attempts => Past(k.call.key)

RowIsOld(row) ==
  row.key \in Attempts =>
    \/ Past(row.key)
    \/ row.key = page.attempt /\ page.at = "waiting" /\ NotHidden(row.answer)

\* One request of the page at most.
OneSender ==
  \A r, u \in Requests : request[r].sender = "page" /\ request[u].sender = "page" => u = r

(* AttemptIsFresh, request by request and row by row.                      *)
LEMMA FreshParts ==
  AttemptIsFresh <=>
    /\ page.attempt \in Attempts
    /\ page.late => PageBody \in visible
    /\ \A r \in Requests : PagesOwn(request[r]) /\ OthersOwn(request[r])
    /\ OneSender
    /\ \A row \in stored : RowIsOld(row)
  BY DEF AttemptIsFresh, PagesOwn, OthersOwn, OneSender, RowIsOld

(* So it is after a step.                                                  *)
LEMMA FreshPartsNext ==
  AttemptIsFresh' <=>
    /\ page'.attempt \in Attempts
    /\ page'.late => PageBody \in visible'
    /\ \A r \in Requests : PagesOwn(request[r])' /\ OthersOwn(request[r])'
    /\ OneSender'
    /\ \A row \in stored' : RowIsOld(row)'
  BY DEF AttemptIsFresh, PagesOwn, OthersOwn, OneSender, RowIsOld

(* The page waits: a request moves or leaves with nothing to hide.         *)
LEMMA FreshWhileWaiting ==
  ASSUME AnswersInv, AttemptIsFresh, NEW r \in Requests, Others(r), request[r].at # "idle",
         page' = page, visible' = visible,
         \/ Leaves(r)
         \/ \E at, answer : /\ Becomes(r, at, answer)
                            /\ request[r].sender = "page" => NotHidden(answer),
         stored' \subseteq stored \cup {Row(request[r].call, request[r].answer)}
  PROVE  AttemptIsFresh'
  <1>0. /\ request[r].sender \in {"page", "other"}
        /\ PagesOwn(request[r]) /\ OthersOwn(request[r])
    BY FreshParts DEF AnswersInv, TypeOK, Request
  <1>1. ASSUME NEW u \in Requests PROVE PagesOwn(request[u])' /\ OthersOwn(request[u])'
    <2>1. CASE u # r
      <3>1. request'[u] = request[u] /\ PagesOwn(request[u]) /\ OthersOwn(request[u])
        BY <2>1, FreshParts DEF Others
      <3> QED
        BY <3>1 DEF PagesOwn, OthersOwn, NotHidden, Past
    <2>2. CASE u = r /\ Leaves(r)
      BY <2>2, IdleIsARequest DEF PagesOwn, OthersOwn, Leaves
    <2>3. CASE u = r /\ ~Leaves(r)
      <3>1. /\ request'[r].call = request[r].call /\ request'[r].sender = request[r].sender
            /\ request[r].sender = "page" => NotHidden(request'[r].answer)
        BY <2>3 DEF Becomes
      <3> QED
        BY <1>0, <2>3, <3>1 DEF PagesOwn, OthersOwn, NotHidden, Past
    <2> QED
      BY <2>1, <2>2, <2>3
  <1>2. OneSender'
    <2>1. \A u \in Requests : request'[u].sender = "page" => request[u].sender = "page"
      BY IdleIsARequest DEF Others, Leaves, Becomes
    <2> QED
      BY <2>1, FreshParts DEF OneSender
  <1>3. ASSUME NEW row \in stored' PROVE RowIsOld(row)'
    <2>1. CASE row \in stored
      <3>1. RowIsOld(row)
        BY <2>1, FreshParts
      <3> QED
        BY <3>1 DEF RowIsOld, NotHidden, Past
    <2>2. CASE row = Row(request[r].call, request[r].answer)
      <3>1. row.key = request[r].call.key /\ row.answer = request[r].answer
        BY <2>2 DEF Row
      <3>2. CASE request[r].sender = "page"
        <4>1. /\ page.at = "waiting" /\ NotHidden(row.answer) /\ row.key = page.attempt
          BY <1>0, <3>1, <3>2 DEF PagesOwn
        <4> QED
          BY <4>1 DEF RowIsOld, NotHidden
      <3>3. CASE request[r].sender = "other"
        <4>1. row.key \in Attempts => Past(row.key)
          BY <1>0, <3>1, <3>3 DEF OthersOwn
        <4> QED
          BY <4>1 DEF RowIsOld, Past
      <3> QED
        BY <1>0, <3>2, <3>3
    <2> QED
      BY <1>3, <2>1, <2>2
  <1> QED
    BY <1>1, <1>2, <1>3, FreshParts, FreshPartsNext

(* What the routes answer hides nothing from the page.                     *)
LEMMA ServeFresh ==
  ASSUME AnswersInv, AttemptIsFresh, NEW r \in Requests, Serve(r)
  PROVE  AttemptIsFresh'
  <1>0. /\ request \in Requesting /\ request[r] \in Request
        /\ PagesOwn(request[r]) /\ (page.late => PageBody \in visible)
        /\ \A row \in stored : RowIsOld(row)
    BY FreshParts DEF AnswersInv, TypeOK, Requesting
  <1>1. /\ request[r].at # "idle" /\ page' = page /\ visible' = visible
        /\ stored' \subseteq stored \cup {Row(request[r].call, request[r].answer)}
    BY DEF Serve, Refuse, Lock, Lookup, Verify, Settle, Store, Throw, Unlock, At, Row
  <1>2. NotHidden("error") /\ (request[r].sender = "page" => NotHidden(request[r].answer))
    BY <1>0 DEF NotHidden, PagesOwn
  <1>3. ASSUME NEW to \in Stages, Go(r, to) PROVE AttemptIsFresh'
    <2>1. Others(r) /\ Becomes(r, to, request[r].answer)
      BY <1>0, <1>3, GoIs
    <2> QED
      BY <1>1, <1>2, <2>1, FreshWhileWaiting
  <1>4. ASSUME NEW to \in Stages, NEW answer \in Answers \cup {"none", "error"},
               Answer(r, answer, to), request[r].sender = "page" => NotHidden(answer)
        PROVE  AttemptIsFresh'
    <2>1. Others(r) /\ Becomes(r, to, answer)
      BY <1>0, <1>4, AnswerIs
    <2> QED
      BY <1>1, <1>4, <2>1, FreshWhileWaiting
  <1>5. ASSUME NEW answer \in Answers \cup {"none", "error"}, Reply(r, answer),
               request[r].sender = "page" => NotHidden(answer)
        PROVE  AttemptIsFresh'
    <2>1. Others(r) /\ (Leaves(r) \/ Becomes(r, "answered", answer))
      BY <1>0, <1>5, ReplyIs
    <2> QED
      BY <1>1, <1>5, <2>1, FreshWhileWaiting
  <1>6. CASE Refuse(r) \/ Lock(r)
    BY <1>2, <1>3, <1>5, <1>6 DEF Refuse, Lock, Stages
  <1>7. CASE Lookup(r)
    <2>1. CASE Go(r, "verify")
      BY <1>3, <2>1 DEF Stages
    <2>2. CASE ~Go(r, "verify")
      <3>1. PICK row \in stored :
              /\ row.key = request[r].call.key
              /\ Answer(r, IF Replayable(row, request[r].call) THEN row.answer ELSE "error",
                        "release")
        BY <1>7, <2>2 DEF Lookup
      <3>2. row.answer \in Answers
        BY DEF AnswersInv, TypeOK
      <3>3. request[r].sender = "page" => NotHidden(row.answer)
        <4>1. ASSUME request[r].sender = "page" PROVE NotHidden(row.answer)
          <5>1. /\ page.at = "waiting" /\ row.key = page.attempt
                /\ page.attempt \in Attempts
            BY <1>0, <3>1, <4>1, FreshParts DEF PagesOwn
          <5>2. ~Past(row.key)
            BY <5>1, SubmissionAssumption DEF Past, Attempts, SubmissionAssumption
          <5> QED
            BY <1>0, <5>1, <5>2 DEF RowIsOld
        <4> QED
          BY <4>1
      <3>4. CASE Replayable(row, request[r].call)
        BY <1>4, <3>1, <3>2, <3>3, <3>4 DEF Stages
      <3>5. CASE ~Replayable(row, request[r].call)
        BY <1>2, <1>4, <3>1, <3>5 DEF Stages
      <3> QED
        BY <3>4, <3>5
    <2> QED
      BY <2>1, <2>2
  <1>8. CASE Verify(r)
    <2>1. CASE Answer(r, "not found", "store") /\ request[r].call.body \notin visible
      <3>1. request[r].sender = "page" => NotHidden("not found")
        <4>1. request[r].sender = "page" => request[r].call.body = PageBody
          BY <1>0 DEF PagesOwn
        <4> QED
          BY <1>0, <2>1, <4>1 DEF NotHidden
      <3> QED
        BY <1>4, <2>1, <3>1 DEF Stages, Answers
    <2>2. CASE Answer(r, "ALREADY", "store") \/ Answer(r, "REJECTED", "store")
      BY <1>4, <2>2 DEF Stages, Answers, NotHidden
    <2>3. CASE Go(r, "settle")
      BY <1>3, <2>3 DEF Stages
    <2> QED
      BY <1>8, <2>1, <2>2, <2>3 DEF Verify
  <1>9. CASE Settle(r)
    BY <1>4, <1>9 DEF Settle, Stages, Answers, NotHidden
  <1>10. CASE Store(r) \/ Throw(r)
    BY <1>2, <1>3, <1>4, <1>10 DEF Store, Throw, Stages
  <1>11. CASE Unlock(r)
    <2>1. Reply(r, request[r].answer) /\ request[r].answer \in Answers \cup {"none", "error"}
      BY <1>0, <1>11 DEF Unlock, Request
    <2> QED
      BY <1>2, <1>5, <2>1
  <1> QED
    BY <1>6, <1>7, <1>8, <1>9, <1>10, <1>11 DEF Serve

(* When the page is done with an attempt, its request has left or goes on  *)
(* for nobody.                                                             *)
LEMMA MovesOnFresh ==
  ASSUME AnswersInv, AttemptIsFresh, NEW r \in Requests, Others(r),
         request[r].sender = "page", MovesOn, Leaves(r) \/ Orphaned(r),
         stored' = stored, visible' = visible
  PROVE  AttemptIsFresh'
  <1>0. PagesOwn(request[r]) /\ page.attempt \in Attempts /\ (page.late => PageBody \in visible)
    BY FreshParts
  <1>1. \A n \in Attempts : Past(n) \/ n = page.attempt => Past(n)'
    BY <1>0, SubmissionAssumption
       DEF Past, MovesOn, Attempts, SubmissionAssumption, PagesOwn
  <1>2. \A u \in Requests : request'[u].sender # "page"
    BY FreshParts, IdleIsARequest DEF OneSender, Others, Leaves, Orphaned
  <1>3. ASSUME NEW u \in Requests PROVE OthersOwn(request[u])'
    <2>1. CASE u # r
      <3>1. request'[u] = request[u] /\ OthersOwn(request[u])
        BY <2>1, FreshParts DEF Others
      <3> QED
        BY <1>1, <3>1 DEF OthersOwn
    <2>2. CASE u = r /\ Leaves(r)
      BY <2>2, IdleIsARequest DEF OthersOwn, Leaves
    <2>3. CASE u = r /\ Orphaned(r)
      BY <1>0, <1>1, <2>3 DEF OthersOwn, Orphaned, PagesOwn
    <2> QED
      BY <2>1, <2>2, <2>3
  <1>4. ASSUME NEW row \in stored' PROVE RowIsOld(row)'
    <2>1. RowIsOld(row)
      BY <1>4, FreshParts
    <2> QED
      BY <1>1, <2>1 DEF RowIsOld
  <1> QED
    BY <1>0, <1>2, <1>3, <1>4, FreshPartsNext DEF PagesOwn, OneSender, MovesOn

(* The page starts an attempt with a key that nobody has used.             *)
LEMMA ClientFresh ==
  ASSUME AnswersInv, AttemptIsFresh, FreshAnswer, NEW r \in Requests, Client(r) \/ Crash(r)
  PROVE  AttemptIsFresh' /\ FreshAnswer'
  <1>0. /\ request \in Requesting /\ request[r] \in Request /\ StageOK(request[r])
        /\ page \in Page /\ page.attempt \in Attempts
        /\ PagesOwn(request[r]) /\ (page.late => PageBody \in visible)
    BY FreshParts DEF AnswersInv, TypeOK, StagesOK, Requesting
  <1>1. CASE OtherSend(r)
    <2>1. PICK c \in OtherCalls : Arrive(r, c, "other") /\ page' = page
      BY <1>1 DEF OtherSend
    <2>2. c \in Call /\ c.key \notin Attempts
      BY Callers
    <2>3. Others(r) /\ Comes(r, c, "other") /\ stored' = stored /\ visible' = visible
      BY <1>0, <2>1, <2>2, ArriveIs DEF Arrive
    <2>4. ASSUME NEW u \in Requests PROVE PagesOwn(request[u])' /\ OthersOwn(request[u])'
      <3>1. CASE u # r
        <4>1. request'[u] = request[u] /\ PagesOwn(request[u]) /\ OthersOwn(request[u])
          BY <2>3, <3>1, FreshParts DEF Others
        <4> QED
          BY <2>1, <4>1 DEF PagesOwn, OthersOwn, NotHidden, Past
      <3>2. CASE u = r
        BY <2>2, <2>3, <3>2 DEF PagesOwn, OthersOwn, Comes
      <3> QED
        BY <3>1, <3>2
    <2>5. OneSender'
      <3>1. \A u \in Requests : request'[u].sender = "page" => request[u].sender = "page"
        BY <2>3 DEF Others, Comes
      <3> QED
        BY <3>1, FreshParts DEF OneSender
    <2>6. ASSUME NEW row \in stored' PROVE RowIsOld(row)'
      <3>1. RowIsOld(row)
        BY <2>3, <2>6, FreshParts
      <3> QED
        BY <2>1, <3>1 DEF RowIsOld, NotHidden, Past
    <2>7. AttemptIsFresh'
      BY <1>0, <2>1, <2>3, <2>4, <2>5, <2>6, FreshPartsNext
    <2> QED
      BY <2>1, <2>7 DEF FreshAnswer
  <1>2. CASE PageSend(r)
    <2> DEFINE call == [scope |-> PageScope, key |-> page.attempt, body |-> PageBody]
    <2>1. /\ Others(r) /\ Comes(r, call, "page") /\ page.at = "ready" /\ page'.at = "waiting"
          /\ page'.attempt = page.attempt /\ page'.answer = "none"
          /\ (page'.late <=> PageBody \in visible)
      BY <1>0, <1>2, PageSendIs
    <2>2. stored' = stored /\ visible' = visible
      BY <1>2 DEF PageSend, Arrive
    <2>3. \A n : Past(n)' <=> Past(n)
      BY <2>1 DEF Past
    <2>4. \A u \in Requests : request[u].sender # "page"
      BY <2>1, FreshParts DEF PagesOwn
    <2>5. ASSUME NEW u \in Requests PROVE PagesOwn(request[u])' /\ OthersOwn(request[u])'
      <3>1. CASE u # r
        <4>1. request'[u] = request[u] /\ OthersOwn(request[u])
          BY <2>1, <3>1, FreshParts DEF Others
        <4> QED
          BY <2>3, <2>4, <4>1 DEF PagesOwn, OthersOwn
      <3>2. CASE u = r
        <4>1. /\ request'[r].sender = "page" /\ request'[r].answer = "none"
              /\ request'[r].call = call
          BY <2>1 DEF Comes
        <4>2. PagesOwn(request[r])'
          BY <2>1, <4>1 DEF PagesOwn, NotHidden
        <4>3. OthersOwn(request[r])'
          BY <4>1 DEF OthersOwn
        <4> QED
          BY <3>2, <4>2, <4>3
      <3> QED
        BY <3>1, <3>2
    <2>6. OneSender'
      BY <2>1, <2>4 DEF OneSender, Others
    <2>7. ASSUME NEW row \in stored' PROVE RowIsOld(row)'
      <3>1. RowIsOld(row)
        BY <2>2, <2>7, FreshParts
      <3> QED
        BY <2>1, <2>3, <3>1 DEF RowIsOld
    <2>8. AttemptIsFresh'
      BY <1>0, <2>1, <2>2, <2>5, <2>6, <2>7, FreshPartsNext
    <2> QED
      BY <2>1, <2>8 DEF FreshAnswer
  <1>3. CASE PageReceive(r)
    <2>1. /\ MovesOn /\ Others(r) /\ Leaves(r)
          /\ page'.answer = "not found" =>
               page.answer = "not found" \/ request[r].answer = "not found"
      BY <1>0, <1>3, PageReceiveIs
    <2>2. stored' = stored /\ visible' = visible /\ request[r].sender = "page"
      BY <1>3 DEF PageReceive
    <2>3. AttemptIsFresh'
      BY <2>1, <2>2, MovesOnFresh
    <2>4. FreshAnswer'
      BY <1>0, <2>1, <2>2 DEF FreshAnswer, PagesOwn, NotHidden, MovesOn
    <2> QED
      BY <2>3, <2>4
  <1>4. CASE PageLose(r)
    <2>1. page' = NextAttempt /\ request[r].sender = "page" /\ stored' = stored
          /\ visible' = visible
      BY <1>4 DEF PageLose
    <2>2. Others(r) /\ (Leaves(r) \/ Orphaned(r)) /\ MovesOn /\ page'.answer = page.answer
      BY <1>0, <1>4, <2>1, PageLoseIs, NextAttemptIs
    <2>3. AttemptIsFresh'
      BY <2>1, <2>2, MovesOnFresh
    <2> QED
      BY <2>2, <2>3 DEF FreshAnswer, MovesOn
  <1>5. CASE Crash(r)
    <2>1. /\ Others(r) /\ Leaves(r) /\ request[r].at # "idle"
          /\ stored' = stored /\ visible' = visible
      BY <1>0, <1>5, OneRequest, IdleIsARequest DEF Crash, Leaves
    <2>2. CASE request[r].sender = "page"
      <3>1. MovesOn /\ page'.answer = page.answer
        BY <1>0, <1>5, <2>2, NextAttemptIs DEF Crash
      <3>2. AttemptIsFresh'
        BY <2>1, <2>2, <3>1, MovesOnFresh
      <3> QED
        BY <3>1, <3>2 DEF FreshAnswer, MovesOn
    <2>3. CASE request[r].sender # "page"
      <3>1. page' = page
        BY <1>5, <2>3 DEF Crash
      <3>2. AttemptIsFresh'
        BY <2>1, <3>1, FreshWhileWaiting
      <3> QED
        BY <3>1, <3>2 DEF FreshAnswer
    <2> QED
      BY <2>2, <2>3
  <1> QED
    BY <1>1, <1>2, <1>3, <1>4, <1>5 DEF Client

--------------------------------------------------------------------------------
(* Every state                                                             *)

LEMMA InitSubmission == Init => SubmissionInv
  <1> SUFFICES ASSUME Init PROVE SubmissionInv
    OBVIOUS
  <1>1. \A r \in Requests : request[r] = Idle
    BY DEF Init
  <1>2. TypeOK
    BY SubmissionAssumption, IdleIsARequest
       DEF Init, TypeOK, Page, Answers, SubmissionAssumption
  <1>3. StagesOK /\ OneRow
    BY <1>1, IdleIsARequest DEF Init, StagesOK, StageOK, OneRow
  <1>4. AnswerIsStored /\ FreshAnswer
    BY <1>1, <1>2, IdleIsARequest DEF Init, AnswerIsStored, FreshAnswer
  <1>5. LockIsHeld
    BY <1>1, IdleIsARequest DEF LockIsHeld, Inside
  <1>6. AttemptIsFresh
    <2>1. 1 \in Attempts
      BY SubmissionAssumption DEF SubmissionAssumption, Attempts
    <2> QED
      BY <1>1, <2>1, IdleIsARequest DEF Init, AttemptIsFresh
  <1> QED
    BY <1>3, <1>4, <1>5, <1>6 DEF SubmissionInv

LEMMA NextSubmission == SubmissionInv /\ [Next]_vars => SubmissionInv'
  <1> SUFFICES ASSUME SubmissionInv, [Next]_vars PROVE SubmissionInv'
    OBVIOUS
  <1>0. AnswersInv /\ LockIsHeld /\ AttemptIsFresh /\ FreshAnswer
    BY OneAnswer DEF SubmissionInv, AnswerIsStored, AnswersInv, AttemptIsFresh
  <1>1. ASSUME AnswersInv', LockIsHeld', AttemptIsFresh', FreshAnswer'
        PROVE  SubmissionInv'
    <2>1. TypeOK' /\ OneRow' /\ StagesOK' /\ \A r \in Requests : AnswerOK(request[r])'
      BY <1>1 DEF AnswersInv
    <2>2. ASSUME NEW r \in Requests, request'[r].at # "idle"
          PROVE  Row(request'[r].call, request'[r].answer) \in stored' <=>
                   {row \in stored' : row.key = request'[r].call.key} =
                     {Row(request'[r].call, request'[r].answer)}
      BY <2>1 DEF OneRow, Row
    <2>3. AnswerIsStored'
      BY <2>1, <2>2 DEF AnswerIsStored, AnswerOK, Row
    <2> QED
      BY <1>1, <2>1, <2>3 DEF SubmissionInv
  <1>2. ASSUME NEW r \in Requests, Serve(r) PROVE SubmissionInv'
    <2>1. AnswersInv' /\ LockIsHeld' /\ AttemptIsFresh'
      BY <1>0, <1>2, ServeAnswers, ServeLocks, ServeFresh
    <2>2. page' = page
      BY <1>2 DEF Serve, Refuse, Lock, Lookup, Verify, Settle, Store, Throw, Unlock
    <2> QED
      BY <1>0, <1>1, <2>1, <2>2 DEF FreshAnswer
  <1>3. ASSUME NEW r \in Requests, Client(r) \/ Crash(r) PROVE SubmissionInv'
    BY <1>0, <1>1, <1>3, ClientAnswers, ClientLocks, ClientFresh
  <1>4. ASSUME NEW l \in Locks, Expire(l) PROVE SubmissionInv'
    <2>1. UNCHANGED <<request, stored, visible, paid, page>>
      BY <1>4 DEF Expire
    <2>2. AnswersInv'
      BY <1>0, <1>4, <2>1
         DEF AnswersInv, TypeOK, StagesOK, StageOK, OneRow, AnswerOK, Expire, Locks
    <2>3. AttemptIsFresh' /\ FreshAnswer'
      BY <1>0, <2>1 DEF AttemptIsFresh, FreshAnswer, NotHidden, Past
    <2> QED
      BY <1>0, <1>1, <1>4, <2>2, <2>3, ExpireLocks
  <1>5. ASSUME NEW b \in Bodies, Appear(b) PROVE SubmissionInv'
    <2>1. UNCHANGED <<request, locked, stored, paid, page, lapsed>> /\ visible' = visible \cup {b}
      BY <1>5 DEF Appear
    <2>2. TypeOK'
      BY <1>0, <2>1 DEF AnswersInv, TypeOK
    <2>3. AnswersInv'
      BY <1>0, <2>1, <2>2 DEF AnswersInv, StagesOK, StageOK, OneRow, AnswerOK
    <2>4. AttemptIsFresh' /\ FreshAnswer'
      BY <1>0, <2>1 DEF AttemptIsFresh, FreshAnswer, NotHidden, Past
    <2>5. LockIsHeld'
      BY <1>0, <2>1 DEF LockIsHeld, Inside, LockOf
    <2> QED
      BY <1>1, <2>3, <2>4, <2>5
  <1>6. CASE UNCHANGED vars
    <2>1. UNCHANGED <<request, locked, stored, visible, paid, page, lapsed>>
      BY <1>6 DEF vars
    <2>2. AnswersInv'
      BY <1>0, <2>1 DEF AnswersInv, TypeOK, StagesOK, StageOK, OneRow, AnswerOK
    <2>3. AttemptIsFresh' /\ FreshAnswer'
      BY <1>0, <2>1 DEF AttemptIsFresh, FreshAnswer, NotHidden, Past
    <2>4. LockIsHeld'
      BY <1>0, <2>1 DEF LockIsHeld, Inside, LockOf
    <2> QED
      BY <1>1, <2>2, <2>3, <2>4
  <1> QED
    BY <1>2, <1>3, <1>4, <1>5, <1>6 DEF Next, Locks

(* The inductive invariant holds of every state.                           *)
THEOREM SubmissionIsSound == Spec => []SubmissionInv
  BY InitSubmission, NextSubmission, PTL DEF Spec

(* AnswerIsStored holds of every state: whatever locks do, the answers of  *)
(* a key are one answer.                                                   *)
THEOREM AnswerCorrect == Spec => []AnswerIsStored
  <1>1. SubmissionInv => AnswerIsStored
    BY DEF SubmissionInv
  <1> QED
    BY <1>1, SubmissionIsSound, PTL

(* Exclusive holds of every state: a lock keeps all but one request out    *)
(* until it runs out over one of them.                                     *)
THEOREM ExclusiveCorrect == Spec => []Exclusive
  <1>1. SubmissionInv => Exclusive
    BY HeldIsExclusive DEF SubmissionInv
  <1> QED
    BY <1>1, SubmissionIsSound, PTL

(* FreshAnswer holds of every state: an attempt of the page never finds    *)
(* the answer of an earlier one.                                           *)
THEOREM FreshCorrect == Spec => []FreshAnswer
  <1>1. SubmissionInv => FreshAnswer
    BY DEF SubmissionInv
  <1> QED
    BY <1>1, SubmissionIsSound, PTL

================================================================================

------------------------- MODULE SubmissionCorrectness -------------------------
(***************************************************************************)
(* What idempotency keys promise to the caller of a submit route, and what *)
(* the checkout page makes of it.                                          *)
(***************************************************************************)
EXTENDS Submission

\* Type invariant.
TypeOK ==
  /\ request \in [Requests -> Request]
  /\ locked \subseteq Scopes \X (Keys \cup Attempts)
  /\ stored \subseteq [key : Keys \cup Attempts, body : Bodies, answer : Answers]
  /\ visible \subseteq Bodies /\ paid \subseteq visible \ Wrong
  /\ page \in Page
  /\ lapsed \subseteq Scopes \X (Keys \cup Attempts)

(* One answer per key: whatever a caller is told with status 200 is the    *)
(* one answer stored for its key and its body, also when a lock expired    *)
(* over a slow request and two requests of the key ran fn.                 *)
AnswerIsStored ==
  /\ TypeOK
  /\ \A r \in Requests :
       request[r].at \in {"release", "answered"} /\ request[r].answer # "error" =>
         {row \in stored : row.key = request[r].call.key} =
           {[key |-> request[r].call.key, body |-> request[r].call.body,
             answer |-> request[r].answer]}

(* Two requests of one scope and key are inside withIdempotency at the     *)
(* same time only if its lock expired over a request since nobody was.     *)
Exclusive ==
  \A l \in Scopes \X (Keys \cup Attempts) :
    l \notin lapsed => Cardinality(Inside(l)) <= 1

(* An attempt of the page that starts when Horizon already shows the       *)
(* payment is never answered "not found": no stored answer of an earlier   *)
(* attempt hides the payment.                                              *)
FreshAnswer == page.answer = "not found" => ~page.late

--------------------------------------------------------------------------------
(* The inductive invariant                                                 *)

\* What a request k holds at the stages of withIdempotency.
StageOK(k) ==
  /\ k.at = "idle" => k = Idle
  /\ k.at # "idle" => k.call \in Call
  /\ k.at = "settle" => k.call.body \in visible \ Wrong
  /\ k.at = "store" => k.answer \in Answers

StagesOK == \A r \in Requests : StageOK(request[r])

\* IdempotencyKey.key is the primary key.
OneRow == \A x, y \in stored : x.key = y.key => x = y

\* A lock nobody overran is held by whoever is inside, and one request is.
LockIsHeld ==
  \A l \in Scopes \X (Keys \cup Attempts) : l \notin lapsed =>
    /\ Inside(l) # {} => l \in locked
    /\ \A r, u \in Inside(l) : r = u

\* The page has given up the attempt of a key.
Past(key) == key < page.attempt \/ page.at = "stopped"

\* No answer "not found" to an attempt that started with the payment in view.
NotHidden(answer) == page.late => answer # "not found"

\* The key of the page's attempt is used by the attempt under way and by nobody else.
AttemptIsFresh ==
  /\ page.attempt \in Attempts
  /\ page.late => PageBody \in visible
  /\ \A r \in Requests : request[r].sender = "page" =>
       /\ page.at = "waiting" /\ NotHidden(request[r].answer)
       /\ request[r].call = [scope |-> PageScope, key |-> page.attempt, body |-> PageBody]
       /\ \A u \in Requests : request[u].sender = "page" => u = r
  /\ \A r \in Requests :
       request[r].at # "idle" /\ request[r].sender = "other" /\ request[r].call.key \in Attempts =>
         Past(request[r].call.key)
  /\ \A row \in stored : row.key \in Attempts =>
       \/ Past(row.key)
       \/ row.key = page.attempt /\ page.at = "waiting" /\ NotHidden(row.answer)

SubmissionInv ==
  /\ AnswerIsStored /\ FreshAnswer
  /\ StagesOK /\ OneRow /\ LockIsHeld /\ AttemptIsFresh

================================================================================

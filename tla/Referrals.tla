------------------------------- MODULE Referrals -------------------------------
(***************************************************************************)
(* The referral programme: a player draws a code, another binds himself to *)
(* it, his first settled order qualifies the invitation and the reward     *)
(* worker pays the player who invited him.                                 *)
(*                                                                         *)
(* Requests, settlements and workers run concurrently; each of their reads *)
(* and each database transaction is a step of its own.  Of a settlement    *)
(* only the transaction that qualifies an invitation is here, the rest is  *)
(* in Settlement.                                                          *)
(***************************************************************************)
EXTENDS Naturals, Sequences, FiniteSets

CONSTANTS
  Players, NoPlayer,
  Inviters,          \* bound: the players who ask for a code
  Codes,             \* the codes genCode may draw
  Orders, Buyer,     \* the orders and their players
  NoOrder,
  Amounts,           \* what studios may set as their reward, 0 to disable it
  Requests,          \* requests to /referrals and /referrals/bind
  Calls,             \* executions of verifyAndAdvanceOrder
  Workers,           \* concurrent runs of the referral-reward processor
  MaxStalls,         \* BullMQ maxStalledCount
  MaxRefunded,       \* bound: orders that are REFUNDED at a time
  MaxFaults          \* bound: failures of calls, runs and workers

(* A Referral row of an invitee has the code "<code>-<invitee>".           *)
Invites == Codes \X Players
NoInvite == <<>>
Invitee(i) == i[2]

ASSUME ConstantsAssumption ==
  /\ NoPlayer \notin Players /\ NoOrder \notin Orders
  /\ Inviters \subseteq Players
  /\ Buyer \in [Orders -> Players]
  /\ Amounts \subseteq Nat
  /\ IsFiniteSet(Requests) /\ IsFiniteSet(Workers)
  /\ MaxStalls \in Nat /\ MaxRefunded \in Nat /\ MaxFaults \in Nat

VARIABLES
  owner,       \* the Referral rows without a referee: who owns a code
  referredBy,  \* Player.referredByPlayerId
  invite,      \* the Referral rows of the invitees
  ledger,      \* the amounts of an invitation's REFERRAL_REWARD entries
  sent,        \* the amounts paid on chain for an invitation
  reward,      \* the reward of the studio
  status,      \* Order.paymentStatus
  request, call,
  job,         \* the reward job of an invitation
  run,         \* the run of each worker
  faults

vars == <<owner, referredBy, invite, ledger, sent, reward, status, request, call,
          job, run, faults>>
rows == <<owner, referredBy, invite, ledger, status>>

Request == [at : {"idle", "create", "found", "unbound"},
            player : Players \cup {NoPlayer}, code : Codes \cup {NoInvite}]
NoRequest == [at |-> "idle", player |-> NoPlayer, code |-> NoInvite]

Row == [status : {"NONE", "PENDING", "QUALIFIED", "REWARDED"},
        order : Orders \cup {NoOrder}, amount : Amounts \cup {0}]

Call == [at : {"idle", "read", "written", "qualified"},
         order : Orders \cup {NoOrder}, invite : Invites \cup {NoInvite}]
NoCall == [at |-> "idle", order |-> NoOrder, invite |-> NoInvite]

Job == [at : {"none", "waiting", "active", "done"}, stalls : 0..MaxStalls]

Run == [at : {"idle", "read", "disable", "send", "record"},
        invite : Invites \cup {NoInvite}, amount : Amounts \cup {0}, lock : BOOLEAN]
NoRun == [at |-> "idle", invite |-> NoInvite, amount |-> 0, lock |-> FALSE]

Init ==
  /\ owner = [c \in Codes |-> NoPlayer]
  /\ referredBy = [p \in Players |-> NoPlayer]
  /\ invite = [i \in Invites |-> [status |-> "NONE", order |-> NoOrder, amount |-> 0]]
  /\ ledger = [i \in Invites |-> << >>]
  /\ sent = [i \in Invites |-> << >>]
  /\ reward \in Amounts
  /\ status = [o \in Orders |-> "PENDING"]
  /\ request = [r \in Requests |-> NoRequest]
  /\ call = [k \in Calls |-> NoCall]
  /\ job = [i \in Invites |-> [at |-> "none", stalls |-> 0]]
  /\ run = [w \in Workers |-> NoRun]
  /\ faults = 0

Fault == faults < MaxFaults /\ faults' = faults + 1

--------------------------------------------------------------------------------
(***************************************************************************)
(* POST /referrals and POST /referrals/bind.                               *)
(***************************************************************************)
EndRequest(r) == request' = [request EXCEPT ![r] = NoRequest]

(* The player has no code yet; otherwise he is answered the one he has.    *)
AskCode(r, p) ==
  /\ request[r].at = "idle"
  /\ \A c \in Codes : owner[c] # p
  /\ request' = [request EXCEPT ![r] = [NoRequest EXCEPT !.at = "create",
                                                         !.player = p]]
  /\ UNCHANGED <<rows, sent, reward, call, job, run, faults>>

(* A draw that collides with another code is repeated.                     *)
CreateCode(r) ==
  /\ request[r].at = "create"
  /\ \E c \in Codes : /\ owner[c] = NoPlayer
                      /\ owner' = [owner EXCEPT ![c] = request[r].player]
  /\ EndRequest(r)
  /\ UNCHANGED <<referredBy, invite, ledger, sent, reward, status, call, job, run,
                 faults>>

(* The code of an invitation is refused: its row has a referee.            *)
FindCode(r, p, c) ==
  /\ request[r].at = "idle"
  /\ owner[c] \notin {NoPlayer, p}
  /\ request' = [request EXCEPT ![r] = [at |-> "found", player |-> p, code |-> c]]
  /\ UNCHANGED <<rows, sent, reward, call, job, run, faults>>

(* Mutant: nothing asks whether the player is bound already.               *)
NeverBound(r) ==
  /\ request[r].at = "found"
  /\ request' = [request EXCEPT ![r].at = "unbound"]
  /\ UNCHANGED <<rows, sent, reward, call, job, run, faults>>

CheckUnbound(r) ==
  /\ request[r].at = "found"
  /\ IF referredBy[request[r].player] = NoPlayer
       THEN request' = [request EXCEPT ![r].at = "unbound"]
       ELSE EndRequest(r)
  /\ UNCHANGED <<rows, sent, reward, call, job, run, faults>>

(* The transaction; the unique code of the row stops a second binding to   *)
(* one code, but none to the code of somebody else.                        *)
Bind(r) ==
  LET p == request[r].player
      i == <<request[r].code, p>>
  IN /\ request[r].at = "unbound"
     /\ IF invite[i].status = "NONE"
          THEN /\ referredBy' = [referredBy EXCEPT ![p] = owner[request[r].code]]
               /\ invite' = [invite EXCEPT ![i].status = "PENDING"]
          ELSE UNCHANGED <<referredBy, invite>>
     /\ EndRequest(r)
     /\ UNCHANGED <<owner, ledger, sent, reward, status, call, job, run, faults>>

(* An error, or five colliding draws.                                      *)
RequestFails(r) ==
  /\ request[r].at # "idle"
  /\ Fault
  /\ EndRequest(r)
  /\ UNCHANGED <<rows, sent, reward, call, job, run>>

--------------------------------------------------------------------------------
(***************************************************************************)
(* The referral branch of verifyAndAdvanceOrder.                           *)
(***************************************************************************)
EndCall(k) == call' = [call EXCEPT ![k] = NoCall]

(* The order is read as not PAID, its payment is verified; one that was    *)
(* refunded may come again with its hash.                                  *)
ReadOrder(k, o) ==
  /\ call[k].at = "idle"
  /\ status[o] # "PAID"
  /\ call' = [call EXCEPT ![k] = [NoCall EXCEPT !.at = "read", !.order = o]]
  /\ UNCHANGED <<rows, sent, reward, request, job, run, faults>>

(* No other order of the player is PAID.                                   *)
FirstPurchase(o) ==
  \A other \in Orders \ {o} : Buyer[other] = Buyer[o] => status[other] # "PAID"

PendingInvites(o) ==
  {i \in Invites : Invitee(i) = Buyer[o] /\ invite[i].status = "PENDING"}

(* In the transaction that writes PAID (another one of the same order is   *)
(* waited for): the count of other PAID orders and the choice of one of    *)
(* the PENDING invitations.                                                *)
WriteOrder(k) ==
  LET o == call[k].order
      found == IF FirstPurchase(o) THEN PendingInvites(o) ELSE {}
  IN /\ call[k].at = "read"
     /\ \A other \in Calls : call[other].at = "written" => call[other].order # o
     /\ \E i \in IF found = {} THEN {NoInvite} ELSE found :
          call' = [call EXCEPT ![k].at = "written", ![k].invite = i]
     /\ UNCHANGED <<rows, sent, reward, request, job, run, faults>>

(* Mutant: the row is updated whatever its status.                         *)
QualifiesAlways(k) == call[k].invite # NoInvite

(* The compare-and-set on PENDING finds the row.                           *)
Qualifies(k) ==
  call[k].invite # NoInvite /\ invite[call[k].invite].status = "PENDING"

CommitOrder(k) ==
  LET o == call[k].order
  IN /\ call[k].at = "written"
     /\ status' = [status EXCEPT ![o] = "PAID"]
     /\ IF Qualifies(k)
          THEN /\ invite' = [invite EXCEPT ![call[k].invite].status = "QUALIFIED",
                                           ![call[k].invite].order = o]
               /\ call' = [call EXCEPT ![k].at = "qualified"]
          ELSE UNCHANGED invite /\ EndCall(k)
     /\ UNCHANGED <<owner, referredBy, ledger, sent, reward, request, job, run, faults>>

(* The job is added after the commit, by this call only; its id is that of *)
(* the invitation.                                                         *)
AddReward(k) ==
  /\ call[k].at = "qualified"
  /\ job' = [job EXCEPT ![call[k].invite].at = IF @ = "none" THEN "waiting" ELSE @]
  /\ EndCall(k)
  /\ UNCHANGED <<rows, sent, reward, request, run, faults>>

CallFails(k) ==
  /\ call[k].at # "idle"
  /\ Fault
  /\ EndCall(k)
  /\ UNCHANGED <<rows, sent, reward, request, job, run>>

Refunded == {o \in Orders : status[o] = "REFUNDED"}

(* The order is refunded: it is no prior purchase any more.                *)
Refund(o) ==
  /\ status[o] = "PAID"
  /\ Cardinality(Refunded) < MaxRefunded
  /\ status' = [status EXCEPT ![o] = "REFUNDED"]
  /\ UNCHANGED <<owner, referredBy, invite, ledger, sent, reward, request, call, job,
                 run, faults>>

(* PATCH /studios/:id.                                                     *)
SetReward(a) ==
  /\ reward' = a
  /\ UNCHANGED <<rows, sent, request, call, job, run, faults>>

(* SAVE REFERRAL REWARD, perhaps from an old page, or DISABLE REWARDS.     *)
SaveReferralReward == \E a \in Amounts : SetReward(a)

--------------------------------------------------------------------------------
(***************************************************************************)
(* The referral-reward processor.  A worker that does not renew its lock   *)
(* in time goes on while the job, once, is given to another worker.        *)
(***************************************************************************)
EndRun(w) ==
  /\ run' = [run EXCEPT ![w] = NoRun]
  /\ job' = IF run[w].lock THEN [job EXCEPT ![run[w].invite].at = "done"] ELSE job

Rewardable(i) == invite[i].status = "QUALIFIED"

Take(w, i) ==
  /\ run[w].at = "idle"
  /\ job[i].at = "waiting"
  /\ IF Rewardable(i)
       THEN /\ job' = [job EXCEPT ![i].at = "active"]
            /\ run' = [run EXCEPT ![w] = [at |-> "read", invite |-> i, amount |-> 0,
                                          lock |-> TRUE]]
       ELSE job' = [job EXCEPT ![i].at = "done"] /\ UNCHANGED run
  /\ UNCHANGED <<rows, sent, reward, request, call, faults>>

(* The studio's amount, 0 if it has disabled the reward.                   *)
ReadReward(w) ==
  /\ run[w].at = "read"
  /\ run' = [run EXCEPT ![w].at = IF reward = 0 THEN "disable" ELSE "send",
                        ![w].amount = reward]
  /\ UNCHANGED <<rows, sent, reward, request, call, job, faults>>

(* The row is updated by its id.                                           *)
Disable(w) ==
  /\ run[w].at = "disable"
  /\ invite' = [invite EXCEPT ![run[w].invite].status = "REWARDED",
                              ![run[w].invite].amount = 0]
  /\ EndRun(w)
  /\ UNCHANGED <<owner, referredBy, ledger, sent, reward, status, request, call, faults>>

SendPayment(i, a) == sent' = [sent EXCEPT ![i] = Append(@, a)]

Send(w) ==
  /\ run[w].at = "send"
  /\ SendPayment(run[w].invite, run[w].amount)
  /\ run' = [run EXCEPT ![w].at = "record"]
  /\ UNCHANGED <<rows, reward, request, call, job, faults>>

(* The answer of the network is lost, the payment is not.                  *)
SendThrows(w) ==
  /\ run[w].at = "send"
  /\ Fault
  /\ SendPayment(run[w].invite, run[w].amount)
  /\ EndRun(w)
  /\ UNCHANGED <<rows, reward, request, call>>

(* Mutant: the ledger entry does not depend on the compare-and-set.        *)
RecordAlways(w) ==
  LET i == run[w].invite
  IN /\ run[w].at = "record"
     /\ invite' = [invite EXCEPT ![i].status = "REWARDED", ![i].amount = run[w].amount]
     /\ ledger' = [ledger EXCEPT ![i] = Append(@, run[w].amount)]
     /\ EndRun(w)
     /\ UNCHANGED <<owner, referredBy, sent, reward, status, request, call, faults>>

(* The compare-and-set on QUALIFIED and the ledger entry, in one           *)
(* transaction.                                                            *)
Record(w) ==
  LET i == run[w].invite
  IN /\ run[w].at = "record"
     /\ IF invite[i].status = "QUALIFIED"
          THEN /\ invite' = [invite EXCEPT ![i].status = "REWARDED",
                                           ![i].amount = run[w].amount]
               /\ ledger' = [ledger EXCEPT ![i] = Append(@, run[w].amount)]
          ELSE UNCHANGED <<invite, ledger>>
     /\ EndRun(w)
     /\ UNCHANGED <<owner, referredBy, sent, reward, status, request, call, faults>>

RunThrows(w) ==
  /\ run[w].at # "idle"
  /\ Fault
  /\ EndRun(w)
  /\ UNCHANGED <<rows, sent, reward, request, call>>

(* The process is lost; its job stays active.                              *)
RunDies(w) ==
  /\ run[w].at # "idle"
  /\ Fault
  /\ run' = [run EXCEPT ![w] = NoRun]
  /\ UNCHANGED <<rows, sent, reward, request, call, job>>

Stalled(j) == IF j.stalls < MaxStalls
                THEN [at |-> "waiting", stalls |-> j.stalls + 1]
                ELSE [j EXCEPT !.at = "done"]

(* The lock of a job nobody runs has expired.                              *)
Recover(i) ==
  /\ job[i].at = "active"
  /\ \A w \in Workers : run[w].invite = i => ~run[w].lock
  /\ job' = [job EXCEPT ![i] = Stalled(@)]
  /\ UNCHANGED <<rows, sent, reward, request, call, run, faults>>

LoseLock(w) ==
  /\ run[w].lock
  /\ Fault
  /\ run' = [run EXCEPT ![w].lock = FALSE]
  /\ UNCHANGED <<rows, sent, reward, request, call, job>>

--------------------------------------------------------------------------------
RequestStep(r) ==
  \/ \E p \in Inviters : AskCode(r, p)
  \/ \E p \in Players, c \in Codes : FindCode(r, p, c)
  \/ CreateCode(r) \/ CheckUnbound(r) \/ Bind(r) \/ RequestFails(r)

CallStep(k) ==
  WriteOrder(k) \/ CommitOrder(k) \/ AddReward(k)

RunStep(w) ==
  \/ \E i \in Invites : Take(w, i)
  \/ ReadReward(w) \/ Disable(w) \/ Send(w) \/ Record(w)

Next ==
  \/ \E r \in Requests : RequestStep(r)
  \/ \E k \in Calls : CallStep(k) \/ CallFails(k) \/ \E o \in Orders : ReadOrder(k, o)
  \/ \E o \in Orders : Refund(o)
  \/ SaveReferralReward
  \/ \E w \in Workers : RunStep(w) \/ SendThrows(w) \/ RunThrows(w) \/ RunDies(w)
                        \/ LoseLock(w)
  \/ \E i \in Invites : Recover(i)

Spec == Init /\ [][Next]_vars

================================================================================

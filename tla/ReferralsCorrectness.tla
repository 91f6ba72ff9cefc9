-------------------------- MODULE ReferralsCorrectness -------------------------
(***************************************************************************)
(* What the referral programme guarantees.                                 *)
(***************************************************************************)
EXTENDS Referrals, SequencesExt

\* Type invariant.
TypeOK ==
  /\ owner \in [Codes -> Players \cup {NoPlayer}]
  /\ referredBy \in [Players -> Players \cup {NoPlayer}]
  /\ invite \in [Invites -> Row]
  /\ ledger \in [Invites -> Seq(Amounts)] /\ sent \in [Invites -> Seq(Amounts)]
  /\ reward \in Amounts
  /\ status \in [Orders -> {"PENDING", "PAID", "REFUNDED"}]
  /\ request \in [Requests -> Request]
  /\ call \in [Calls -> Call]
  /\ job \in [Invites -> Job]
  /\ run \in [Workers -> Run]
  /\ faults \in 0..MaxFaults

Invitations(p) == {i \in Invites : Invitee(i) = p /\ invite[i].status # "NONE"}

(* bind/route.ts: a player is bound exactly if he has an invitation, by    *)
(* the owner of one of his and never by himself; and he collects no more   *)
(* of them than requests had found him unbound together.                   *)
BindingsBounded ==
  /\ TypeOK
  /\ \A p \in Players :
       /\ IF referredBy[p] = NoPlayer THEN Invitations(p) = {}
          ELSE /\ \E i \in Invitations(p) : owner[i[1]] = referredBy[p]
               /\ Cardinality(Invitations(p))
                    + Cardinality({r \in Requests : /\ request[r].at = "unbound"
                                                    /\ request[r].player = p})
                    <= Cardinality(Requests)
       /\ referredBy[p] # p

(* processor.ts: an invitation has one REFERRAL_REWARD entry at most, it   *)
(* stands for a payment on chain, and what a rewarded invitation shows as  *)
(* its amount is that entry, unless the studio disabled the reward for     *)
(* another run; however workers stall and die, the network pays it no      *)
(* oftener than the queue hands out the job.                               *)
RewardIsLedgered ==
  \A i \in Invites :
    /\ Len(ledger[i]) <= 1
    /\ \A a \in ToSet(ledger[i]) : /\ a \in ToSet(sent[i])
                                   /\ invite[i].status = "REWARDED"
                                   /\ invite[i].amount \in {a, 0}
    /\ invite[i].status = "REWARDED" /\ invite[i].amount > 0
         => ledger[i] = <<invite[i].amount>>
    /\ sent[i] # << >> => invite[i].status \in {"QUALIFIED", "REWARDED"}
    /\ Len(sent[i]) <= 1 + MaxStalls

Rank(row) == CASE row.status = "NONE" -> 0      [] row.status = "PENDING" -> 1
               [] row.status = "QUALIFIED" -> 2 [] row.status = "REWARDED" -> 3

(* settlement.ts, processor.ts: an invitation only ever advances, one      *)
(* status at a time, whatever stale settlements and runs write; the order  *)
(* that qualified it is an order of the invitee and stays the same.        *)
StatusAdvances ==
  [][\A i \in Invites :
       /\ Rank(invite'[i]) - Rank(invite[i]) \in {0, 1}
       /\ IF Rank(invite[i]) < 2 /\ Rank(invite'[i]) = 2
            THEN /\ Buyer[invite'[i].order] = Invitee(i)
                 /\ status'[invite'[i].order] = "PAID"
            ELSE invite'[i].order = invite[i].order]_vars

--------------------------------------------------------------------------------
(* The inductive invariant                                                 *)

\* A request k to bind has found the code of somebody else.
RequestOK(k) ==
  /\ k.at # "idle" => k.player \in Players
  /\ k.at \in {"found", "unbound"} => k.code \in Codes /\ owner[k.code] \notin {NoPlayer, k.player}

Qualified(i) == invite[i].status \in {"QUALIFIED", "REWARDED"}

\* A settlement k qualifies an invitation of the buyer.
CallOK(k) ==
  /\ k.at # "idle" => k.order \in Orders
  /\ k.at # "idle" /\ k.invite # NoInvite => Invitee(k.invite) = Buyer[k.order]
  /\ k.at = "qualified" => k.invite \in Invites /\ Qualified(k.invite)

\* A run k is for a qualified invitation, and for the active job if its lock is in time.
RunOK(k) ==
  /\ k.at = "idle" => k = NoRun
  /\ k.at # "idle" => k.invite \in Invites /\ Qualified(k.invite)
  /\ k.at \in {"send", "record"} => k.amount \in Amounts
  /\ k.at = "record" => k.amount \in ToSet(sent[k.invite])
  /\ k.lock => job[k.invite].at = "active"

StepsOK ==
  /\ \A r \in Requests : RequestOK(request[r])
  /\ \A k \in Calls : CallOK(call[k])
  /\ \A w \in Workers : RunOK(run[w])
  /\ \A w, v \in Workers : run[w].lock /\ run[v].lock /\ run[w].invite = run[v].invite => w = v

\* The runs for an invitation that may still pay.
Paying(i) == {w \in Workers : run[w].invite = i /\ run[w].at \in {"read", "send"}}

\* How often a job was handed out: each time it stalled, and the last time.
HandedOut(j) == j.stalls + (IF j.at \in {"none", "waiting"} THEN 0 ELSE 1)

JobsOK ==
  \A i \in Invites :
    /\ job[i].at = "none" => job[i].stalls = 0
    /\ job[i].at # "none" => Qualified(i)
    /\ Len(sent[i]) + Cardinality(Paying(i)) <= HandedOut(job[i])

ReferralsInv ==
  /\ BindingsBounded /\ RewardIsLedgered /\ StepsOK /\ JobsOK
  /\ \A p \in Players : IsFiniteSet(Invitations(p))

================================================================================

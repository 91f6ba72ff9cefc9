----------------------------- MODULE ReferralsProofs -----------------------------
(***************************************************************************)
(* What the referral programme guarantees, for any players, codes, orders, *)
(* amounts, requests, settlements, workers and numbers of failures.        *)
(***************************************************************************)
EXTENDS ReferralsCorrectness, SequenceTheorems, FiniteSetTheorems, TLAPS

--------------------------------------------------------------------------------
(* Invitations, sequences and functions                                    *)

(* An invitation is a code and a player.                                   *)
LEMMA InviteFields ==
  /\ \A c \in Codes, p \in Players :
       <<c, p>> \in Invites /\ Invitee(<<c, p>>) = p /\ <<c, p>>[1] = c
  /\ \A i \in Invites : i[1] \in Codes /\ Invitee(i) \in Players /\ i = <<i[1], Invitee(i)>>
  /\ NoInvite \notin Invites
  BY DEF Invites, Invitee, NoInvite

(* The elements of a sequence that is empty, and of one that grows.        *)
LEMMA Elements ==
  /\ ToSet(<< >>) = {}
  /\ \A S, s, a : s \in Seq(S) /\ a \in S =>
       ToSet(Append(s, a)) = ToSet(s) \cup {a} /\ Append(s, a) \in Seq(S)
         /\ Len(Append(s, a)) = Len(s) + 1
  /\ \A S, s : s \in Seq(S) => /\ (ToSet(s) = {} => s = << >>)
                               /\ (s = << >> <=> Len(s) = 0)
                               /\ Len(s) \in Nat
  <1>1. ToSet(<< >>) = {}
    BY DEF ToSet
  <1>2. ASSUME NEW S, NEW s \in Seq(S), NEW a \in S
        PROVE  /\ ToSet(Append(s, a)) = ToSet(s) \cup {a} /\ Append(s, a) \in Seq(S)
               /\ Len(Append(s, a)) = Len(s) + 1
    <2>1. /\ Append(s, a) \in Seq(S) /\ Len(Append(s, a)) = Len(s) + 1
          /\ \A n \in 1..Len(s) : Append(s, a)[n] = s[n]
          /\ Append(s, a)[Len(s) + 1] = a
      BY AppendProperties
    <2>2. /\ Len(s) \in Nat /\ DOMAIN s = 1..Len(s)
          /\ DOMAIN Append(s, a) = 1..(Len(s) + 1)
      BY <2>1, LenProperties
    <2> QED
      BY <2>1, <2>2 DEF ToSet
  <1>3. ASSUME NEW S, NEW s \in Seq(S)
        PROVE  /\ (ToSet(s) = {} => s = << >>)
               /\ (s = << >> <=> Len(s) = 0)
               /\ Len(s) \in Nat
    <2>1. Len(s) \in Nat /\ DOMAIN s = 1..Len(s)
      BY LenProperties
    <2>2. Len(<< >>) = 0 /\ (s # << >> => Len(s) # 0)
      BY EmptySeq, <2>1
    <2>3. Len(s) # 0 => ToSet(s) # {}
      <3>1. ASSUME Len(s) # 0 PROVE s[1] \in ToSet(s)
        BY <2>1, <3>1 DEF ToSet
      <3> QED
        BY <3>1
    <2> QED
      BY <2>1, <2>2, <2>3
  <1> QED
    BY <1>1, <1>2, <1>3

(* One element of a function changes.                                      *)
LEMMA OneChanges ==
  ASSUME NEW D, NEW R, NEW f \in [D -> R], NEW d \in D, NEW e \in R, NEW g,
         g = [f EXCEPT ![d] = e]
  PROVE  g \in [D -> R] /\ g[d] = e /\ \A x \in D \ {d} : g[x] = f[x]
  OBVIOUS

--------------------------------------------------------------------------------
(* What a step does to an invitation                                       *)

(* It is left alone, bound, qualified by an order of the invitee, ended    *)
(* without a reward, rewarded with an amount that was paid, or paid.       *)
Untouched(i) == invite'[i] = invite[i] /\ sent'[i] = sent[i] /\ ledger'[i] = ledger[i]

Bound(i) ==
  /\ invite[i].status = "NONE"
  /\ invite'[i] = [invite[i] EXCEPT !.status = "PENDING"]
  /\ sent'[i] = sent[i] /\ ledger'[i] = ledger[i]

QualifiedBy(i, o) ==
  /\ o \in Orders /\ Buyer[o] = Invitee(i) /\ status'[o] = "PAID"
  /\ invite[i].status = "PENDING"
  /\ invite'[i] = [invite[i] EXCEPT !.status = "QUALIFIED", !.order = o]
  /\ sent'[i] = sent[i] /\ ledger'[i] = ledger[i]

Ended(i) ==
  /\ Qualified(i)
  /\ invite'[i] = [invite[i] EXCEPT !.status = "REWARDED", !.amount = 0]
  /\ sent'[i] = sent[i] /\ ledger'[i] = ledger[i]

Rewarded(i, a) ==
  /\ invite[i].status = "QUALIFIED" /\ a \in Amounts /\ a \in ToSet(sent[i])
  /\ invite'[i] = [invite[i] EXCEPT !.status = "REWARDED", !.amount = a]
  /\ sent'[i] = sent[i] /\ ledger'[i] = Append(ledger[i], a)

Paid(i, a) ==
  /\ Qualified(i) /\ a \in Amounts
  /\ invite'[i] = invite[i]
  /\ sent'[i] = Append(sent[i], a) /\ ledger'[i] = ledger[i]

InviteStep(i) ==
  \/ Untouched(i) \/ Bound(i) \/ Ended(i)
  \/ \E o \in Orders : QualifiedBy(i, o)
  \/ \E a \in Amounts : Rewarded(i, a) \/ Paid(i, a)

Histories == invite \in [Invites -> Row] /\ ledger \in [Invites -> Seq(Amounts)]
             /\ sent \in [Invites -> Seq(Amounts)]

\* All invitations but i are left alone.
OnlyInvite(i) == \A j \in Invites \ {i} : Untouched(j)

(* A step leaves all invitations alone.                                    *)
LEMMA NoInviteStep ==
  ASSUME Histories, UNCHANGED <<invite, ledger, sent>>
  PROVE  Histories' /\ \A i \in Invites : InviteStep(i)
  BY DEF Histories, InviteStep, Untouched

(* A row becomes another row.                                              *)
LEMMA RowStep ==
  ASSUME Histories, NEW i \in Invites, NEW row \in Row, invite' = [invite EXCEPT ![i] = row],
         UNCHANGED <<ledger, sent>>
  PROVE  /\ Histories' /\ OnlyInvite(i) /\ invite'[i] = row
         /\ sent'[i] = sent[i] /\ ledger'[i] = ledger[i]
  BY OneChanges DEF Histories, OnlyInvite, Untouched

(* The requests bind at most.                                              *)
LEMMA RequestInvite ==
  ASSUME TypeOK, StepsOK, NEW r \in Requests, RequestStep(r)
  PROVE  Histories' /\ \A i \in Invites : InviteStep(i)
  <1>0. Histories /\ RequestOK(request[r])
    BY DEF TypeOK, Histories, StepsOK
  <1>1. CASE ~Bind(r)
    BY <1>0, <1>1, NoInviteStep
       DEF RequestStep, AskCode, FindCode, CreateCode, CheckUnbound, RequestFails, rows
  <1>2. CASE Bind(r)
    <2> DEFINE i == <<request[r].code, request[r].player>>
    <2>1. i \in Invites
      BY <1>0, <1>2, InviteFields DEF RequestOK, Bind
    <2>2. CASE invite[i].status = "NONE"
      <3> DEFINE row == [invite[i] EXCEPT !.status = "PENDING"]
      <3>1. row \in Row
        BY <1>0, <2>1 DEF Row, Histories
      <3>2. invite' = [invite EXCEPT ![i] = row] /\ UNCHANGED <<ledger, sent>>
        BY <1>2, <2>2 DEF Bind
      <3>3. /\ Histories' /\ OnlyInvite(i) /\ invite'[i] = row
            /\ sent'[i] = sent[i] /\ ledger'[i] = ledger[i]
        BY <1>0, <2>1, <3>1, <3>2, RowStep
      <3>4. Bound(i)
        BY <2>2, <3>3 DEF Bound
      <3> HIDE DEF i, row
      <3> QED
        BY <3>3, <3>4 DEF OnlyInvite, InviteStep
    <2>3. CASE invite[i].status # "NONE"
      BY <1>0, <1>2, <2>3, NoInviteStep DEF Bind
    <2> QED
      BY <2>2, <2>3
  <1> QED
    BY <1>1, <1>2

(* The settlements qualify at most.                                        *)
LEMMA CallInvite ==
  ASSUME TypeOK, StepsOK, NEW k \in Calls,
         CallStep(k) \/ CallFails(k) \/ \E o \in Orders : ReadOrder(k, o)
  PROVE  Histories' /\ \A i \in Invites : InviteStep(i)
  <1>0. Histories /\ CallOK(call[k]) /\ call[k] \in Call
    BY DEF TypeOK, Histories, StepsOK
  <1>1. CASE ~CommitOrder(k)
    BY <1>0, <1>1, NoInviteStep
       DEF CallStep, CallFails, ReadOrder, WriteOrder, AddReward, rows
  <1>2. CASE CommitOrder(k) /\ Qualifies(k)
    <2> DEFINE i == call[k].invite
               o == call[k].order
    <2>1. i \in Invites /\ o \in Orders /\ Invitee(i) = Buyer[o] /\ invite[i].status = "PENDING"
      BY <1>0, <1>2 DEF CallOK, Call, CommitOrder, Qualifies
    <2> DEFINE row == [invite[i] EXCEPT !.status = "QUALIFIED", !.order = o]
    <2>2. row \in Row
      BY <1>0, <2>1 DEF Row, Histories
    <2>3. /\ invite' = [invite EXCEPT ![i] = row] /\ UNCHANGED <<ledger, sent>>
          /\ status'[o] = "PAID"
      BY <1>0, <1>2, <2>1 DEF CommitOrder, TypeOK, Histories, Row
    <2>4. /\ Histories' /\ OnlyInvite(i) /\ invite'[i] = row
          /\ sent'[i] = sent[i] /\ ledger'[i] = ledger[i]
      BY <1>0, <2>1, <2>2, <2>3, RowStep
    <2>5. QualifiedBy(i, o)
      BY <2>1, <2>3, <2>4 DEF QualifiedBy
    <2> HIDE DEF i, o, row
    <2> QED
      BY <2>1, <2>4, <2>5 DEF OnlyInvite, InviteStep
  <1>3. CASE CommitOrder(k) /\ ~Qualifies(k)
    BY <1>0, <1>3, NoInviteStep DEF CommitOrder
  <1> QED
    BY <1>1, <1>2, <1>3

(* A payment is added to those of an invitation.                           *)
LEMMA SentStep ==
  ASSUME Histories, NEW i \in Invites, NEW a \in Amounts, Qualified(i), SendPayment(i, a),
         UNCHANGED <<invite, ledger>>
  PROVE  Histories' /\ OnlyInvite(i) /\ Paid(i, a)
  <1>1. sent[i] \in Seq(Amounts) /\ Append(sent[i], a) \in Seq(Amounts)
    BY Elements DEF Histories
  <1>2. sent' = [sent EXCEPT ![i] = Append(sent[i], a)]
    BY DEF SendPayment
  <1> QED
    BY <1>1, <1>2, OneChanges DEF Histories, OnlyInvite, Untouched, Paid

(* A run ends, rewards or pays the invitation of its job at most.          *)
LEMMA RunInvite ==
  ASSUME TypeOK, StepsOK, NEW w \in Workers,
         RunStep(w) \/ SendThrows(w) \/ RunThrows(w) \/ RunDies(w) \/ LoseLock(w)
  PROVE  Histories' /\ \A i \in Invites : InviteStep(i)
  <1>0. Histories /\ RunOK(run[w]) /\ run[w] \in Run
    BY DEF TypeOK, Histories, StepsOK
  <1> DEFINE i == run[w].invite
             a == run[w].amount
  <1>1. CASE Send(w) \/ SendThrows(w)
    <2>1. i \in Invites /\ Qualified(i) /\ a \in Amounts /\ SendPayment(i, a)
          /\ UNCHANGED <<invite, ledger>>
      BY <1>0, <1>1 DEF RunOK, Send, SendThrows, rows
    <2>2. Histories' /\ OnlyInvite(i) /\ Paid(i, a)
      BY <1>0, <2>1, SentStep
    <2> HIDE DEF i, a
    <2> QED
      BY <2>1, <2>2 DEF OnlyInvite, InviteStep
  <1>2. CASE Disable(w)
    <2>1. i \in Invites /\ Qualified(i)
      BY <1>0, <1>2 DEF RunOK, Disable
    <2> DEFINE row == [invite[i] EXCEPT !.status = "REWARDED", !.amount = 0]
    <2>2. row \in Row
      BY <1>0, <2>1 DEF Row, Histories
    <2>3. invite' = [invite EXCEPT ![i] = row] /\ UNCHANGED <<ledger, sent>>
      BY <1>0, <1>2, <2>1 DEF Disable, Histories, Row
    <2>4. /\ Histories' /\ OnlyInvite(i) /\ invite'[i] = row
          /\ sent'[i] = sent[i] /\ ledger'[i] = ledger[i]
      BY <1>0, <2>1, <2>2, <2>3, RowStep
    <2>5. Ended(i)
      BY <2>1, <2>4 DEF Ended
    <2> HIDE DEF i, row
    <2> QED
      BY <2>1, <2>4, <2>5 DEF OnlyInvite, InviteStep
  <1>3. CASE Record(w) /\ invite[i].status = "QUALIFIED"
    <2>1. i \in Invites /\ a \in Amounts /\ a \in ToSet(sent[i])
      BY <1>0, <1>3 DEF RunOK, Record
    <2> DEFINE row == [invite[i] EXCEPT !.status = "REWARDED", !.amount = a]
    <2>2. row \in Row
      BY <1>0, <2>1 DEF Row, Histories
    <2>3. invite' = [invite EXCEPT ![i] = row] /\ UNCHANGED sent
          /\ ledger' = [ledger EXCEPT ![i] = Append(ledger[i], a)]
      BY <1>0, <1>3, <2>1 DEF Record, Histories, Row
    <2>4. ledger[i] \in Seq(Amounts) /\ Append(ledger[i], a) \in Seq(Amounts)
      BY <1>0, <2>1, Elements DEF Histories
    <2> HIDE DEF i, row, a
    <2>5. /\ invite' \in [Invites -> Row] /\ invite'[i] = row
          /\ \A j \in Invites \ {i} : invite'[j] = invite[j]
      BY <1>0, <2>1, <2>2, <2>3, OneChanges DEF Histories
    <2>6. /\ ledger' \in [Invites -> Seq(Amounts)] /\ ledger'[i] = Append(ledger[i], a)
          /\ \A j \in Invites \ {i} : ledger'[j] = ledger[j]
      BY <1>0, <2>1, <2>4, <2>3, OneChanges DEF Histories
    <2>7. Histories' /\ OnlyInvite(i)
      BY <1>0, <2>3, <2>5, <2>6 DEF Histories, OnlyInvite, Untouched
    <2>8. Rewarded(i, a)
      BY <1>3, <2>1, <2>3, <2>5, <2>6 DEF Rewarded, row
    <2> QED
      BY <2>1, <2>7, <2>8 DEF OnlyInvite, InviteStep
  <1>4. CASE Record(w) /\ invite[i].status # "QUALIFIED"
    BY <1>0, <1>4, NoInviteStep DEF Record
  <1>5. CASE (\E j \in Invites : Take(w, j)) \/ ReadReward(w) \/ RunThrows(w) \/ RunDies(w)
             \/ LoseLock(w)
    BY <1>0, <1>5, NoInviteStep DEF Take, ReadReward, RunThrows, RunDies, LoseLock, rows
  <1> QED
    BY <1>1, <1>2, <1>3, <1>4, <1>5 DEF RunStep

(* Every step.                                                             *)
LEMMA InviteSteps ==
  ASSUME TypeOK, StepsOK, [Next]_vars
  PROVE  Histories' /\ \A i \in Invites : InviteStep(i)
  <1>0. Histories
    BY DEF TypeOK, Histories
  <1>1. CASE \E r \in Requests : RequestStep(r)
    BY <1>1, RequestInvite
  <1>2. CASE \E k \in Calls : CallStep(k) \/ CallFails(k) \/ \E o \in Orders : ReadOrder(k, o)
    BY <1>2, CallInvite
  <1>3. CASE \E w \in Workers : RunStep(w) \/ SendThrows(w) \/ RunThrows(w) \/ RunDies(w)
                                \/ LoseLock(w)
    BY <1>3, RunInvite
  <1>4. CASE (\E o \in Orders : Refund(o)) \/ SaveReferralReward \/ (\E i \in Invites : Recover(i))
             \/ UNCHANGED vars
    BY <1>0, <1>4, NoInviteStep DEF Refund, SaveReferralReward, SetReward, Recover, rows, vars
  <1> QED
    BY <1>1, <1>2, <1>3, <1>4 DEF Next

--------------------------------------------------------------------------------
(* What a step keeps of an invitation                                      *)

\* The part of RewardIsLedgered that looks at an invitation alone.
Ledgered(i) ==
  /\ Len(ledger[i]) <= 1
  /\ \A a \in ToSet(ledger[i]) : /\ a \in ToSet(sent[i])
                                 /\ invite[i].status = "REWARDED"
                                 /\ invite[i].amount \in {a, 0}
  /\ invite[i].status = "REWARDED" /\ invite[i].amount > 0
       => ledger[i] = <<invite[i].amount>>
  /\ sent[i] # << >> => invite[i].status \in {"QUALIFIED", "REWARDED"}

Advances(i) ==
  /\ Rank(invite'[i]) - Rank(invite[i]) \in {0, 1}
  /\ IF Rank(invite[i]) < 2 /\ Rank(invite'[i]) = 2
       THEN /\ Buyer[invite'[i].order] = Invitee(i)
            /\ status'[invite'[i].order] = "PAID"
       ELSE invite'[i].order = invite[i].order

(* The rank of a row.                                                      *)
LEMMA Ranks ==
  ASSUME NEW row \in Row
  PROVE  /\ row.status = "NONE" => Rank(row) = 0
         /\ row.status = "PENDING" => Rank(row) = 1
         /\ row.status = "QUALIFIED" => Rank(row) = 2
         /\ row.status = "REWARDED" => Rank(row) = 3
         /\ Rank(row) \in 0..3
  BY DEF Rank, Row

(* An invitation advances.                                                 *)
LEMMA InviteAdvances ==
  ASSUME Histories, Histories', NEW i \in Invites, InviteStep(i)
  PROVE  Advances(i)
  <1>0. invite[i] \in Row /\ invite'[i] \in Row
    BY DEF Histories
  <1>1. /\ invite[i].status \in {"NONE", "PENDING", "QUALIFIED", "REWARDED"}
        /\ invite[i] = [status |-> invite[i].status, order |-> invite[i].order,
                        amount |-> invite[i].amount]
    BY <1>0 DEF Row
  <1>2. CASE invite'[i] = invite[i]
    <2>1. Rank(invite[i]) \in 0..3
      BY <1>0, Ranks
    <2> QED
      BY <1>2, <2>1 DEF Advances
  <1>3. CASE Bound(i)
    <2>1. invite'[i].status = "PENDING" /\ invite'[i].order = invite[i].order
      BY <1>1, <1>3 DEF Bound
    <2>2. Rank(invite[i]) = 0 /\ Rank(invite'[i]) = 1
      BY <1>0, <1>3, <2>1, Ranks DEF Bound
    <2> QED
      BY <2>1, <2>2 DEF Advances
  <1>4. CASE \E o \in Orders : QualifiedBy(i, o)
    <2>1. PICK o \in Orders : QualifiedBy(i, o)
      BY <1>4
    <2>2. invite'[i].status = "QUALIFIED" /\ invite'[i].order = o
      BY <1>1, <2>1 DEF QualifiedBy
    <2>3. Rank(invite[i]) = 1 /\ Rank(invite'[i]) = 2
      BY <1>0, <2>1, <2>2, Ranks DEF QualifiedBy
    <2> QED
      BY <2>1, <2>2, <2>3 DEF Advances, QualifiedBy
  <1>5. CASE Ended(i) \/ \E a \in Amounts : Rewarded(i, a)
    <2>1. /\ invite'[i].status = "REWARDED" /\ invite'[i].order = invite[i].order
          /\ Qualified(i)
      BY <1>1, <1>5 DEF Ended, Rewarded, Qualified
    <2>2. Rank(invite[i]) \in {2, 3} /\ Rank(invite'[i]) = 3
      BY <1>0, <2>1, Ranks DEF Qualified
    <2> QED
      BY <2>1, <2>2 DEF Advances
  <1> QED
    BY <1>2, <1>3, <1>4, <1>5 DEF InviteStep, Untouched, Paid

(* It stays qualified, its payments stay, and its entry stands for one.    *)
LEMMA InviteKeeps ==
  ASSUME Histories, Histories', NEW i \in Invites, InviteStep(i)
  PROVE  /\ Qualified(i) => Qualified(i)'
         /\ ToSet(sent[i]) \subseteq ToSet(sent[i])'
         /\ invite[i].status # "NONE" => invite'[i].status # "NONE"
         /\ Ledgered(i) => Ledgered(i)'
  <1>0. /\ invite[i] \in Row /\ sent[i] \in Seq(Amounts) /\ ledger[i] \in Seq(Amounts)
        /\ invite[i].amount \in Amounts \cup {0} /\ Amounts \subseteq Nat
    BY ConstantsAssumption DEF Histories, Row
  <1>1. invite[i] = [status |-> invite[i].status, order |-> invite[i].order,
                     amount |-> invite[i].amount]
    BY <1>0 DEF Row
  <1>2. CASE Untouched(i)
    BY <1>2 DEF Untouched, Qualified, Ledgered
  <1>3. CASE Bound(i) \/ \E o \in Orders : QualifiedBy(i, o)
    <2>1. /\ invite[i].status \in {"NONE", "PENDING"}
          /\ invite'[i].status \in {"PENDING", "QUALIFIED"}
          /\ sent'[i] = sent[i] /\ ledger'[i] = ledger[i]
      BY <1>1, <1>3 DEF Bound, QualifiedBy
    <2> QED
      BY <2>1 DEF Ledgered, Qualified
  <1>4. CASE Ended(i)
    <2>1. /\ invite'[i].status = "REWARDED" /\ invite'[i].amount = 0
          /\ sent'[i] = sent[i] /\ ledger'[i] = ledger[i]
      BY <1>1, <1>4 DEF Ended
    <2> QED
      BY <2>1 DEF Ledgered, Qualified
  <1>5. ASSUME NEW a \in Amounts, Rewarded(i, a)
        PROVE  /\ Qualified(i) => Qualified(i)'
               /\ ToSet(sent[i]) \subseteq ToSet(sent[i])'
               /\ invite[i].status # "NONE" => invite'[i].status # "NONE"
               /\ Ledgered(i) => Ledgered(i)'
    <2>1. /\ invite'[i].status = "REWARDED" /\ invite'[i].amount = a
          /\ sent'[i] = sent[i] /\ ledger'[i] = Append(ledger[i], a)
          /\ a \in ToSet(sent[i]) /\ invite[i].status = "QUALIFIED"
      BY <1>1, <1>5 DEF Rewarded
    <2>2. ASSUME Ledgered(i)
          PROVE  ledger'[i] = <<a>> /\ ToSet(ledger'[i]) = {a} /\ Len(ledger'[i]) = 1
      <3>1. ToSet(ledger[i]) = {}
        BY <2>1, <2>2 DEF Ledgered
      <3>2. ledger[i] = << >> /\ Len(ledger[i]) = 0
        BY <1>0, <3>1, Elements
      <3>3. /\ ToSet(Append(ledger[i], a)) = ToSet(ledger[i]) \cup {a}
            /\ Len(Append(ledger[i], a)) = Len(ledger[i]) + 1
        BY <1>0, Elements
      <3>4. ledger'[i] = <<a>>
        BY <2>1, <3>2
      <3> QED
        BY <2>1, <3>1, <3>2, <3>3, <3>4
    <2>4. Ledgered(i) => Ledgered(i)'
      BY <2>1, <2>2 DEF Ledgered
    <2> QED
      BY <2>1, <2>4 DEF Qualified
  <1>6. ASSUME NEW a \in Amounts, Paid(i, a)
        PROVE  /\ Qualified(i) => Qualified(i)'
               /\ ToSet(sent[i]) \subseteq ToSet(sent[i])'
               /\ invite[i].status # "NONE" => invite'[i].status # "NONE"
               /\ Ledgered(i) => Ledgered(i)'
    <2>1. ToSet(Append(sent[i], a)) = ToSet(sent[i]) \cup {a}
      BY <1>0, Elements
    <2>2. /\ invite'[i] = invite[i] /\ ledger'[i] = ledger[i] /\ Qualified(i)
          /\ sent'[i] = Append(sent[i], a)
      BY <1>6 DEF Paid
    <2> QED
      BY <2>1, <2>2 DEF Ledgered, Qualified
  <1> QED
    BY <1>2, <1>3, <1>4, <1>5, <1>6 DEF InviteStep

--------------------------------------------------------------------------------
(* The requests                                                            *)

RequestsOK ==
  /\ owner \in [Codes -> Players \cup {NoPlayer}]
  /\ referredBy \in [Players -> Players \cup {NoPlayer}]
  /\ request \in [Requests -> Request]
  /\ \A r \in Requests : RequestOK(request[r])

\* The owner of a code stays.
OwnersKept == \A c \in Codes : owner[c] # NoPlayer => owner'[c] = owner[c]

(* A request that found a code still does.                                 *)
LEMMA RequestKept ==
  ASSUME RequestsOK, NEW r \in Requests, OwnersKept, request'[r] = request[r]
  PROVE  RequestOK(request[r])'
  BY DEF RequestOK, RequestsOK, OwnersKept

(* One request changes.                                                    *)
LEMMA RequestChanges ==
  ASSUME RequestsOK, NEW r \in Requests, NEW e \in Request, request' = [request EXCEPT ![r] = e],
         OwnersKept, RequestOK(e)', owner' \in [Codes -> Players \cup {NoPlayer}],
         referredBy' \in [Players -> Players \cup {NoPlayer}]
  PROVE  RequestsOK'
  <1>1. /\ request' \in [Requests -> Request] /\ request'[r] = e
        /\ \A q \in Requests \ {r} : request'[q] = request[q]
    BY OneChanges DEF RequestsOK
  <1>2. RequestOK(request[r])'
    BY <1>1 DEF RequestOK
  <1>3. \A q \in Requests : RequestOK(request[q])'
    BY <1>1, <1>2, RequestKept
  <1> QED
    BY <1>1, <1>3 DEF RequestsOK

(* What the requests know stays true.                                      *)
LEMMA RequestStepKeeps ==
  ASSUME RequestsOK, NEW r \in Requests, RequestStep(r)
  PROVE  RequestsOK' /\ OwnersKept
  <1>0. /\ owner \in [Codes -> Players \cup {NoPlayer}]
        /\ referredBy \in [Players -> Players \cup {NoPlayer}]
        /\ request \in [Requests -> Request] /\ request[r] \in Request
        /\ RequestOK(request[r])
        /\ NoPlayer \notin Players /\ Inviters \subseteq Players
    BY ConstantsAssumption DEF RequestsOK
  <1>1. NoRequest \in Request /\ RequestOK(NoRequest)'
    BY DEF NoRequest, Request, RequestOK
  <1>2. CASE \E p \in Inviters : AskCode(r, p)
    <2>1. PICK p \in Inviters : AskCode(r, p)
      BY <1>2
    <2> DEFINE e == [NoRequest EXCEPT !.at = "create", !.player = p]
    <2>2. e \in Request /\ RequestOK(e)'
      BY <1>0 DEF NoRequest, Request, RequestOK
    <2>3. request' = [request EXCEPT ![r] = e] /\ UNCHANGED <<owner, referredBy>>
      BY <2>1 DEF AskCode, rows
    <2>4. OwnersKept
      BY <2>3 DEF OwnersKept
    <2> HIDE DEF e
    <2> QED
      BY <1>0, <2>2, <2>3, <2>4, RequestChanges
  <1>3. CASE \E p \in Players, c \in Codes : FindCode(r, p, c)
    <2>1. PICK p \in Players, c \in Codes : FindCode(r, p, c)
      BY <1>3
    <2> DEFINE e == [at |-> "found", player |-> p, code |-> c]
    <2>2. request' = [request EXCEPT ![r] = e] /\ UNCHANGED <<owner, referredBy>>
      BY <2>1 DEF FindCode, rows
    <2>3. e \in Request /\ RequestOK(e)'
      BY <1>0, <2>1, <2>2 DEF FindCode, Request, RequestOK
    <2>4. OwnersKept
      BY <2>2 DEF OwnersKept
    <2> HIDE DEF e
    <2> QED
      BY <1>0, <2>2, <2>3, <2>4, RequestChanges
  <1>4. CASE CreateCode(r)
    <2>1. request' = [request EXCEPT ![r] = NoRequest] /\ UNCHANGED referredBy
      BY <1>4 DEF CreateCode, EndRequest
    <2>2. PICK c \in Codes : owner[c] = NoPlayer /\ owner' = [owner EXCEPT ![c] = request[r].player]
      BY <1>4 DEF CreateCode
    <2>3. request[r].player \in Players
      BY <1>0, <1>4 DEF CreateCode, RequestOK
    <2>4. OwnersKept /\ owner' \in [Codes -> Players \cup {NoPlayer}]
      BY <1>0, <2>2, <2>3 DEF OwnersKept
    <2> QED
      BY <1>0, <1>1, <2>1, <2>4, RequestChanges
  <1>5. CASE CheckUnbound(r)
    <2>0. PICK e : e = [request[r] EXCEPT !.at = "unbound"]
      OBVIOUS
    <2>1. UNCHANGED <<owner, referredBy>> /\ OwnersKept
      BY <1>5 DEF CheckUnbound, rows, OwnersKept
    <2>2. /\ request[r].player \in Players /\ request[r].code \in Codes
          /\ owner[request[r].code] \notin {NoPlayer, request[r].player}
      BY <1>0, <1>5 DEF CheckUnbound, RequestOK
    <2>4. e \in Request /\ e.player = request[r].player /\ e.code = request[r].code
      BY <1>0, <2>2, <2>0 DEF Request
    <2>5. RequestOK(e)'
      BY <2>1, <2>2, <2>4 DEF RequestOK
    <2>6. CASE request' = [request EXCEPT ![r] = e]
      BY <1>0, <2>1, <2>4, <2>5, <2>6, RequestChanges
    <2>7. CASE request' = [request EXCEPT ![r] = NoRequest]
      BY <1>0, <1>1, <2>1, <2>7, RequestChanges
    <2> QED
      BY <1>5, <2>0, <2>6, <2>7 DEF CheckUnbound, EndRequest
  <1>6. CASE Bind(r)
    <2>1. request' = [request EXCEPT ![r] = NoRequest] /\ UNCHANGED owner /\ OwnersKept
      BY <1>6 DEF Bind, EndRequest, OwnersKept
    <2>2. referredBy' \in [Players -> Players \cup {NoPlayer}]
      <3>1. owner[request[r].code] \in Players \cup {NoPlayer}
        BY <1>0, <1>6 DEF Bind, RequestOK
      <3>2. \/ referredBy' = [referredBy EXCEPT ![request[r].player] = owner[request[r].code]]
            \/ referredBy' = referredBy
        BY <1>6 DEF Bind
      <3> QED
        BY <1>0, <3>1, <3>2
    <2> QED
      BY <1>0, <1>1, <2>1, <2>2, RequestChanges
  <1>7. CASE RequestFails(r)
    <2>1. request' = [request EXCEPT ![r] = NoRequest] /\ UNCHANGED <<owner, referredBy>>
          /\ OwnersKept
      BY <1>7 DEF RequestFails, EndRequest, rows, OwnersKept
    <2> QED
      BY <1>0, <1>1, <2>1, RequestChanges
  <1> QED
    BY <1>2, <1>3, <1>4, <1>5, <1>6, <1>7 DEF RequestStep

LEMMA RequestsKept ==
  ASSUME RequestsOK, [Next]_vars
  PROVE  RequestsOK' /\ OwnersKept
  <1>1. CASE \E r \in Requests : RequestStep(r)
    BY <1>1, RequestStepKeeps
  <1>2. CASE UNCHANGED <<owner, referredBy, request>>
    BY <1>2 DEF RequestsOK, RequestOK, OwnersKept
  <1>3. CASE \E k \in Calls : CallStep(k) \/ CallFails(k) \/ \E o \in Orders : ReadOrder(k, o)
    <2>1. UNCHANGED <<owner, referredBy, request>>
      BY <1>3 DEF CallStep, CallFails, ReadOrder, WriteOrder, CommitOrder, AddReward, rows
    <2> QED
      BY <1>2, <2>1
  <1>4. CASE \E w \in Workers : RunStep(w) \/ SendThrows(w) \/ RunThrows(w) \/ RunDies(w)
                                \/ LoseLock(w)
    <2>1. UNCHANGED <<owner, referredBy, request>>
      BY <1>4 DEF RunStep, Take, ReadReward, Disable, Send, Record, SendThrows, RunThrows,
                  RunDies, LoseLock, rows
    <2> QED
      BY <1>2, <2>1
  <1>5. CASE (\E o \in Orders : Refund(o)) \/ SaveReferralReward \/ (\E i \in Invites : Recover(i))
             \/ UNCHANGED vars
    <2>1. UNCHANGED <<owner, referredBy, request>>
      BY <1>5 DEF Refund, SaveReferralReward, SetReward, Recover, rows, vars
    <2> QED
      BY <1>2, <2>1
  <1> QED
    BY <1>1, <1>3, <1>4, <1>5 DEF Next

--------------------------------------------------------------------------------
(* The settlements                                                         *)

CallsOK ==
  /\ status \in [Orders -> {"PENDING", "PAID", "REFUNDED"}]
  /\ call \in [Calls -> Call]
  /\ \A k \in Calls : CallOK(call[k])

QualifiedKept == \A i \in Invites : Qualified(i) => Qualified(i)'

(* An invitation that was qualified still is.                              *)
LEMMA CallKept ==
  ASSUME NEW k \in Calls, CallOK(call[k]), QualifiedKept, call'[k] = call[k]
  PROVE  CallOK(call[k])'
  BY DEF CallOK, QualifiedKept

(* One settlement changes.                                                 *)
LEMMA CallChanges ==
  ASSUME CallsOK, NEW k \in Calls, NEW e \in Call, call' = [call EXCEPT ![k] = e],
         QualifiedKept, CallOK(e)',
         status' \in [Orders -> {"PENDING", "PAID", "REFUNDED"}]
  PROVE  CallsOK'
  <1>1. /\ call' \in [Calls -> Call] /\ call'[k] = e
        /\ \A q \in Calls \ {k} : call'[q] = call[q]
    BY OneChanges DEF CallsOK
  <1>2. CallOK(call[k])'
    BY <1>1 DEF CallOK
  <1>3. \A q \in Calls : CallOK(call[q])'
    BY <1>1, <1>2, CallKept DEF CallsOK
  <1> QED
    BY <1>1, <1>3 DEF CallsOK

(* What the settlements know stays true.                                   *)
LEMMA CallStepKeeps ==
  ASSUME CallsOK, Histories, QualifiedKept, NEW k \in Calls,
         CallStep(k) \/ CallFails(k) \/ \E o \in Orders : ReadOrder(k, o)
  PROVE  CallsOK'
  <1>0. /\ status \in [Orders -> {"PENDING", "PAID", "REFUNDED"}]
        /\ call[k] \in Call /\ CallOK(call[k]) /\ invite \in [Invites -> Row]
        /\ NoOrder \notin Orders /\ NoInvite \notin Invites
    BY ConstantsAssumption, InviteFields DEF CallsOK, Histories
  <1>1. NoCall \in Call /\ CallOK(NoCall)'
    BY DEF NoCall, Call, CallOK
  <1>2. CASE \E o \in Orders : ReadOrder(k, o)
    <2>1. PICK o \in Orders : ReadOrder(k, o)
      BY <1>2
    <2>2. PICK e : e = [NoCall EXCEPT !.at = "read", !.order = o]
      OBVIOUS
    <2>3. e \in Call /\ CallOK(e)'
      BY <1>0, <2>2 DEF NoCall, Call, CallOK
    <2>4. call' = [call EXCEPT ![k] = e] /\ UNCHANGED status
      BY <2>1, <2>2 DEF ReadOrder, rows
    <2> QED
      BY <1>0, <2>3, <2>4, CallChanges
  <1>3. CASE WriteOrder(k)
    <2>1. PICK i \in {NoInvite} \cup PendingInvites(call[k].order) :
               call' = [call EXCEPT ![k].at = "written", ![k].invite = i]
      BY <1>3 DEF WriteOrder
    <2>2. PICK e : e = [call[k] EXCEPT !.at = "written", !.invite = i]
      OBVIOUS
    <2>3. /\ e = [at |-> "written", order |-> call[k].order, invite |-> i]
          /\ i # NoInvite => i \in Invites /\ Invitee(i) = Buyer[call[k].order]
          /\ call[k].order \in Orders
      BY <1>0, <1>3, <2>1, <2>2 DEF Call, PendingInvites, WriteOrder, CallOK
    <2>4. e \in Call /\ CallOK(e)'
      BY <2>3 DEF Call, CallOK
    <2>5. call' = [call EXCEPT ![k] = e] /\ UNCHANGED status
      BY <1>0, <1>3, <2>1, <2>2 DEF WriteOrder, rows, CallsOK
    <2> QED
      BY <1>0, <2>4, <2>5, CallChanges
  <1>4. CASE CommitOrder(k)
    <2>1. status' \in [Orders -> {"PENDING", "PAID", "REFUNDED"}]
      BY <1>0, <1>4 DEF CommitOrder
    <2>2. CASE Qualifies(k)
      <3>1. PICK e : e = [call[k] EXCEPT !.at = "qualified"]
        OBVIOUS
      <3>2. /\ e = [at |-> "qualified", order |-> call[k].order, invite |-> call[k].invite]
            /\ call[k].invite \in Invites /\ Invitee(call[k].invite) = Buyer[call[k].order]
            /\ call[k].order \in Orders
        BY <1>0, <1>4, <2>2, <3>1 DEF Call, CallOK, CommitOrder, Qualifies
      <3>3. invite'[call[k].invite].status = "QUALIFIED"
        BY <1>0, <1>4, <2>2, <3>2 DEF CommitOrder, Row
      <3>4. e \in Call /\ CallOK(e)'
        BY <3>2, <3>3 DEF Call, CallOK, Qualified
      <3>5. call' = [call EXCEPT ![k] = e]
        BY <1>4, <2>2, <3>1 DEF CommitOrder, CallsOK
      <3> QED
        BY <2>1, <3>4, <3>5, CallChanges
    <2>3. CASE ~Qualifies(k)
      BY <1>1, <1>4, <2>1, <2>3, CallChanges DEF CommitOrder, EndCall
    <2> QED
      BY <2>2, <2>3
  <1>5. CASE AddReward(k) \/ CallFails(k)
    <2>1. call' = [call EXCEPT ![k] = NoCall] /\ UNCHANGED status
      BY <1>5 DEF AddReward, CallFails, EndCall, rows
    <2> QED
      BY <1>0, <1>1, <2>1, CallChanges
  <1> QED
    BY <1>2, <1>3, <1>4, <1>5 DEF CallStep

LEMMA CallsKept ==
  ASSUME CallsOK, Histories, QualifiedKept, [Next]_vars
  PROVE  CallsOK'
  <1>0. ASSUME UNCHANGED call, status' \in [Orders -> {"PENDING", "PAID", "REFUNDED"}]
        PROVE  CallsOK'
    BY <1>0, CallKept DEF CallsOK
  <1>1. CASE \E k \in Calls : CallStep(k) \/ CallFails(k) \/ \E o \in Orders : ReadOrder(k, o)
    BY <1>1, CallStepKeeps
  <1>2. CASE \E r \in Requests : RequestStep(r)
    <2>1. UNCHANGED <<call, status>>
      BY <1>2 DEF RequestStep, AskCode, FindCode, CreateCode, CheckUnbound, Bind, RequestFails,
                  rows
    <2> QED
      BY <1>0, <2>1 DEF CallsOK
  <1>3. CASE \E w \in Workers : RunStep(w) \/ SendThrows(w) \/ RunThrows(w) \/ RunDies(w)
                                \/ LoseLock(w)
    <2>1. UNCHANGED <<call, status>>
      BY <1>3 DEF RunStep, Take, ReadReward, Disable, Send, Record, SendThrows, RunThrows,
                  RunDies, LoseLock, rows
    <2> QED
      BY <1>0, <2>1 DEF CallsOK
  <1>4. CASE \E o \in Orders : Refund(o)
    BY <1>0, <1>4 DEF CallsOK, Refund
  <1>5. CASE SaveReferralReward \/ (\E i \in Invites : Recover(i)) \/ UNCHANGED vars
    <2>1. UNCHANGED <<call, status>>
      BY <1>5 DEF SaveReferralReward, SetReward, Recover, rows, vars
    <2> QED
      BY <1>0, <2>1 DEF CallsOK
  <1> QED
    BY <1>1, <1>2, <1>3, <1>4, <1>5 DEF Next

--------------------------------------------------------------------------------
(* The runs                                                                *)

RunsOK ==
  /\ job \in [Invites -> Job] /\ run \in [Workers -> Run]
  /\ \A w \in Workers : RunOK(run[w])
  /\ \A w, v \in Workers : run[w].lock /\ run[v].lock /\ run[w].invite = run[v].invite => w = v

SentKept == \A i \in Invites : ToSet(sent[i]) \subseteq ToSet(sent[i])'

\* The job of a run that holds its lock stays active.
LockKept(w) == run[w].lock => job'[run[w].invite].at = "active"

(* A run that holds a lock has the active job of an invitation.            *)
LEMMA Locked ==
  ASSUME RunsOK, NEW w \in Workers, run[w].lock
  PROVE  run[w].invite \in Invites /\ job[run[w].invite].at = "active" /\ run[w].at # "idle"
  BY DEF RunsOK, RunOK, NoRun

(* Runs whose job stays active go on.                                      *)
LEMMA RunKept ==
  ASSUME NEW w \in Workers, RunOK(run[w]), run'[w] = run[w], QualifiedKept, SentKept, LockKept(w)
  PROVE  RunOK(run[w])'
  BY DEF RunOK, QualifiedKept, SentKept, LockKept

LEMMA RunsStay ==
  ASSUME RunsOK, QualifiedKept, SentKept, UNCHANGED run, job' \in [Invites -> Job],
         \A w \in Workers : LockKept(w)
  PROVE  RunsOK'
  <1>1. \A w \in Workers : RunOK(run[w])'
    BY RunKept DEF RunsOK
  <1> QED
    BY <1>1 DEF RunsOK

(* One run changes.                                                        *)
LEMMA RunChanges ==
  ASSUME RunsOK, QualifiedKept, SentKept, NEW w \in Workers, NEW e \in Run,
         run' = [run EXCEPT ![w] = e], RunOK(e)', job' \in [Invites -> Job],
         \A v \in Workers \ {w} : LockKept(v),
         \A v \in Workers \ {w} : e.lock /\ run[v].lock => run[v].invite # e.invite
  PROVE  RunsOK'
  <1>1. /\ run' \in [Workers -> Run] /\ run'[w] = e
        /\ \A v \in Workers \ {w} : run'[v] = run[v]
    BY OneChanges DEF RunsOK
  <1>2. RunOK(run[w])'
    BY <1>1 DEF RunOK
  <1>3. \A v \in Workers : RunOK(run[v])'
    BY <1>1, <1>2, RunKept DEF RunsOK
  <1>4. \A u, v \in Workers : run'[u].lock /\ run'[v].lock /\ run'[u].invite = run'[v].invite
                                => u = v
    BY <1>1 DEF RunsOK
  <1> QED
    BY <1>1, <1>3, <1>4 DEF RunsOK

(* A run with nothing more to lose: it ends, with its job if it still has  *)
(* the lock.                                                               *)
LEMMA RunEnds ==
  ASSUME RunsOK, QualifiedKept, SentKept, NEW w \in Workers, EndRun(w)
  PROVE  RunsOK'
  <1>1. NoRun \in Run /\ RunOK(NoRun)' /\ ~NoRun.lock
    BY DEF NoRun, Run, RunOK
  <1>2. run' = [run EXCEPT ![w] = NoRun]
    BY DEF EndRun
  <1>3. CASE run[w].lock
    <2> DEFINE i == run[w].invite
    <2>1. i \in Invites /\ job[i].at = "active"
      BY <1>3, Locked
    <2>2. job' = [job EXCEPT ![i].at = "done"]
      BY <1>3 DEF EndRun
    <2>3. \A v \in Workers \ {w} : run[v].lock => run[v].invite \in Invites \ {i}
                                                    /\ job[run[v].invite].at = "active"
      BY <1>3, Locked DEF RunsOK
    <2>4. /\ job' \in [Invites -> Job]
          /\ \A j \in Invites \ {i} : job'[j] = job[j]
      BY <2>1, <2>2 DEF RunsOK, Job
    <2>5. \A v \in Workers \ {w} : LockKept(v)
      BY <2>3, <2>4 DEF LockKept
    <2> QED
      BY <1>1, <1>2, <2>4, <2>5, RunChanges
  <1>4. CASE ~run[w].lock
    <2>1. job' = job
      BY <1>4 DEF EndRun
    <2>2. job' \in [Invites -> Job] /\ \A v \in Workers : LockKept(v)
      BY <2>1, Locked DEF RunsOK, LockKept
    <2> QED
      BY <1>1, <1>2, <2>2, RunChanges
  <1> QED
    BY <1>3, <1>4

(* What the runs know stays true.                                          *)
LEMMA RunStepKeeps ==
  ASSUME RunsOK, Histories, QualifiedKept, SentKept, reward \in Amounts, NEW w \in Workers,
         RunStep(w) \/ SendThrows(w) \/ RunThrows(w) \/ RunDies(w) \/ LoseLock(w)
  PROVE  RunsOK'
  <1>0. /\ job \in [Invites -> Job] /\ run \in [Workers -> Run] /\ run[w] \in Run /\ RunOK(run[w])
        /\ \A v \in Workers \ {w} : run[w].lock /\ run[v].lock => run[v].invite # run[w].invite
    BY DEF RunsOK, Run
  <1>1. CASE \E i \in Invites : Take(w, i)
    <2>1. PICK i \in Invites : Take(w, i)
      BY <1>1
    <2>2. PICK at \in {"active", "done"} : job' = [job EXCEPT ![i].at = at]
      BY <2>1 DEF Take
    <2>3. /\ job' \in [Invites -> Job] /\ job'[i].at = at
          /\ \A j \in Invites \ {i} : job'[j] = job[j]
      BY <1>0, <2>2 DEF Job
    <2>4. \A v \in Workers : run[v].lock => run[v].invite # i
      BY <2>1, Locked DEF Take
    <2>5. \A v \in Workers : LockKept(v)
      BY <2>3, <2>4, Locked DEF LockKept
    <2>6. CASE Rewardable(i)
      <3>1. PICK e : e = [at |-> "read", invite |-> i, amount |-> 0, lock |-> TRUE]
        OBVIOUS
      <3>2. run' = [run EXCEPT ![w] = e] /\ job'[i].at = "active" /\ UNCHANGED invite
        BY <1>0, <2>1, <2>6, <3>1 DEF Take, rows, Job
      <3>3. e \in Run /\ e.invite = i
        BY <3>1 DEF Run
      <3>4. RunOK(e)'
        BY <2>6, <3>1, <3>2 DEF RunOK, Rewardable, Qualified
      <3> QED
        BY <2>3, <2>4, <2>5, <3>2, <3>3, <3>4, RunChanges
    <2>7. CASE ~Rewardable(i)
      <3>1. UNCHANGED run
        BY <2>1, <2>7 DEF Take
      <3> QED
        BY <2>3, <2>5, <3>1, RunsStay
    <2> QED
      BY <2>6, <2>7
  <1>2. CASE ReadReward(w) \/ Send(w) \/ RunDies(w) \/ LoseLock(w)
    <2>0. UNCHANGED job /\ job' \in [Invites -> Job] /\ \A v \in Workers : LockKept(v)
      BY <1>0, <1>2, Locked DEF LockKept, ReadReward, Send, RunDies, LoseLock
    <2>1. ASSUME NEW e \in Run, RunOK(e)', run' = [run EXCEPT ![w] = e],
                 e.lock => run[w].lock /\ e.invite = run[w].invite
          PROVE  RunsOK'
      <3>1. \A v \in Workers \ {w} : e.lock /\ run[v].lock => run[v].invite # e.invite
        BY <1>0, <2>1
      <3> QED
        BY <2>0, <2>1, <3>1, RunChanges
    <2>2. CASE ReadReward(w)
      <3>0. PICK i : i = run[w].invite
        OBVIOUS
      <3>1. PICK at \in {"disable", "send"}, a \in Amounts :
                 run' = [run EXCEPT ![w].at = at, ![w].amount = a]
        BY <2>2 DEF ReadReward
      <3>2. PICK e : e = [run[w] EXCEPT !.at = at, !.amount = a]
        OBVIOUS
      <3>3. run' = [run EXCEPT ![w] = e]
        BY <1>0, <3>0, <3>1, <3>2
      <3>4. e \in Run /\ e.at = at /\ e.amount = a /\ e.invite = i
            /\ e.lock = run[w].lock
        BY <1>0, <3>0, <3>2 DEF Run
      <3>5. i \in Invites /\ Qualified(i)'
            /\ (run[w].lock => job[i].at = "active")
        BY <1>0, <3>0, <2>2 DEF RunOK, ReadReward, QualifiedKept
      <3>6. RunOK(e)'
        BY <2>0, <3>4, <3>5 DEF RunOK
      <3> QED
        BY <2>1, <3>0, <3>3, <3>4, <3>6
    <2>3. CASE Send(w)
      <3>0. PICK i : i = run[w].invite
        OBVIOUS
      <3>1. PICK e : e = [run[w] EXCEPT !.at = "record"]
        OBVIOUS
      <3>2. run' = [run EXCEPT ![w] = e]
        BY <2>3, <3>1 DEF Send
      <3>3. e \in Run /\ e.at = "record" /\ e.amount = run[w].amount
            /\ e.invite = i /\ e.lock = run[w].lock
        BY <1>0, <3>0, <3>1 DEF Run
      <3>4. i \in Invites /\ Qualified(i)' /\ run[w].amount \in Amounts
            /\ (run[w].lock => job[i].at = "active")
        BY <1>0, <3>0, <2>3 DEF RunOK, Send, QualifiedKept
      <3>5. run[w].amount \in ToSet(sent'[i])
        <4>1. sent'[i] = Append(sent[i], run[w].amount)
          BY <2>3, <3>0, <3>4 DEF Send, SendPayment, Histories
        <4>2. ToSet(Append(sent[i], run[w].amount))
                = ToSet(sent[i]) \cup {run[w].amount}
          BY <3>4, Elements DEF Histories
        <4> QED
          BY <4>1, <4>2
      <3>6. RunOK(e)'
        BY <2>0, <3>3, <3>4, <3>5 DEF RunOK
      <3> QED
        BY <2>1, <3>0, <3>2, <3>3, <3>6
    <2>4. CASE RunDies(w)
      <3>1. NoRun \in Run /\ RunOK(NoRun)' /\ ~NoRun.lock
        BY DEF NoRun, Run, RunOK
      <3>2. run' = [run EXCEPT ![w] = NoRun]
        BY <2>4 DEF RunDies
      <3> QED
        BY <2>1, <3>1, <3>2
    <2>5. CASE LoseLock(w)
      <3>0. PICK i : i = run[w].invite
        OBVIOUS
      <3>1. PICK e : e = [run[w] EXCEPT !.lock = FALSE]
        OBVIOUS
      <3>2. run' = [run EXCEPT ![w] = e]
        BY <2>5, <3>1 DEF LoseLock
      <3>3. e \in Run /\ ~e.lock /\ e.at = run[w].at /\ e.amount = run[w].amount
            /\ e.invite = i
        BY <1>0, <3>0, <3>1 DEF Run
      <3>4. /\ run[w].at # "idle"
            /\ i \in Invites /\ Qualified(i)'
            /\ UNCHANGED sent
        BY <1>0, <3>0, <2>5, Locked DEF LoseLock, RunOK, QualifiedKept
      <3>5. RunOK(e)'
        BY <1>0, <3>0, <3>3, <3>4 DEF RunOK
      <3> QED
        BY <2>1, <3>0, <3>2, <3>3, <3>5
    <2> QED
      BY <1>2, <2>2, <2>3, <2>4, <2>5
  <1>3. CASE Disable(w) \/ Record(w) \/ SendThrows(w) \/ RunThrows(w)
    BY <1>3, RunEnds DEF Disable, Record, SendThrows, RunThrows
  <1> QED
    BY <1>1, <1>2, <1>3 DEF RunStep

LEMMA RunsKept ==
  ASSUME RunsOK, Histories, QualifiedKept, SentKept, reward \in Amounts, [Next]_vars
  PROVE  RunsOK'
  <1>0. job \in [Invites -> Job]
    BY DEF RunsOK
  <1>1. CASE \E w \in Workers : RunStep(w) \/ SendThrows(w) \/ RunThrows(w) \/ RunDies(w)
                                \/ LoseLock(w)
    BY <1>1, RunStepKeeps
  <1>2. CASE UNCHANGED <<job, run>>
    <2>1. \A w \in Workers : LockKept(w)
      BY <1>2, Locked DEF LockKept
    <2> QED
      BY <1>0, <1>2, <2>1, RunsStay
  <1>3. CASE \E k \in Calls : AddReward(k)
    <2>1. PICK k \in Calls : AddReward(k)
      BY <1>3
    <2>2. job' = [job EXCEPT ![call[k].invite].at = IF @ = "none" THEN "waiting" ELSE @]
          /\ UNCHANGED run
      BY <2>1 DEF AddReward
    <2>3. /\ job' \in [Invites -> Job]
          /\ \A i \in Invites : job[i].at = "active" => job'[i].at = "active"
      BY <1>0, <2>2 DEF Job
    <2>4. \A w \in Workers : LockKept(w)
      BY <2>3, Locked DEF LockKept
    <2> QED
      BY <2>2, <2>3, <2>4, RunsStay
  <1>4. CASE \E i \in Invites : Recover(i)
    <2>1. PICK i \in Invites : Recover(i)
      BY <1>4
    <2>2. job[i] \in Job /\ Stalled(job[i]) \in Job
      BY <1>0, ConstantsAssumption DEF Job, Stalled
    <2>3. job' = [job EXCEPT ![i] = Stalled(job[i])] /\ UNCHANGED run
      BY <2>1 DEF Recover
    <2>4. /\ job' \in [Invites -> Job]
          /\ \A j \in Invites \ {i} : job'[j] = job[j]
      BY <1>0, <2>2, <2>3, OneChanges
    <2>5. \A w \in Workers : LockKept(w)
      BY <2>1, <2>4, Locked DEF LockKept, Recover
    <2> QED
      BY <2>3, <2>4, <2>5, RunsStay
  <1>5. CASE \E r \in Requests : RequestStep(r)
    <2>1. UNCHANGED <<job, run>>
      BY <1>5 DEF RequestStep, AskCode, FindCode, CreateCode, CheckUnbound, Bind, RequestFails
    <2> QED
      BY <1>2, <2>1
  <1>6. CASE \E k \in Calls : WriteOrder(k) \/ CommitOrder(k) \/ CallFails(k)
                              \/ \E o \in Orders : ReadOrder(k, o)
    <2>1. UNCHANGED <<job, run>>
      BY <1>6 DEF WriteOrder, CommitOrder, CallFails, ReadOrder
    <2> QED
      BY <1>2, <2>1
  <1>7. CASE (\E o \in Orders : Refund(o)) \/ SaveReferralReward \/ UNCHANGED vars
    <2>1. UNCHANGED <<job, run>>
      BY <1>7 DEF Refund, SaveReferralReward, SetReward, vars
    <2> QED
      BY <1>2, <2>1
  <1> QED
    BY <1>1, <1>3, <1>4, <1>5, <1>6, <1>7 DEF Next, CallStep

--------------------------------------------------------------------------------
(* The jobs and the payments                                               *)

(* A job is handed out once more when it is taken; nothing undoes it.      *)
LEMMA HandOuts ==
  ASSUME NEW j \in Job
  PROVE  /\ HandedOut(j) \in Nat /\ HandedOut(j) <= 1 + MaxStalls
         /\ j.at = "waiting" => \A at \in {"active", "done"} :
                                  HandedOut([j EXCEPT !.at = at]) = HandedOut(j) + 1
         /\ j.at = "active" => /\ HandedOut([j EXCEPT !.at = "done"]) = HandedOut(j)
                               /\ HandedOut(Stalled(j)) = HandedOut(j)
                               /\ Stalled(j).at # "none"
         /\ j.at = "none" => HandedOut([j EXCEPT !.at = "waiting"]) = HandedOut(j)
  <1>1. /\ j.at \in {"none", "waiting", "active", "done"} /\ j.stalls \in 0..MaxStalls
        /\ MaxStalls \in Nat
    BY ConstantsAssumption DEF Job
  <1>2. \A at \in STRING : [j EXCEPT !.at = at].at = at /\ [j EXCEPT !.at = at].stalls = j.stalls
    BY DEF Job
  <1> QED
    BY <1>1, <1>2 DEF HandedOut, Stalled

(* What a step does to the payments of an invitation and to its job: no    *)
(* run is added to those that may pay, one of them pays, or the job is     *)
(* handed out to one more.                                                 *)
NoMorePaid(i) ==
  /\ sent'[i] = sent[i] /\ Paying(i)' \subseteq Paying(i)
  /\ HandedOut(job'[i]) = HandedOut(job[i])

PaidBy(w, i) ==
  /\ \E a \in Amounts : sent'[i] = Append(sent[i], a)
  /\ w \in Paying(i) /\ Paying(i)' \subseteq Paying(i) \ {w}
  /\ HandedOut(job'[i]) = HandedOut(job[i])

TakenBy(w, i) ==
  /\ sent'[i] = sent[i] /\ Paying(i)' \subseteq Paying(i) \cup {w}
  /\ HandedOut(job'[i]) = HandedOut(job[i]) + 1

JobStep(i) ==
  /\ NoMorePaid(i) \/ \E w \in Workers : PaidBy(w, i) \/ TakenBy(w, i)
  /\ job'[i].at = "none" => job'[i] = job[i]
  /\ job[i].at = "none" /\ job'[i].at # "none" => Qualified(i)'

\* The part of JobsOK for an invitation.
JobOK(i) ==
  /\ job[i].at = "none" => job[i].stalls = 0
  /\ job[i].at # "none" => Qualified(i)
  /\ Len(sent[i]) + Cardinality(Paying(i)) <= HandedOut(job[i])

(* Sums and cardinalities.                                                 *)
LEMMA Sums ==
  ASSUME NEW l \in Nat, NEW c \in Nat, NEW h \in Nat, NEW d \in Nat, l + c <= h
  PROVE  /\ d <= c => l + d <= h
         /\ d <= c - 1 => l + 1 + d <= h
         /\ d <= c + 1 => l + d <= h + 1
  OBVIOUS

(* The runs of an invitation that may pay are finitely many.               *)
LEMMA PayingFinite ==
  ASSUME NEW i
  PROVE  /\ IsFiniteSet(Paying(i)) /\ Cardinality(Paying(i)) \in Nat
         /\ \A S : S \subseteq Paying(i) =>
              Cardinality(S) <= Cardinality(Paying(i)) /\ Cardinality(S) \in Nat
         /\ \A w : w \in Paying(i) =>
              IsFiniteSet(Paying(i) \ {w})
                /\ Cardinality(Paying(i) \ {w}) = Cardinality(Paying(i)) - 1
         /\ \A w : IsFiniteSet(Paying(i) \cup {w})
                     /\ Cardinality(Paying(i) \cup {w}) <= Cardinality(Paying(i)) + 1
                     /\ Cardinality(Paying(i) \cup {w}) \in Nat
  <1>1. Paying(i) \subseteq Workers /\ IsFiniteSet(Workers)
    BY ConstantsAssumption DEF Paying
  <1>2. IsFiniteSet(Paying(i))
    BY <1>1, FS_Subset
  <1>3. Cardinality(Paying(i)) \in Nat
    BY <1>2, FS_CardinalityType
  <1>4. \A S : S \subseteq Paying(i) =>
              Cardinality(S) <= Cardinality(Paying(i)) /\ Cardinality(S) \in Nat
    BY <1>2, FS_Subset, FS_CardinalityType
  <1>5. \A w : w \in Paying(i) =>
              IsFiniteSet(Paying(i) \ {w})
                /\ Cardinality(Paying(i) \ {w}) = Cardinality(Paying(i)) - 1
    BY <1>2, FS_RemoveElement
  <1>6. \A w : IsFiniteSet(Paying(i) \cup {w})
                     /\ Cardinality(Paying(i) \cup {w}) \in
                          {Cardinality(Paying(i)), Cardinality(Paying(i)) + 1}
    BY <1>2, FS_AddElement
  <1>7. ASSUME NEW w
        PROVE  /\ Cardinality(Paying(i) \cup {w}) <= Cardinality(Paying(i)) + 1
               /\ Cardinality(Paying(i) \cup {w}) \in Nat
    <2>1. \/ Cardinality(Paying(i) \cup {w}) = Cardinality(Paying(i))
          \/ Cardinality(Paying(i) \cup {w}) = Cardinality(Paying(i)) + 1
      BY <1>6
    <2> QED
      BY <1>3, <2>1
  <1> QED
    BY <1>2, <1>3, <1>4, <1>5, <1>6, <1>7, Zenon

(* The network pays an invitation no oftener than its job is handed out.   *)
LEMMA JobKept ==
  ASSUME NEW i \in Invites, JobOK(i), JobStep(i), Histories, job[i] \in Job,
         Qualified(i) => Qualified(i)'
  PROVE  JobOK(i)'
  <1>0. /\ Len(sent[i]) \in Nat /\ HandedOut(job[i]) \in Nat /\ Cardinality(Paying(i)) \in Nat
        /\ \A a \in Amounts : Len(Append(sent[i], a)) = Len(sent[i]) + 1
    BY Elements, HandOuts, PayingFinite DEF Histories
  <1>1. /\ job'[i].at = "none" => job'[i].stalls = 0
        /\ job'[i].at # "none" => Qualified(i)'
    BY DEF JobOK, JobStep
  <1>2. Len(sent'[i]) + Cardinality(Paying(i)') <= HandedOut(job'[i])
    <2>1. CASE NoMorePaid(i)
      <3>1. Cardinality(Paying(i)') <= Cardinality(Paying(i)) /\ Cardinality(Paying(i)') \in Nat
        BY <2>1, PayingFinite DEF NoMorePaid
      <3> QED
        BY <1>0, <2>1, <3>1, Sums DEF NoMorePaid, JobOK
    <2>2. ASSUME NEW w \in Workers, PaidBy(w, i)
          PROVE  Len(sent'[i]) + Cardinality(Paying(i)') <= HandedOut(job'[i])
      <3>1. /\ Cardinality(Paying(i) \ {w}) = Cardinality(Paying(i)) - 1
            /\ IsFiniteSet(Paying(i) \ {w})
        BY <2>2, PayingFinite DEF PaidBy
      <3>2. Cardinality(Paying(i)') <= Cardinality(Paying(i) \ {w})
        BY <2>2, <3>1, FS_Subset DEF PaidBy
      <3>3. Cardinality(Paying(i)') \in Nat
        BY <2>2, PayingFinite DEF PaidBy
      <3>4. Len(sent'[i]) = Len(sent[i]) + 1 /\ HandedOut(job'[i]) = HandedOut(job[i])
        BY <1>0, <2>2 DEF PaidBy
      <3> QED
        BY <1>0, <3>1, <3>2, <3>3, <3>4, Sums DEF JobOK
    <2>3. ASSUME NEW w \in Workers, TakenBy(w, i)
          PROVE  Len(sent'[i]) + Cardinality(Paying(i)') <= HandedOut(job'[i])
      <3>1. /\ Cardinality(Paying(i) \cup {w}) <= Cardinality(Paying(i)) + 1
            /\ Cardinality(Paying(i) \cup {w}) \in Nat
            /\ IsFiniteSet(Paying(i) \cup {w})
        BY PayingFinite
      <3>2. Cardinality(Paying(i)') <= Cardinality(Paying(i) \cup {w})
            /\ Cardinality(Paying(i)') \in Nat
        BY <2>3, <3>1, FS_Subset, FS_CardinalityType DEF TakenBy
      <3>3. sent'[i] = sent[i] /\ HandedOut(job'[i]) = HandedOut(job[i]) + 1
        BY <2>3 DEF TakenBy
      <3> QED
        BY <1>0, <3>1, <3>2, <3>3, Sums DEF JobOK
    <2> QED
      BY <2>1, <2>2, <2>3 DEF JobStep
  <1> QED
    BY <1>1, <1>2 DEF JobOK

(* One run changes.                                                        *)
LEMMA PayingChanges ==
  ASSUME run \in [Workers -> Run], NEW w \in Workers, NEW e, run' = [run EXCEPT ![w] = e]
  PROVE  \A i : /\ Paying(i)' \subseteq Paying(i) \cup {w}
                /\ ~(e.invite = i /\ e.at \in {"read", "send"}) => Paying(i)' \subseteq Paying(i) \ {w}
                /\ (e.invite = i /\ e.at \in {"read", "send"} => w \in Paying(i))
                     => Paying(i)' \subseteq Paying(i)
  BY DEF Paying

\* A job that is neither added nor handed out.
JobStays(i) ==
  /\ HandedOut(job'[i]) = HandedOut(job[i])
  /\ job'[i].at = "none" => job'[i] = job[i]
  /\ job[i].at = "none" => job'[i].at = "none"

LEMMA JobsStay ==
  ASSUME UNCHANGED job
  PROVE  \A i \in Invites : JobStays(i)
  BY DEF JobStays

(* Nothing is paid and no run is added to those that may pay.              *)
LEMMA NothingPaid ==
  ASSUME NEW i \in Invites, JobStays(i), UNCHANGED sent, Paying(i)' \subseteq Paying(i)
  PROVE  JobStep(i)
  BY DEF JobStep, JobStays, NoMorePaid

(* A run that ends does not pay, its job at most is done.                  *)
LEMMA EndRunJob ==
  ASSUME RunsOK, NEW w \in Workers, EndRun(w)
  PROVE  \A i \in Invites : Paying(i)' \subseteq Paying(i) \ {w} /\ JobStays(i)
  <1>1. \A i \in Invites : Paying(i)' \subseteq Paying(i) \ {w}
    <2>1. NoRun.at = "idle"
      BY DEF NoRun
    <2>2. run' = [run EXCEPT ![w] = NoRun] /\ run \in [Workers -> Run]
      BY DEF EndRun, RunsOK
    <2> QED
      BY <2>1, <2>2, PayingChanges
  <1>2. CASE run[w].lock
    <2>1. run[w].invite \in Invites /\ job[run[w].invite].at = "active"
          /\ job[run[w].invite] \in Job /\ job \in [Invites -> Job]
      BY <1>2, Locked DEF RunsOK
    <2>2. job' = [job EXCEPT ![run[w].invite] = [job[run[w].invite] EXCEPT !.at = "done"]]
      BY <1>2 DEF EndRun
    <2>3. /\ job'[run[w].invite] = [job[run[w].invite] EXCEPT !.at = "done"]
          /\ \A i \in Invites \ {run[w].invite} : job'[i] = job[i]
      BY <2>1, <2>2
    <2>4. job'[run[w].invite].at = "done"
      BY <2>1, <2>3 DEF Job
    <2>5. HandedOut(job'[run[w].invite]) = HandedOut(job[run[w].invite])
      BY <2>1, <2>3, HandOuts
    <2> QED
      BY <1>1, <2>1, <2>3, <2>4, <2>5 DEF JobStays
  <1>3. CASE ~run[w].lock
    BY <1>1, <1>3, JobsStay DEF EndRun
  <1> QED
    BY <1>2, <1>3

(* The step of a run.                                                      *)
LEMMA RunJob ==
  ASSUME RunsOK, Histories, NEW w \in Workers,
         RunStep(w) \/ SendThrows(w) \/ RunThrows(w) \/ RunDies(w) \/ LoseLock(w)
  PROVE  \A i \in Invites : JobStep(i)
  <1>0. /\ run \in [Workers -> Run] /\ run[w] \in Run /\ RunOK(run[w]) /\ job \in [Invites -> Job]
    BY DEF RunsOK
  <1>1. CASE \E i \in Invites : Take(w, i)
    <2>1. PICK i \in Invites : Take(w, i)
      BY <1>1
    <2>2. PICK at \in {"active", "done"} : job' = [job EXCEPT ![i] = [job[i] EXCEPT !.at = at]]
      BY <2>1 DEF Take
    <2>3. job[i] \in Job /\ job[i].at = "waiting" /\ UNCHANGED sent
      BY <1>0, <2>1 DEF Take
    <2>4. /\ job'[i] = [job[i] EXCEPT !.at = at] /\ job'[i].at = at
          /\ \A j \in Invites \ {i} : job'[j] = job[j]
      BY <1>0, <2>2, <2>3 DEF Job
    <2>5. HandedOut(job'[i]) = HandedOut(job[i]) + 1
      BY <2>3, <2>4, HandOuts
    <2>6. Paying(i)' \subseteq Paying(i) \cup {w}
          /\ \A j \in Invites \ {i} : Paying(j)' \subseteq Paying(j)
      <3>1. CASE Rewardable(i)
        <4>1. PICK e : e = [at |-> "read", invite |-> i, amount |-> 0, lock |-> TRUE]
          OBVIOUS
        <4>2. run' = [run EXCEPT ![w] = e] /\ e.invite = i
          BY <2>1, <3>1, <4>1 DEF Take
        <4> QED
          BY <1>0, <4>2, PayingChanges
      <3>2. CASE ~Rewardable(i)
        BY <2>1, <3>2 DEF Take, Paying
      <3> QED
        BY <3>1, <3>2
    <2>7. TakenBy(w, i)
      BY <2>3, <2>5, <2>6 DEF TakenBy
    <2>8. JobStep(i)
      BY <2>3, <2>4, <2>7 DEF JobStep
    <2>9. \A j \in Invites \ {i} : JobStep(j)
      BY <2>3, <2>4, <2>6, NothingPaid DEF JobStays
    <2> QED
      BY <2>8, <2>9
  <1>2. CASE Disable(w) \/ Record(w) \/ RunThrows(w)
    <2>1. EndRun(w) /\ UNCHANGED sent
      BY <1>2 DEF Disable, Record, RunThrows
    <2> QED
      BY <2>1, EndRunJob, NothingPaid
  <1>3. CASE ReadReward(w) \/ RunDies(w) \/ LoseLock(w)
    <2>1. UNCHANGED <<sent, job>>
      BY <1>3 DEF ReadReward, RunDies, LoseLock
    <2>2. \A i \in Invites : Paying(i)' \subseteq Paying(i)
      <3>1. CASE ReadReward(w)
        <4>1. \A v \in Workers : run'[v].invite = run[v].invite /\ (v # w => run'[v].at = run[v].at)
          BY <1>0, <3>1 DEF ReadReward, Run
        <4> QED
          BY <3>1, <4>1 DEF Paying, ReadReward
      <3>2. CASE RunDies(w)
        <4>1. run' = [run EXCEPT ![w] = NoRun] /\ NoRun.at = "idle"
          BY <3>2 DEF RunDies, NoRun
        <4> QED
          BY <1>0, <4>1, PayingChanges
      <3>3. CASE LoseLock(w)
        <4>1. \A v \in Workers : run'[v].invite = run[v].invite /\ run'[v].at = run[v].at
          BY <1>0, <3>3 DEF LoseLock, Run
        <4> QED
          BY <4>1 DEF Paying
      <3> QED
        BY <1>3, <3>1, <3>2, <3>3
    <2> QED
      BY <2>1, <2>2, JobsStay, NothingPaid
  <1>4. CASE Send(w) \/ SendThrows(w)
    <2>1. PICK i : i = run[w].invite
      OBVIOUS
    <2>2. /\ i \in Invites /\ w \in Paying(i) /\ SendPayment(i, run[w].amount)
          /\ run[w].amount \in Amounts
      BY <1>0, <1>4, <2>1 DEF RunOK, Send, SendThrows, Paying
    <2>3. /\ sent'[i] = Append(sent[i], run[w].amount)
          /\ \A j \in Invites \ {i} : sent'[j] = sent[j]
      BY <2>2 DEF SendPayment, Histories
    <2>4. \A j \in Invites : JobStays(j) /\ Paying(j)' \subseteq Paying(j) \ {w}
      <3>1. CASE SendThrows(w)
        BY <3>1, EndRunJob DEF SendThrows
      <3>2. CASE Send(w)
        <4>1. PICK e : e = [run[w] EXCEPT !.at = "record"]
          OBVIOUS
        <4>2. run' = [run EXCEPT ![w] = e] /\ e.at = "record" /\ UNCHANGED job
          BY <1>0, <3>2, <4>1 DEF Send, Run
        <4> QED
          BY <1>0, <4>2, PayingChanges, JobsStay
      <3> QED
        BY <1>4, <3>1, <3>2
    <2>5. PaidBy(w, i)
      BY <2>2, <2>3, <2>4 DEF PaidBy, JobStays
    <2>6. JobStep(i)
      BY <2>2, <2>4, <2>5 DEF JobStep, JobStays
    <2>7. \A j \in Invites \ {i} : NoMorePaid(j)
      BY <2>3, <2>4 DEF NoMorePaid, JobStays
    <2>8. \A j \in Invites \ {i} : JobStep(j)
      BY <2>4, <2>7 DEF JobStep, JobStays
    <2> QED
      BY <2>6, <2>8
  <1> QED
    BY <1>1, <1>2, <1>3, <1>4 DEF RunStep

(* Every step.                                                             *)
LEMMA JobSteps ==
  ASSUME RunsOK, Histories, CallsOK, QualifiedKept, [Next]_vars
  PROVE  \A i \in Invites : JobStep(i)
  <1>0. job \in [Invites -> Job]
    BY DEF RunsOK
  <1>1. CASE \E w \in Workers : RunStep(w) \/ SendThrows(w) \/ RunThrows(w) \/ RunDies(w)
                                \/ LoseLock(w)
    BY <1>1, RunJob
  <1>2. CASE UNCHANGED <<sent, job, run>>
    <2>1. \A i \in Invites : Paying(i)' \subseteq Paying(i)
      BY <1>2 DEF Paying
    <2> QED
      BY <1>2, <2>1, JobsStay, NothingPaid
  <1>3. CASE \E k \in Calls : AddReward(k)
    <2>1. PICK k \in Calls : AddReward(k)
      BY <1>3
    <2>2. PICK i : i = call[k].invite
      OBVIOUS
    <2>3. i \in Invites /\ Qualified(i)' /\ UNCHANGED <<sent, run>> /\ job[i] \in Job
      BY <1>0, <2>1, <2>2 DEF CallsOK, CallOK, AddReward, QualifiedKept
    <2>4. PICK at : /\ job' = [job EXCEPT ![i] = [job[i] EXCEPT !.at = at]]
                    /\ at = IF job[i].at = "none" THEN "waiting" ELSE job[i].at
      BY <2>1, <2>2 DEF AddReward
    <2>5. /\ job'[i] = [job[i] EXCEPT !.at = at] /\ job'[i].at = at
          /\ job[i].at # "none" => job'[i] = job[i]
          /\ \A j \in Invites \ {i} : job'[j] = job[j]
      BY <1>0, <2>3, <2>4 DEF Job
    <2>6. \A j \in Invites : Paying(j)' \subseteq Paying(j)
      BY <2>3 DEF Paying
    <2>7. HandedOut(job'[i]) = HandedOut(job[i])
      BY <2>3, <2>4, <2>5, HandOuts
    <2>8. NoMorePaid(i) /\ job'[i].at # "none"
      BY <2>3, <2>4, <2>5, <2>6, <2>7 DEF NoMorePaid
    <2>9. JobStep(i)
      BY <2>3, <2>8 DEF JobStep
    <2>10. \A j \in Invites \ {i} : JobStep(j)
      BY <2>3, <2>5, <2>6, NothingPaid DEF JobStays
    <2> QED
      BY <2>9, <2>10
  <1>4. CASE \E i \in Invites : Recover(i)
    <2>1. PICK i \in Invites : Recover(i)
      BY <1>4
    <2>2. /\ job[i] \in Job /\ job[i].at = "active" /\ UNCHANGED <<sent, run>>
          /\ job' = [job EXCEPT ![i] = Stalled(job[i])]
      BY <1>0, <2>1 DEF Recover
    <2>3. /\ job'[i] = Stalled(job[i])
          /\ \A j \in Invites \ {i} : job'[j] = job[j]
      BY <1>0, <2>2
    <2>4. HandedOut(job'[i]) = HandedOut(job[i]) /\ job'[i].at # "none"
      BY <2>2, <2>3, HandOuts
    <2>5. \A j \in Invites : JobStays(j)
      BY <2>2, <2>3, <2>4 DEF JobStays
    <2>6. \A j \in Invites : Paying(j)' \subseteq Paying(j)
      BY <2>2 DEF Paying
    <2> QED
      BY <2>2, <2>5, <2>6, NothingPaid
  <1>5. CASE \E r \in Requests : RequestStep(r)
    <2>1. UNCHANGED <<sent, job, run>>
      BY <1>5 DEF RequestStep, AskCode, FindCode, CreateCode, CheckUnbound, Bind, RequestFails
    <2> QED
      BY <1>2, <2>1
  <1>6. CASE \E k \in Calls : WriteOrder(k) \/ CommitOrder(k) \/ CallFails(k)
                              \/ \E o \in Orders : ReadOrder(k, o)
    <2>1. UNCHANGED <<sent, job, run>>
      BY <1>6 DEF WriteOrder, CommitOrder, CallFails, ReadOrder
    <2> QED
      BY <1>2, <2>1
  <1>7. CASE (\E o \in Orders : Refund(o)) \/ SaveReferralReward \/ UNCHANGED vars
    <2>1. UNCHANGED <<sent, job, run>>
      BY <1>7 DEF Refund, SaveReferralReward, SetReward, vars
    <2> QED
      BY <1>2, <2>1
  <1> QED
    BY <1>1, <1>3, <1>4, <1>5, <1>6, <1>7 DEF Next, CallStep

--------------------------------------------------------------------------------
(* The bindings                                                            *)

\* The requests that found a player unbound.
Unbound(p) == {r \in Requests : request[r].at = "unbound" /\ request[r].player = p}

\* The part of BindingsBounded for a player.
BindingOK(p) ==
  /\ IF referredBy[p] = NoPlayer THEN Invitations(p) = {}
     ELSE /\ \E i \in Invitations(p) : owner[i[1]] = referredBy[p]
          /\ Cardinality(Invitations(p)) + Cardinality(Unbound(p)) <= Cardinality(Requests)
  /\ referredBy[p] # p
  /\ IsFiniteSet(Invitations(p))

(* What a step does to a player: his invitations stay and no request finds *)
(* him unbound, one does, or one binds him.                                *)
NotFound(p) ==
  /\ referredBy'[p] = referredBy[p] /\ Invitations(p)' = Invitations(p)
  /\ Unbound(p)' \subseteq Unbound(p) /\ OwnersKept

FoundUnbound(p) ==
  /\ referredBy[p] = NoPlayer /\ referredBy'[p] = NoPlayer
  /\ Invitations(p)' = Invitations(p)

BoundTo(r, c, p) ==
  /\ c \in Codes /\ r \in Unbound(p)
  /\ owner'[c] = owner[c] /\ owner[c] \notin {NoPlayer, p}
  /\ referredBy'[p] = owner[c]
  /\ Invitations(p)' = Invitations(p) \cup {<<c, p>>}
  /\ Unbound(p)' \subseteq Unbound(p) \ {r}

BindingStep(p) ==
  \/ NotFound(p) \/ FoundUnbound(p)
  \/ \E r \in Requests, c \in Codes : BoundTo(r, c, p)

(* The requests that find him unbound are finitely many.                   *)
LEMMA UnboundFinite ==
  ASSUME NEW p
  PROVE  /\ IsFiniteSet(Unbound(p)) /\ Cardinality(Requests) \in Nat
         /\ \A S : S \subseteq Unbound(p) =>
              /\ Cardinality(S) \in Nat /\ Cardinality(S) <= Cardinality(Unbound(p))
              /\ Cardinality(S) <= Cardinality(Requests)
         /\ \A S, r : r \in Unbound(p) /\ S \subseteq Unbound(p) \ {r} =>
              /\ Cardinality(S) \in Nat /\ Cardinality(S) + 1 <= Cardinality(Unbound(p))
              /\ Cardinality(S) + 1 <= Cardinality(Requests)
  <1>1. Unbound(p) \subseteq Requests /\ IsFiniteSet(Requests) /\ Cardinality(Requests) \in Nat
    BY ConstantsAssumption, FS_CardinalityType DEF Unbound
  <1>2. IsFiniteSet(Unbound(p)) /\ Cardinality(Unbound(p)) <= Cardinality(Requests)
    BY <1>1, FS_Subset
  <1>3. Cardinality(Unbound(p)) \in Nat
    BY <1>2, FS_CardinalityType
  <1>4. ASSUME NEW S, S \subseteq Unbound(p)
        PROVE  /\ Cardinality(S) \in Nat /\ Cardinality(S) <= Cardinality(Unbound(p))
               /\ Cardinality(S) <= Cardinality(Requests)
    <2>1. IsFiniteSet(S) /\ Cardinality(S) <= Cardinality(Unbound(p))
      BY <1>2, <1>4, FS_Subset
    <2>2. Cardinality(S) \in Nat
      BY <2>1, FS_CardinalityType
    <2> QED
      BY <1>1, <1>2, <1>3, <2>1, <2>2
  <1>5. ASSUME NEW S, NEW r \in Unbound(p), S \subseteq Unbound(p) \ {r}
        PROVE  /\ Cardinality(S) \in Nat /\ Cardinality(S) + 1 <= Cardinality(Unbound(p))
               /\ Cardinality(S) + 1 <= Cardinality(Requests)
    <2>1. /\ IsFiniteSet(Unbound(p) \ {r})
          /\ Cardinality(Unbound(p) \ {r}) = Cardinality(Unbound(p)) - 1
      BY <1>2, FS_RemoveElement
    <2>2. IsFiniteSet(S) /\ Cardinality(S) <= Cardinality(Unbound(p) \ {r})
      BY <1>5, <2>1, FS_Subset
    <2>3. Cardinality(S) \in Nat
      BY <2>2, FS_CardinalityType
    <2> QED
      BY <1>1, <1>2, <1>3, <2>1, <2>2, <2>3
  <1> QED
    BY <1>1, <1>2, <1>4, <1>5

(* A player collects no more invitations than requests found him unbound.  *)
LEMMA BindingKept ==
  ASSUME NEW p \in Players, BindingOK(p), BindingStep(p)
  PROVE  BindingOK(p)'
  <1>0. NoPlayer \notin Players
    BY ConstantsAssumption
  <1>1. CASE FoundUnbound(p)
    BY <1>0, <1>1 DEF FoundUnbound, BindingOK
  <1>2. CASE NotFound(p)
    <2>1. CASE referredBy[p] = NoPlayer
      BY <1>2, <2>1 DEF NotFound, BindingOK
    <2>2. CASE referredBy[p] # NoPlayer
      <3>1. PICK i \in Invitations(p) : owner[i[1]] = referredBy[p]
        BY <2>2 DEF BindingOK
      <3>2. i[1] \in Codes
        BY <3>1, InviteFields DEF Invitations
      <3>3. owner'[i[1]] = referredBy'[p] /\ i \in Invitations(p)'
        BY <1>2, <2>2, <3>1, <3>2 DEF NotFound, OwnersKept
      <3>4. /\ Cardinality(Unbound(p)') \in Nat
            /\ Cardinality(Unbound(p)') <= Cardinality(Unbound(p))
            /\ Cardinality(Unbound(p)) \in Nat /\ Cardinality(Requests) \in Nat
            /\ Cardinality(Invitations(p)) \in Nat
        BY <1>2, UnboundFinite, FS_CardinalityType DEF NotFound, BindingOK
      <3>5. Cardinality(Invitations(p)') = Cardinality(Invitations(p))
        BY <1>2 DEF NotFound
      <3>6. Cardinality(Invitations(p)') + Cardinality(Unbound(p)') <= Cardinality(Requests)
        BY <2>2, <3>4, <3>5 DEF BindingOK
      <3> QED
        BY <1>2, <2>2, <3>3, <3>6 DEF BindingOK, NotFound
    <2> QED
      BY <2>1, <2>2
  <1>3. ASSUME NEW r \in Requests, NEW c \in Codes, BoundTo(r, c, p)
        PROVE  BindingOK(p)'
    <2>1. /\ <<c, p>> \in Invitations(p)' /\ owner'[<<c, p>>[1]] = referredBy'[p]
          /\ referredBy'[p] \notin {NoPlayer, p}
      BY <1>3, InviteFields DEF BoundTo
    <2>2. IsFiniteSet(Invitations(p)) /\ Cardinality(Invitations(p)) \in Nat
      BY FS_CardinalityType DEF BindingOK
    <2>3. /\ IsFiniteSet(Invitations(p)')
          /\ \/ Cardinality(Invitations(p)') = Cardinality(Invitations(p))
             \/ Cardinality(Invitations(p)') = Cardinality(Invitations(p)) + 1
      <3>1. /\ IsFiniteSet(Invitations(p) \cup {<<c, p>>})
            /\ Cardinality(Invitations(p) \cup {<<c, p>>})
                 \in {Cardinality(Invitations(p)), Cardinality(Invitations(p)) + 1}
        BY <2>2, FS_AddElement, Zenon
      <3>2. Invitations(p)' = Invitations(p) \cup {<<c, p>>}
        BY <1>3 DEF BoundTo
      <3> QED
        BY <3>1, <3>2
    <2>4. /\ Cardinality(Unbound(p)') \in Nat /\ Cardinality(Requests) \in Nat
          /\ Cardinality(Unbound(p)') + 1 <= Cardinality(Unbound(p))
          /\ Cardinality(Unbound(p)') + 1 <= Cardinality(Requests)
          /\ Cardinality(Unbound(p)) \in Nat
      BY <1>3, UnboundFinite DEF BoundTo
    <2>5. CASE referredBy[p] = NoPlayer
      <3>1. Cardinality(Invitations(p)) = 0
        BY <2>5, FS_EmptySet DEF BindingOK
      <3>2. Cardinality(Invitations(p)') + Cardinality(Unbound(p)') <= Cardinality(Requests)
        BY <2>3, <2>4, <3>1
      <3> QED
        BY <2>1, <2>3, <3>2 DEF BindingOK
    <2>6. CASE referredBy[p] # NoPlayer
      <3>1. Cardinality(Invitations(p)) + Cardinality(Unbound(p)) <= Cardinality(Requests)
        BY <2>6 DEF BindingOK
      <3>2. Cardinality(Invitations(p)') + Cardinality(Unbound(p)') <= Cardinality(Requests)
        BY <2>2, <2>3, <2>4, <3>1
      <3> QED
        BY <2>1, <2>3, <3>2 DEF BindingOK
    <2> QED
      BY <2>5, <2>6
  <1> QED
    BY <1>1, <1>2, <1>3 DEF BindingStep

(* A step that binds nobody.                                               *)
NoneBound == \A i \in Invites : invite'[i].status = "NONE" <=> invite[i].status = "NONE"

LEMMA SameInvitations ==
  ASSUME NoneBound
  PROVE  \A p : Invitations(p)' = Invitations(p)
  BY DEF NoneBound, Invitations

(* The step of a request.                                                  *)
LEMMA RequestBinding ==
  ASSUME RequestsOK, invite \in [Invites -> Row], OwnersKept, NEW r \in Requests, RequestStep(r),
         NEW p \in Players
  PROVE  BindingStep(p)
  <1>0. /\ owner \in [Codes -> Players \cup {NoPlayer}]
        /\ referredBy \in [Players -> Players \cup {NoPlayer}]
        /\ request \in [Requests -> Request] /\ request[r] \in Request /\ RequestOK(request[r])
    BY DEF RequestsOK
  <1>1. ASSUME UNCHANGED <<referredBy, invite>>, NEW e, request' = [request EXCEPT ![r] = e],
               e.at # "unbound"
        PROVE  BindingStep(p)
    <2>1. NoneBound /\ Unbound(p)' \subseteq Unbound(p)
      BY <1>0, <1>1 DEF NoneBound, Unbound
    <2> QED
      BY <1>1, <2>1, SameInvitations DEF BindingStep, NotFound
  <1>2. NoRequest.at # "unbound"
    BY DEF NoRequest
  <1>3. CASE CreateCode(r) \/ RequestFails(r)
    BY <1>1, <1>2, <1>3 DEF CreateCode, RequestFails, EndRequest, rows
  <1>4. CASE \E q \in Inviters : AskCode(r, q)
    <2>1. PICK q \in Inviters : AskCode(r, q)
      BY <1>4
    <2>2. PICK e : e = [NoRequest EXCEPT !.at = "create", !.player = q]
      OBVIOUS
    <2>3. e.at # "unbound" /\ request' = [request EXCEPT ![r] = e] /\ UNCHANGED <<referredBy, invite>>
      BY <2>1, <2>2 DEF AskCode, NoRequest, rows
    <2> QED
      BY <1>1, <2>3
  <1>5. CASE \E q \in Players, c \in Codes : FindCode(r, q, c)
    <2>1. PICK q \in Players, c \in Codes : FindCode(r, q, c)
      BY <1>5
    <2>2. PICK e : e = [at |-> "found", player |-> q, code |-> c]
      OBVIOUS
    <2>3. e.at # "unbound" /\ request' = [request EXCEPT ![r] = e] /\ UNCHANGED <<referredBy, invite>>
      BY <2>1, <2>2 DEF FindCode, rows
    <2> QED
      BY <1>1, <2>3
  <1>6. CASE CheckUnbound(r)
    <2>0. UNCHANGED <<referredBy, invite>>
      BY <1>6 DEF CheckUnbound, rows
    <2>1. CASE referredBy[request[r].player] # NoPlayer
      BY <1>1, <1>2, <1>6, <2>0, <2>1 DEF CheckUnbound, EndRequest
    <2>2. CASE referredBy[request[r].player] = NoPlayer
      <3>1. NoneBound
        BY <2>0 DEF NoneBound
      <3>2. CASE p = request[r].player
        BY <2>0, <2>2, <3>1, <3>2, SameInvitations DEF BindingStep, FoundUnbound
      <3>3. CASE p # request[r].player
        <4>1. request' = [request EXCEPT ![r].at = "unbound"]
          BY <1>6, <2>2 DEF CheckUnbound
        <4>2. \A q \in Requests : /\ request'[q].player = request[q].player
                                  /\ q # r => request'[q] = request[q]
          BY <1>0, <4>1 DEF Request
        <4>3. Unbound(p)' \subseteq Unbound(p)
          BY <3>3, <4>2 DEF Unbound
        <4> QED
          BY <2>0, <3>1, <4>3, SameInvitations DEF BindingStep, NotFound
      <3> QED
        BY <3>2, <3>3
    <2> QED
      BY <2>1, <2>2
  <1>7. CASE Bind(r)
    <2>1. PICK c, q, i : c = request[r].code /\ q = request[r].player /\ i = <<c, q>>
      OBVIOUS
    <2>2. /\ c \in Codes /\ q \in Players /\ owner[c] \notin {NoPlayer, q}
          /\ i \in Invites /\ Invitee(i) = q /\ r \in Unbound(q) /\ UNCHANGED owner
      BY <1>0, <1>7, <2>1, InviteFields DEF Bind, RequestOK, Unbound
    <2>3. request' = [request EXCEPT ![r] = NoRequest]
      BY <1>7 DEF Bind, EndRequest
    <2>4. CASE invite[i].status # "NONE"
      <3>1. UNCHANGED <<referredBy, invite>>
        BY <1>7, <2>1, <2>4 DEF Bind
      <3> QED
        BY <1>1, <1>2, <2>3, <3>1
    <2>5. CASE invite[i].status = "NONE"
      <3>1. /\ referredBy' = [referredBy EXCEPT ![q] = owner[c]]
            /\ invite' = [invite EXCEPT ![i].status = "PENDING"]
        BY <1>7, <2>1, <2>5 DEF Bind
      <3>2. /\ invite'[i].status = "PENDING"
            /\ \A j \in Invites \ {i} : invite'[j] = invite[j]
        BY <2>2, <3>1 DEF Row
      <3>3. Unbound(p)' \subseteq Unbound(p) \ {r}
        BY <1>0, <1>2, <2>3 DEF Unbound
      <3>4. CASE p = q
        <4>1. Invitations(p)' = Invitations(p) \cup {i}
          BY <2>2, <3>2, <3>4 DEF Invitations
        <4>2. referredBy'[p] = owner[c] /\ owner'[c] = owner[c]
          BY <1>0, <2>2, <3>1, <3>4
        <4>3. BoundTo(r, c, p)
          BY <2>1, <2>2, <3>3, <3>4, <4>1, <4>2 DEF BoundTo
        <4> QED
          BY <2>2, <4>3 DEF BindingStep
      <3>5. CASE p # q
        <4>1. Invitations(p)' = Invitations(p)
          BY <2>2, <3>2, <3>5 DEF Invitations
        <4>2. referredBy'[p] = referredBy[p]
          BY <1>0, <3>1, <3>5
        <4> QED
          BY <3>3, <4>1, <4>2 DEF BindingStep, NotFound
      <3> QED
        BY <3>4, <3>5
    <2> QED
      BY <2>4, <2>5
  <1> QED
    BY <1>3, <1>4, <1>5, <1>6, <1>7 DEF RequestStep

(* No other step binds a player.                                           *)
LEMMA OthersBindNobody ==
  ASSUME TypeOK, StepsOK, [Next]_vars, ~\E r \in Requests : RequestStep(r)
  PROVE  NoneBound /\ UNCHANGED <<referredBy, request>>
  <1>0. invite \in [Invites -> Row] /\ call \in [Calls -> Call] /\ run \in [Workers -> Run]
    BY DEF TypeOK
  <1>1. CASE \E k \in Calls : CallStep(k) \/ CallFails(k) \/ \E o \in Orders : ReadOrder(k, o)
    <2>1. PICK k \in Calls : CallStep(k) \/ CallFails(k) \/ \E o \in Orders : ReadOrder(k, o)
      BY <1>1
    <2>2. UNCHANGED <<referredBy, request>>
      BY <2>1 DEF CallStep, CallFails, ReadOrder, WriteOrder, CommitOrder, AddReward, rows
    <2>3. CASE ~CommitOrder(k)
      <3>1. UNCHANGED invite
        BY <2>1, <2>3 DEF CallStep, CallFails, ReadOrder, WriteOrder, AddReward, rows
      <3> QED
        BY <2>2, <3>1 DEF NoneBound
    <2>4. CASE CommitOrder(k)
      <3>1. PICK i, o : i = call[k].invite /\ o = call[k].order
        OBVIOUS
      <3>2. \/ UNCHANGED invite
            \/ /\ invite[i].status = "PENDING" /\ i # NoInvite
               /\ invite' = [invite EXCEPT ![i].status = "QUALIFIED", ![i].order = o]
        BY <2>4, <3>1 DEF CommitOrder, Qualifies
      <3>3. i # NoInvite => i \in Invites
        BY <1>0, <3>1 DEF Call
      <3>4. NoneBound
        BY <1>0, <3>2, <3>3 DEF NoneBound, Row
      <3> QED
        BY <2>2, <3>4
    <2> QED
      BY <2>3, <2>4
  <1>2. CASE \E w \in Workers : RunStep(w) \/ SendThrows(w) \/ RunThrows(w) \/ RunDies(w)
                                \/ LoseLock(w)
    <2>1. PICK w \in Workers : RunStep(w) \/ SendThrows(w) \/ RunThrows(w) \/ RunDies(w)
                                \/ LoseLock(w)
      BY <1>2
    <2>2. UNCHANGED <<referredBy, request>>
      BY <2>1 DEF RunStep, Take, ReadReward, Disable, Send, Record, SendThrows, RunThrows,
                  RunDies, LoseLock, rows
    <2>3. CASE ~Disable(w) /\ ~Record(w)
      <3>1. UNCHANGED invite
        BY <2>1, <2>3 DEF RunStep, Take, ReadReward, Send, SendThrows, RunThrows, RunDies,
                          LoseLock, rows
      <3> QED
        BY <2>2, <3>1 DEF NoneBound
    <2>4. CASE Disable(w) \/ Record(w)
      <3>1. PICK i : i = run[w].invite
        OBVIOUS
      <3>2. i \in Invites /\ invite[i].status # "NONE"
        BY <2>4, <3>1 DEF Disable, Record, StepsOK, RunOK, Qualified
      <3>3. UNCHANGED invite \/ \E a : invite' = [invite EXCEPT ![i].status = "REWARDED",
                                                               ![i].amount = a]
        BY <2>4, <3>1 DEF Disable, Record
      <3>4. NoneBound
        BY <1>0, <3>2, <3>3 DEF NoneBound, Row
      <3> QED
        BY <2>2, <3>4
    <2> QED
      BY <2>3, <2>4
  <1>3. CASE (\E o \in Orders : Refund(o)) \/ SaveReferralReward \/ (\E i \in Invites : Recover(i))
             \/ UNCHANGED vars
    <2>1. UNCHANGED <<referredBy, request, invite>>
      BY <1>3 DEF Refund, SaveReferralReward, SetReward, Recover, rows, vars
    <2> QED
      BY <2>1 DEF NoneBound
  <1> QED
    BY <1>1, <1>2, <1>3 DEF Next

(* Every step.                                                             *)
LEMMA BindingSteps ==
  ASSUME TypeOK, StepsOK, RequestsOK, OwnersKept, [Next]_vars
  PROVE  \A p \in Players : BindingStep(p)
  <1>1. CASE \E r \in Requests : RequestStep(r)
    BY <1>1, RequestBinding DEF TypeOK
  <1>2. CASE ~\E r \in Requests : RequestStep(r)
    <2>1. NoneBound /\ UNCHANGED <<referredBy, request>>
      BY <1>2, OthersBindNobody
    <2>2. \A p \in Players : Unbound(p)' \subseteq Unbound(p)
      BY <2>1 DEF Unbound
    <2> QED
      BY <2>1, <2>2, SameInvitations DEF BindingStep, NotFound
  <1> QED
    BY <1>1, <1>2

--------------------------------------------------------------------------------
(* The invariant                                                           *)

\* The parts of ReferralsInv, for each player and for each invitation.
Parts ==
  /\ TypeOK /\ StepsOK
  /\ \A p \in Players : BindingOK(p)
  /\ \A i \in Invites : Ledgered(i) /\ JobOK(i)

LEMMA InvIsParts ==
  ReferralsInv <=> Parts
  <1>1. ASSUME ReferralsInv
        PROVE  Parts
    <2>1. \A p \in Players : BindingOK(p)
      BY <1>1 DEF ReferralsInv, BindingsBounded, BindingOK, Unbound
    <2>2. \A i \in Invites : Ledgered(i) /\ JobOK(i)
      BY <1>1 DEF ReferralsInv, RewardIsLedgered, Ledgered, JobsOK, JobOK
    <2> QED
      BY <1>1, <2>1, <2>2 DEF ReferralsInv, BindingsBounded, Parts
  <1>2. ASSUME Parts
        PROVE  ReferralsInv
    <2>1. BindingsBounded /\ \A p \in Players : IsFiniteSet(Invitations(p))
      BY <1>2 DEF Parts, BindingsBounded, BindingOK, Unbound
    <2>2. ASSUME NEW i \in Invites
          PROVE  Len(sent[i]) <= 1 + MaxStalls
      <3>1. /\ Len(sent[i]) \in Nat /\ Cardinality(Paying(i)) \in Nat
            /\ HandedOut(job[i]) \in Nat /\ HandedOut(job[i]) <= 1 + MaxStalls
        BY <1>2, Elements, PayingFinite, HandOuts DEF Parts, TypeOK
      <3>2. Len(sent[i]) + Cardinality(Paying(i)) <= HandedOut(job[i])
        BY <1>2 DEF Parts, JobOK
      <3> QED
        BY <3>1, <3>2, ConstantsAssumption
    <2>3. RewardIsLedgered
      BY <1>2, <2>2 DEF Parts, Ledgered, RewardIsLedgered
    <2>4. JobsOK
      BY <1>2 DEF Parts, JobOK, JobsOK
    <2> QED
      BY <1>2, <2>1, <2>3, <2>4 DEF Parts, ReferralsInv
  <1> QED
    BY <1>1, <1>2

(* The initial states.                                                     *)
LEMMA InitParts ==
  Init => Parts
  <1> SUFFICES ASSUME Init PROVE Parts
    OBVIOUS
  <1>0. /\ 0 \in 0..MaxStalls /\ 0 \in 0..MaxFaults
    BY ConstantsAssumption
  <1>1. TypeOK
    <2>1. << >> \in Seq(Amounts)
      BY EmptySeq
    <2>2. NoRequest \in Request /\ NoCall \in Call /\ NoRun \in Run
      BY DEF NoRequest, Request, NoCall, Call, NoRun, Run
    <2> QED
      BY <1>0, <2>1, <2>2 DEF Init, TypeOK, Row, Job
  <1>2. StepsOK
    BY DEF Init, StepsOK, RequestOK, CallOK, RunOK, NoRequest, NoCall, NoRun
  <1>3. ASSUME NEW p \in Players
        PROVE  BindingOK(p)
    <2>1. referredBy[p] = NoPlayer /\ Invitations(p) = {}
      BY DEF Init, Invitations
    <2> QED
      BY <2>1, FS_EmptySet, ConstantsAssumption DEF BindingOK
  <1>4. ASSUME NEW i \in Invites
        PROVE  Ledgered(i) /\ JobOK(i)
    <2>1. /\ sent[i] = << >> /\ ledger[i] = << >> /\ invite[i].status = "NONE"
          /\ job[i].at = "none" /\ job[i].stalls = 0
      BY DEF Init
    <2>2. Paying(i) = {}
      BY DEF Init, Paying, NoRun
    <2>3. /\ Len(<< >>) = 0 /\ ToSet(<< >>) = {} /\ Cardinality({}) = 0
      BY EmptySeq, Elements, FS_EmptySet
    <2>4. Ledgered(i)
      BY <2>1, <2>3 DEF Ledgered
    <2>5. JobOK(i)
      BY <2>1, <2>2, <2>3 DEF JobOK, HandedOut
    <2> QED
      BY <2>4, <2>5
  <1> QED
    BY <1>1, <1>2, <1>3, <1>4 DEF Parts

(* The reward and the failures.                                            *)
LEMMA OtherTypes ==
  ASSUME TypeOK, [Next]_vars
  PROVE  reward' \in Amounts /\ faults' \in 0..MaxFaults
  <1>0. /\ reward \in Amounts /\ faults \in 0..MaxFaults /\ MaxFaults \in Nat
        /\ Fault => faults' \in 0..MaxFaults
    BY ConstantsAssumption DEF TypeOK, Fault
  <1>1. CASE \E r \in Requests : RequestStep(r)
    BY <1>0, <1>1 DEF RequestStep, AskCode, FindCode, CreateCode, CheckUnbound, Bind, RequestFails
  <1>2. CASE \E k \in Calls : CallStep(k) \/ CallFails(k) \/ \E o \in Orders : ReadOrder(k, o)
    BY <1>0, <1>2 DEF CallStep, CallFails, ReadOrder, WriteOrder, CommitOrder, AddReward
  <1>3. CASE \E w \in Workers : RunStep(w) \/ SendThrows(w) \/ RunThrows(w) \/ RunDies(w)
                                \/ LoseLock(w)
    BY <1>0, <1>3 DEF RunStep, Take, ReadReward, Disable, Send, Record, SendThrows, RunThrows,
                      RunDies, LoseLock
  <1>4. CASE (\E o \in Orders : Refund(o)) \/ SaveReferralReward \/ (\E i \in Invites : Recover(i))
             \/ UNCHANGED vars
    BY <1>0, <1>4 DEF Refund, SaveReferralReward, SetReward, Recover, vars
  <1> QED
    BY <1>1, <1>2, <1>3, <1>4 DEF Next

(* Every step.                                                             *)
LEMMA NextParts ==
  ASSUME Parts, [Next]_vars
  PROVE  Parts'
  <1>0. TypeOK /\ StepsOK
    BY DEF Parts
  <1>1. /\ Histories /\ RequestsOK /\ CallsOK /\ RunsOK /\ reward \in Amounts
    BY <1>0 DEF TypeOK, StepsOK, Histories, RequestsOK, CallsOK, RunsOK
  <1>2. Histories' /\ \A i \in Invites : InviteStep(i)
    BY <1>0, InviteSteps
  <1>3. /\ QualifiedKept /\ SentKept
        /\ \A i \in Invites : Ledgered(i)'
    BY <1>1, <1>2, InviteKeeps DEF QualifiedKept, SentKept, Parts
  <1>4. RequestsOK' /\ OwnersKept
    BY <1>1, RequestsKept
  <1>5. CallsOK'
    BY <1>1, <1>3, CallsKept
  <1>6. RunsOK'
    BY <1>1, <1>3, RunsKept
  <1>7. TypeOK'
    BY <1>0, <1>2, <1>4, <1>5, <1>6, OtherTypes DEF TypeOK, Histories, RequestsOK, CallsOK, RunsOK
  <1>8. StepsOK'
    BY <1>4, <1>5, <1>6 DEF StepsOK, RequestsOK, CallsOK, RunsOK
  <1>9. \A p \in Players : BindingOK(p)'
    BY <1>0, <1>1, <1>4, BindingSteps, BindingKept DEF Parts
  <1>10. \A i \in Invites : JobOK(i)'
    <2>1. \A i \in Invites : JobStep(i)
      BY <1>1, <1>3, JobSteps
    <2>2. \A i \in Invites : job[i] \in Job
      BY <1>1 DEF RunsOK
    <2> QED
      BY <1>1, <1>3, <2>1, <2>2, JobKept DEF Parts, QualifiedKept
  <1> QED
    BY <1>3, <1>7, <1>8, <1>9, <1>10 DEF Parts

--------------------------------------------------------------------------------
(* The theorems                                                            *)

(* What requests, settlements and runs know, the bindings, the ledger and  *)
(* the jobs hold together in every reachable state.                        *)
THEOREM ReferralsAreSound == Spec => []ReferralsInv
  <1>1. Init => ReferralsInv
    BY InitParts, InvIsParts
  <1>2. ReferralsInv /\ [Next]_vars => ReferralsInv'
    <2>1. ASSUME Parts, [Next]_vars
          PROVE  ReferralsInv'
      <3>1. Parts'
        BY <2>1, NextParts
      <3> QED
        BY <3>1, InvIsParts, PTL
    <2> QED
      BY <2>1, InvIsParts
  <1> QED
    BY <1>1, <1>2, PTL DEF Spec

(* bind/route.ts: a player is bound exactly if he has an invitation, by    *)
(* the owner of one of them and never by himself, and collects no more of  *)
(* them than requests had found him unbound together.                      *)
THEOREM BindingsCorrect == Spec => []BindingsBounded
  <1>1. ReferralsInv => BindingsBounded
    BY DEF ReferralsInv
  <1> QED
    BY <1>1, ReferralsAreSound, PTL

(* processor.ts: an invitation is credited once at most, with what was     *)
(* paid for it, and is paid no oftener than its job is handed out.         *)
THEOREM RewardCorrect == Spec => []RewardIsLedgered
  <1>1. ReferralsInv => RewardIsLedgered
    BY DEF ReferralsInv
  <1> QED
    BY <1>1, ReferralsAreSound, PTL

(* settlement.ts, processor.ts: an invitation advances one status at a     *)
(* time and keeps the order that qualified it.                             *)
THEOREM StatusCorrect == Spec => StatusAdvances
  <1> DEFINE Step == \A i \in Invites :
               /\ Rank(invite'[i]) - Rank(invite[i]) \in {0, 1}
               /\ IF Rank(invite[i]) < 2 /\ Rank(invite'[i]) = 2
                    THEN /\ Buyer[invite'[i].order] = Invitee(i)
                         /\ status'[invite'[i].order] = "PAID"
                    ELSE invite'[i].order = invite[i].order
  <1>1. ReferralsInv /\ [Next]_vars => [Step]_vars
    <2>1. ASSUME ReferralsInv, [Next]_vars
          PROVE  \A i \in Invites : Advances(i)
      <3>1. TypeOK /\ StepsOK /\ Histories
        BY <2>1 DEF ReferralsInv, BindingsBounded, TypeOK, Histories
      <3> QED
        BY <2>1, <3>1, InviteSteps, InviteAdvances
    <2> QED
      BY <2>1 DEF Advances
  <1> QED
    BY <1>1, ReferralsAreSound, PTL DEF Spec, StatusAdvances

================================================================================

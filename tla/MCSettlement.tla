----------------------------- MODULE MCSettlement ------------------------------
(***************************************************************************)
(* Instances of Settlement for TLC.  All orders cost 1 and belong to one   *)
(* player.                                                                 *)
(***************************************************************************)
EXTENDS SettlementCorrectness

CONSTANTS o1, m1, m2, p1

MCBuyer == [o \in Orders |-> p1]
MCDue == [o \in Orders |-> 1]

\* Every order has the same memo: ids that agree on their first 28 bytes.
MCMemo == [o \in Orders |-> m1]

\* o1 belongs to the bundled mock game, any other order to a studio that has
\* configured neither a webhook nor a payout wallet.
MCMockFirst == [o \in Orders |-> IF o = o1 THEN "mock" ELSE "none"]

\* Every order belongs to a studio with a game server of its own.
MCGame == [o \in Orders |-> "game"]

================================================================================

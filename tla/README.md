# TLA+ verification of xGameFi

xGameFi sells game items for Stellar payments. A buyer gets a quote, pays the
platform account on chain with the order id as memo, and from then on
concurrent HTTP requests, poll jobs and queue workers move the order to *paid*,
pay the studio, deliver the item through the game's webhook, or refund the
buyer. Nothing but database transactions, unique indexes and queue job ids
coordinates them. This directory holds TLA+ models of that machinery, TLC
configurations that check them on small instances, and TLAPS proofs of what
holds for every instance. `PROJECT.json` lists the runs, the source lines each
definition stands for, the mutants that show each property can fail, the
hazards and the theorems.

## 1. Inventory

| Component (source) | State it keeps | Operations | Hard behaviour | What makes it correct |
|---|---|---|---|---|
| Settlement (`packages/shared/src/settlement.ts`; callers: `checkout/submit` route, watcher) | Order, LedgerEntry, Referral rows; jobs it adds | verifyAndAdvanceOrder | races of callers on one order or one hash; crash after the commit; stale reads | an order is settled only by a payment of its own that covers it |
| Stellar client (`packages/shared/src/stellar.ts`) | none (the chain is external) | verifyPayment, sendPayment, buildPaymentXdr | memo truncation; a sent payment whose answer is lost | what it confirms stays true |
| Queues (`packages/shared/src/queues.ts`) | Redis job keys | add with jobId, run, fail, stall | jobs run again after a stall; finished ids are evicted | a job is added at most once while its id is retained |
| Watcher (`apps/worker/src/jobs/stellar-watcher.ts`) | cursor in Redis | poll every 5 s | overlapping polls, failed fetches | no payment behind the cursor is missed |
| Payout, refund, webhook delivery (`apps/worker/src/jobs`) | ledger and delivery rows | one processor each | crash between the outside effect and its record; lost answers | value leaves only for settled orders; records never exceed effects |
| Mock game fast path (`packages/shared/src/mock-webhook.ts`) | delivery rows | deliverMockGameWebhook | races with the delivery worker | DELIVERED only after a grant |
| Checkout (`apps/web/lib/checkout-queries.ts`, `packages/shared/src/promotions`) | pending orders, usage counters | createOrderQuote, applyPromotion | lock per player and item only; re-quote deletes orders; counters read and written apart | limits hold; a payable order is never lost |
| Idempotency (`packages/shared/src/idempotency.ts`, both `submit` routes, `submitPayment` of the checkout page) | lock in Redis, stored response | withIdempotency; the page's attempts | lock expiry, unconditional unlock, crash between effect and record | a caller is told what is stored for its key and body, and never something outdated |
| P2P market (`packages/shared/src/p2p`, `apps/web/lib/p2p-queries.ts`, `apps/worker/src/jobs/p2p-settlement.ts`) | listings, trades, ownerships | list, quote, verify, transfer, pay or refund | two buyers, lost transfer answers, jobs added inside a transaction | one item for one payment; never both paid and refunded |
| Referrals (`referrals` and `referrals/bind` routes, settlement, `apps/worker/src/jobs/referral-reward`) | Referral rows, referredByPlayerId, ledger | draw a code, bind, qualify, reward | duplicate binds, reward sent before its compare-and-set, stalls, setting changes in between | an invitation only advances, and its ledger entry is what was paid |
| Order events (`apps/web/lib/sse.ts`, `orders/[id]/events` route) | subscriptions on one shared connection | open, publish, close | events between read and subscribe; shared unsubscribe | with the page's poll, a delivery is shown whatever the stream does |
| Checkout page (`checkout-client.tsx`, order route) | displayed order and status, event stream, timers, poll interval | quote, coupon, sign, follow | answers out of order, streams that outlive their quote | it follows the order it shows, and shows nothing that has not happened |
| Catalogue, builder, storefront (`packages/shared/src/catalogue`, catalogue and stock sync jobs, ingest route, `dashboard/builder`, `lib/catalogue-queries.ts`) | items, stock, layout and draft of a shop | sync, push, edit, publish, show | stale fetches, late pushes, lost updates | one sync alone repairs whatever the others left |
| Access (`apps/web/lib/auth`, `auth/*` and registration routes, admin users route) | sessions, cookie, Redis mirror, nonces, counters | challenge, verify, login, register, me, logout | revocation against sliding refresh; failures read before they are counted | nonces open one session, revoked sessions stay dead |
| Webhook settings, retry and test routes, money, metrics, audit, hmac, ssrf, DTOs, zod, other pages | little or none | reads, one-row writes, pure functions | none beyond the above | unit tests; see *Not modelled* |

The components meet in three places: database rows (Order, Referral, Trade,
Session, Shop), queue job ids, and the chain. The pages meet the server in
requests, answers and one stream of events per order, all of which can be late,
out of order or lost.

## 2. Plan

| Order | Modules | Content | Runs | Theorems |
|---|---|---|---|---|
| 1 (done) | Stellar, Queues, Settlement, SettlementCorrectness, Sale, MCSettlement | primary sale from payment to payout, delivery or refund; Sale is its abstract specification | SettlementSafety, SettlementProgress, DeliveryStuck | typing, backing, uniqueness, refinement, effects and records, single transfers, rewards due once, the cursor |
| 2 (done) | Checkout, CheckoutCorrectness, MCCheckout | quotes, re-quotes and usage counters against settlement | CheckoutSafety | one pending order per key, counters equal uses, bounded overrun |
| 3 (done) | Market, MarketCorrectness, MCMarket | listings, trades, escrow, transfer, payout or refund | MarketSafety, MarketProgress, EscrowStuck | backed escrow, release after transfer, one outcome, complete ledger |
| 4 (done) | Submission, OrderPage with their Correctness and MC modules | idempotency keys and the page that retries; the page that follows an order | SubmissionRetries, OrderPageFollows | stored answers, exclusion, fresh answers; one order followed, nothing shown too early |
| 5 (done) | Access, Catalogue, Referrals with their Correctness and MC modules | sessions and nonces; syncs against builders; reward worker | AccessSafety, CatalogueSync, ReferralRewards | dead sessions, single use of nonces, bounded failures; no duplicates, repair by one sync; bindings, rewards, statuses |
| 6 (left) | abstract specifications of Market (an escrow that is locked, then released or returned) and of Submission (one answer per key), as Sale is of Settlement | | the refinements |

Every module declares its parameters as CONSTANTS with named assumptions and uses
no RECURSIVE operator, so that the proofs are about the modules that TLC runs.

## 3. Modules

* **Stellar** - payments received, as a sequence: the position of a payment is
  its transaction hash and its paging token. `VerifyPayment` is what
  `verifyPayment` confirms: existence, memo, amount of the expected asset.
* **Queues** - the job of an order in a queue: absent, waiting, at a stage of its
  processor, or finished with its id retained. `Add` deduplicates, `Broken` is a
  failing or stalled processor.
* **Settlement** - the state machine. Every database transaction, HTTP exchange
  and queue operation of the code is one action of one process:
  * a *call* is one execution of `verifyAndAdvanceOrder` by a request or by a
    poll job: `Begin` (read), `Verify` (Horizon and replay guard), `Write` (the
    update inside the transaction, and the count of earlier purchases),
    `Commit` or `CommitRefused` (unique index), `ReadMissing`, `AddJob`,
    `AddReward`, then the fast path of mock game orders (`FastPathRead`,
    `FastPathPost`, `FastPathRecord`). `Locked` is the row and index wait of
    PostgreSQL;
  * a *poll job*: `PollFetch`, `PollMatch`, `PollAdvance` per match, `PollDone`;
  * the *workers*: `Payout*`, `Webhook*`, `Refund*`, one action per step between
    which the process can die;
  * failures: `CallFails`, `PollFails`, a fetch that loses records,
    `WebhookDeliveredFails`, `JobFails` (throw or stall) and `Evict` (retained
    ids). All share the bound `MaxFaults`.
* **Sale** - the promise: an order is settled only by a covering payment that
  settles no other order; payout, item and refund are released only for settled
  orders.
* **SettlementCorrectness** - properties, the inductive invariants and the
  refinement mapping: `released` is read off what has left the platform.
* **MCSettlement, SettlementProofs** - the instances, the proofs.
* **Checkout** - `createOrderQuote`, one action per statement that touches
  shared rows: `BeginFirst`, `BeginRequote`, `BeginReuse` (advisory lock and read
  of the newest PENDING order), `ReadDuplicates`, `Drop` (deletions and
  decrements), `Count` (orders PAID so far), `Price` (the best promotion), and
  the commit in `Create` or `Reuse`; `RollBack` may end it anywhere. A quote sees
  committed rows and its own writes (`Releases`), and locks the rows it has
  written (`PromoLocked`, `OrderLocked`). Around it: `Settle` and `Refund`, which
  stand for Settlement, `Toggle` (isActive, or the clock passes startsAt or
  endsAt) and `DeletePromotion`.
* **CheckoutCorrectness, MCCheckout, CheckoutProofs** - properties and inductive
  invariants, the instances, the proofs.
* **Market** - the player-to-player market, on Stellar and Queues:
  * players: `CreateListing` (after `assertOwnsItem`), and `createTradeQuote` as
    `QuoteRead` (its checks) and `QuoteWrite` (its transaction, which looks at
    nothing again);
  * a *call* is one execution of `verifyAndAdvanceP2PTrade`: `Begin`, `Verify`,
    `Write`, `AddTransfer` (the job is added inside the transaction and seen at
    once), `Commit`; `CallFails` rolls back but does not take the job away;
  * the p2p-settlement worker: `TransferStart`, then `TransferDone`,
    `TransferRefused` or `TransferAnswerLost` (the game moved the item, the worker
    never learns), then `PaySeller`, `Record`, `Notify` or `AddRefund`;
  * the trade half of the refund worker: `RefundSend`, `RefundRecord`;
  * `JobFails`, `Evict` as in Settlement; `Spend` is the game taking an item away.
* **MarketCorrectness, MCMarket, MarketProofs** - properties and the inductive
  invariant `MarketInv`, the instances, the proofs.

* **Submission** - a request under `withIdempotency`: `Lock`, `Lookup`, the
  settlement as `Verify` and `Settle`, `Store` (the unique index refuses a second
  row of a key), `Unlock`; `Throw` and `Crash` at any stage, and `Expire`, the time
  to live of the lock. `Appear` is Horizon showing a transaction. The page is
  `PageSend`, `PageReceive`, `PageLose`: an attempt has a key of its own
  (`PageKey`), and the page goes on until `Final`.
* **Access** - the tabs of one browser share a cookie and a wallet, and each has
  one request under way: `GetSession`, `Refresh`, `Principal`, `KeepMirror` when
  it reads; `DeleteMirror`, `Revoke`, `LoggedOut` when it signs out;
  `IssueChallenge`, `FindChallenge`, `Claim`, `UpsertPlayer` for a wallet;
  `NoBackoff`, `Backoff`, `Password`, `Fail`, `ClearFailures` for a password;
  `CheckTaken`, `CreateAccount` for a registration; `CreateRow`, `SetMirror`,
  `SignedIn` for the session. `Resend` sends a verification twice, `GiveUp` ends a
  request anywhere, `Tick`, `ExpireChallenge` and `Forget` are the clock, and
  `PatchUser` an administrator.
* **Catalogue** - a worker is a catalogue sync, a stock sync or a pushed list:
  `FetchRemoteItems` or `Ingest`, then `UpsertCatalogueItems`, `UpdateStock`, and
  for a catalogue sync `ReadShop`, `ReadActive`, `UpdateShop` (the layouts merged
  from what was read); `StoreKey` ends a push, `Stop` ends anything anywhere. A
  builder tab holds the layout it opened and writes all of it: `SaveDraft`,
  `Publish`, `ReadDraft`, `Promote`; `SaveItem` writes the stock that the page
  read. `Storefront` and `ItemPages` are what the shop shows.
* **OrderPage** - a round is one run of the page's effect. `ReceiveQuote` shows an
  order, connects its stream and starts its interval; `HandleEvents` and
  `Subscribe` are the stream handler's read and its listener, `Cancel` its end,
  which unsubscribes the channel all streams of the order share. `Publish` reaches
  whoever listens. `OnMessage`, `OnError`, `Reconnect`, `PollOrder`,
  `ReceiveAnswer` are the page's callbacks, `LoseAnswer` the network. `CleanUp` is
  the clean-up of the effect, before it runs again (`NextRound`) or for good
  (`Unmount`). A click (`Pay`) starts a payment also while the wallet has another
  one to `Sign` or `Decline`.
* **Referrals** - requests draw a code (`AskCode`, `CreateCode`) or bind
  (`FindCode`, `CheckUnbound`, `Bind`); settlements qualify (`ReadOrder`,
  `WriteOrder`, `CommitOrder`, `AddReward`); runs of the reward job `Take` it,
  `ReadReward`, `Disable` or `Send`, then `Record`. `RunThrows`, `RunDies`,
  `LoseLock` and `Recover` are BullMQ's failures, stalls and its limit of them.
* Each of these has a **...Correctness** module with its properties and inductive
  invariants, an **MC...** module with its instance and a **...Proofs** module with
  its theorems. Catalogue's properties add a history variable, `undisturbed`.

Abstractions to keep in mind when reading the results (Settlement):

* amounts are kept for incoming payments only; an order costs `Due[o]` (gross
  less discount). Payout and refund amounts are not modelled, so neither is the
  fact that a refund pays the gross amount back;
* the verification and the replay guard are one step: what Horizon confirms
  never becomes false, so only the moment of the guard's read matters;
* the two counts of missing records are one step;
* the update of an open transaction shows at its commit, its locks at once;
* a poller begins its next match after the fast path of the previous one,
  although the code does not await it; a second poller covers the overlap;
* one referral row per player, bound at any time, and its reward job is a flag;
* `item` counts grants up to `MaxGrants`; events to browsers are left out;
* Horizon's page limit is abstracted: a page reaches to the end of the chain;
* wallets of buyers exist; studios without a payout wallet are those outside
  `Wallets`.

In Checkout:

* an item stands for an item with a quantity and a currency. The code's lock
  covers all quantities and currencies of an item, so the model allows more
  interleavings than the code;
* a quote refused by the checks of item, studio and stock changes nothing and is
  not shown;
* `Discount[p][i]` is what `applyPromotion` computes for the type and value of
  `p`, 0 where `appliesToItemIds` or a bundle excludes the item. PATCHes of code,
  value and limit are left out: these are constants;
* the order of creation stands for `createdAt`. `Legacy` holds the orders of
  before quotes were serialised, which the code and its tests expect to find.

In Market:

* `inventory` is what the game says: the ItemOwnership rows are a mirror that no
  decision reads, and they are left out, as are amounts, fees and the delivery
  of the completion webhook (its job is added);
* the verify phase of the p2p-settlement worker is left out: no code adds such a
  job, and it compares memos of at most 28 bytes with trade ids of 36. Calls with
  any trade and any hash are there already;
* what is escrowed is known by status and hash; `escrowIn`, `payoutOut` and
  `refundOut` count the ledger entries of a trade by type;
* an item is transferred when the game says so: a 2xx answer is a moved item, any
  other answer an item that has not moved. Only a lost answer leaves the two
  apart;
* a player runs one quote at a time, a listing id is used once, every studio has
  an API base URL and every player a wallet. `CreateListing` does not exclude a
  second listing of the same item, because the code does not;
* in the instances the memos of the trades differ: ids would have to share 28
  bytes, and no unique index backs the replay guard then.

In Submission:

* a body is an order or a trade with a transaction, and its own hash; a
  settlement is a read, a check against the chain and a commit, the rest of it is
  in Settlement and Market;
* the page has one payment; `Keys` and `OtherCalls` are the other clients of the API.

In Access:

* one wallet and the tabs of one browser: sessions of other browsers meet these
  in the rows only, and a row is written by its own sign-out;
* time is in ticks, of which `Ttl` make the idle time to live;
* the per-address windows of `rateLimit` are refusals that may come at any time
  (`GiveUp`). Roles and API keys are left out.

In Catalogue:

* a layout is the count of each item in the one section the builder makes; order,
  mode, theme, featured items, filters and paging are left out;
* adding a sync job and running it are one step, as are a studio's edits of one
  row; an item has a stock and two flags, its other fields are copied with them.

In OrderPage:

* one page; the quote of round n has order n, and every second round has a coupon;
* a wallet without a trustline ends the click that would pay, and the trustline is
  added outside the model; the network takes what is signed;
* FAILED and REFUNDED are left out: nothing publishes them, and the page shows
  them as any status;
* the server's work on an order is `Advance`, the rest of it is in Settlement.

In Referrals:

* one studio with one reward in one currency, and a row's code is a pair of code
  and invitee (the code keeps eight characters of the id);
* a reward job's id is not evicted: a row qualifies once, so nothing adds it again;
* an order that was refunded may be settled again with its hash, as in Settlement;
  `MaxRefunded` bounds how many are REFUNDED at a time;
* of a settlement only the transaction that qualifies an invitation is there.

## 4. Runs

| Run | Instance | Shows |
|---|---|---|
| SettlementSafety | two orders with one memo, one request, one poller, one payment (sufficient or not), one failure or eviction anywhere | all safety properties and the refinement |
| SettlementProgress | one order, two overlapping pollers, two payments with its memo or another, one delivery attempt, fairness, no failure | `CursorCovers`, `PaymentSettles`, `ResolvedIfOneAttempt`, `PaidIsPaidOut` |
| DeliveryStuck | one order, a request and a poller, a payment, five delivery attempts, fairness, no failure | a paid order is neither delivered nor refunded, against `SPEC.md` |
| CheckoutSafety | two quotes, one player, two items, two old duplicates of one item, an automatic promotion and one with a coupon for one of the items, two new orders | `OnePending`, `UsageCounted`, `OverrunBounded`, `ReuseKeepsNewest` |
| MarketSafety | a seller, two buyers, one listing, two trades, two calls, two payments (sufficient or not), one failure or eviction anywhere | the safety properties of MarketCorrectness |
| MarketProgress | the same with fairness, no failure | `TransferEnds` |
| EscrowStuck | the same | a paid trade is neither paid out nor refunded, against `SPEC.md` |
| SubmissionRetries | two requests, two attempts of the page, one foreign key with two bodies on two routes, a payment that Horizon shows late | `AnswerIsStored`, `Exclusive`, `FreshAnswer` |
| AccessSafety | two tabs, one name, a wallet, two challenges, two sessions, mirrors of one tick, backoff from the first failure | `MirrorIsLive`, `NonceOpensOnce`, `FailuresBounded` |
| CatalogueSync | two items, two stock levels, two workers, one builder, one change, one push | `NoDuplicates`, `SyncRepairs` |
| OrderPageFollows | three rounds, one unread message, two answers under way, one payment, fairness | `FollowsQuote`, `NotAhead`, `DeliveryIsShown` |
| ReferralRewards | two players, two codes, two first orders of the invitee, two each of requests, settlements and workers, a reward of 0 or 1, one stall, one fault anywhere | `BindingsBounded`, `RewardIsLedgered`, `StatusAdvances` |

Bounds. The hazards are pairwise: two callers on one order, two orders on one
hash, two pollers on one cursor, one crash between an effect and its record. Two
of each and one failure make every such pair happen; in SettlementSafety one
payment is enough for two orders to compete, and in SettlementProgress two
payments make pages of one and two records for either poller, and a page of which
one record is of no order. `MaxGrants = 2` tells once from twice. `MaxAttempts` is
1 in SettlementSafety and SettlementProgress: it makes a refused delivery end in a
refund, and without it no refund would ever be sent. The shipped default is 5
(`packages/config/src/env.ts:41`), which DeliveryStuck has; `ResolvedIfOneAttempt`
is named for its restriction, the other properties of SettlementProgress do not
depend on it. `CHECK_DEADLOCK FALSE` appears in SettlementProgress and
DeliveryStuck, where no payment is to come and no job is left, in the Market
runs, where every trade may be over, and in OrderPageFollows, where the buyer may
have left the page: these systems really stop. `TransfersBounded` counts a stall
after a send, and a job id that its queue has forgotten, as one failure each.
In Checkout the races are between two quotes of one key (excluded by the lock),
two quotes of two keys on one promotion, and one quote with settlement; two
quotes and two items give all of them, and four orders let a promotion of one
use be used by an old order and two new ones. One player is enough because
quotes of different players meet in the promotions only, as those of different
items do. Quotes are interchangeable, hence the symmetry.
In Market two trades on one listing are the race of the buyers, two calls that of
a request with its retry on one trade or with the other trade's, and one failure
breaks a transfer at any stage. The seller owns two items, so that a second
transfer can succeed where the code makes one, and `Spend` takes items away. Calls
and buyers are interchangeable, hence the symmetry of MarketSafety; the
liveness runs use none.

In SubmissionRetries two requests are a request with its retry, or two routes
under one key, or two bodies under one key; a lock may expire over either.
In AccessSafety two tabs give every pair of a read, a sign-out, and a sign-in, two
challenges and two sessions a second one of each while the first is in use.
Tabs are interchangeable. In CatalogueSync two workers are every pair of an older
and a newer list; one change and one push make the lists differ, and the builder
overwrites both. Items, levels and workers are interchangeable. In
OrderPageFollows three rounds let a quote without a coupon arrive after one
with it and before another; one unread message, and the second of two answers under
way, are enough to be older than what the page has seen since. One payment is for
the size: the theorems are about any number, and a second order can be paid. In ReferralRewards two requests
bind one player twice, two orders qualify both bindings, two workers and one
fault break a reward between any two steps and run it again; the stall it causes
uses up `MaxStalls`.

Fairness. Weak fairness of each call, poll job and job processor, nothing else:
a started execution runs on, the worker enqueues a poll every five seconds, and
BullMQ hands waiting jobs to workers. Market is the same: each call and the
transfer and refund jobs of each trade. Buyers need not pay or submit, and no
failure is owed. `ResolvedIfOneAttempt` accepts a recorded refund although a slow call
may set the order back to PAID afterwards (see the stale-read hazard). In
OrderPageFollows the interval fires (strong fairness of `PollOrder`, which the
page can stop and start), an answer arrives or is lost (weak, `Arrives`), and of
the answers that report a delivery not all are lost (strong, `Learns`); the
stream is owed nothing: events, connections and subscriptions may fail for ever.
Its `DeliveryIsShown` begins at a poll of a delivered order with nothing older under
way (`NothingOlder`): without this it is violated, see below.

## 5. Proofs

Every safety invariant and every action property that a run checks is also a
theorem: it holds for all values of the constants, however many processes,
messages and failures there are. The one qualification is in `CursorCorrect`
below. The theorems rest on the named assumptions of the modules
alone, which TLC evaluates in every run. These say that sentinels ("no order") are
not members of the sets they are absent from, that constants have their types, and
where something is counted that the sets counted are finite: `Quotes` in Checkout,
`Tabs` in Access, `Requests` and `Workers` in Referrals. `MaxMessages` of OrderPage
is at least 1, because a stream that is open holds its snapshot; `PageKey` and
foreign keys of Submission differ because the page names its order, its transaction
and the attempt in a key (`checkout-client.tsx:307`), which no other client would.

Inductive invariants are in the ...Correctness modules, and each was checked by TLC
on the instance of its run before it was proved. The proof that a step keeps one
has a lemma per action, or per group of actions that touch the same state.

Settlement. For every number of orders, callers, payments and failures:

* `TypeCorrect`: `Spec => []TypeOK`. `TypeOK` is inductive; it includes that the
  watcher's positions never pass the end of the chain.
* `BackedCorrect`: `Spec => []SettledIsBacked`. Not inductive alone: a commit is
  safe because what the call verified earlier still covers the order
  (`VerifiedIsCovered`), because nobody else takes its hash or its order while
  its transaction is open (`WrittenIsFree`), and a worker is harmless because
  jobs and late call stages exist only for settled orders (`CallsAreSettled`,
  `JobsAreSettled`). `BackedInv` joins these parts.
* `OnePaymentCorrect`: `Spec => []OnePaymentOneOrder`, from `BackedInv` and the
  lemma that hashes change at commits only.
* `RefinementCorrect`: `Spec => RefinesSale`: initial states map to initial
  states, `Commit` to `Settle`, sends and grants to `Release`, `RefundRecord` to
  `Refund`, every other step to a stutter.
* `LedgerCorrect`, `DeliveredCorrect`, `RefundCorrect`, from `EffectsInv`. Records
  follow effects, so the invariant has to say who still owes a record: a job at
  "record" owns a transfer that no entry counts yet (`Owed`), a job at "acked" and a
  call at "record" a grant that no row shows yet, and everything behind the first
  attempt of a delivery has its delivery row (`DeliveryPrecedes`).
* `OnceCorrect`: `Spec => []TransfersBounded`. `OnceInv` has, for a job that has not
  sent, as many transfers behind it as there were failures at most, since only a
  failure makes it wait again, and one more for a job that has.
* `RewardDueCorrect`: the action property, from `BackedInv`: only a commit takes a
  referral from PENDING, and it names its own order.
* `CursorCorrect`: without failures, `CursorCovers`. `CursorInv` adds where each
  payment that a poll job has passed is: among those to be matched, among those to
  be advanced, or with the call that works on it (`PollCovers`). A failure
  breaks it, as a fetch that fails or a call that throws is not repeated. The other
  hypothesis is `MemosDistinct`: the poll matches one order per memo, and orders
  share one only if their ids share 28 bytes.

Checkout. For all players, items, promotions, old orders and concurrent quotes
(`ConstantsAssumption` asks that old orders respect the limits):

* `OnePendingCorrect` and `ReuseCorrect`, from `PendingInv`: running quotes have
  keys of their own (`KeysAreHeld`), what a quote drops or keeps is of its key
  (`DropsItsOwn`), and what it does not drop is old (`DropsTheRest`). The last
  part is what `OnePending` lacks: when `Create` adds an order, every newer
  PENDING order of the key must be among those it deletes. A coded re-quote
  deletes the newest one only, which is enough because of `OnePending` itself.
* `UsageCorrect`, `TypeCorrect`: `PendingInv` and `AllCounted`. The users after a commit are the
  users before it without the dropped orders and with the new one; the
  cardinalities of these sets are the increments and decrements, so that no counter
  falls below zero, which `TypeOK` includes.
* `OverrunCorrect`: `TakersCounted` counts the quotes that found a promotion below
  its limit and have not committed. `Price` adds one only below the limit, and a
  commit turns one into a use.

Market. For all players, listings, trades, calls, payments and failures.
`MarketIsSound` is `Spec => []MarketInv`, and the others follow from it (`TypeCorrect`
and `ReleasedCorrect` as parts of it):

* `EscrowCorrect`: what `Verify` confirmed still holds at `Commit`, because stored
  trades keep their listing and the chain only grows (`CallsAreCovered`), and the
  workers touch trades only that are escrowed already (`JobsAreEscrowed`). The
  second part is where the early `AddTransfer` matters: the guard of
  `TransferStart` alone keeps an uncommitted trade from its transfer.
* `ReleaseCorrect`: payouts never outrun transfers because a job at "pay" owns a
  transfer that no payout has used (`TransfersLead`).
* `OutcomeCorrect`: `Spec => []OneOutcome`, for any number of failures. A job that
  runs has an item, a payout or a refund still to come (`Coming`), and what has left
  the platform together with that stays within the bound (`OutcomeIsReserved`); a
  failure that starts a job again makes room for what it repeats.
* `LedgerCorrect`, `PaidForCorrect`: each failure accounts for at most one missing
  entry or unpaid item. `Books(t)` gathers these invariants for one trade, so that a step has to
  be considered for its own trade only (`BooksUntouched` for the others).

Submission. For all requests, keys, bodies, payments and attempts of the page, from
`SubmissionInv` (`SubmissionIsSound`):

* `AnswerCorrect`: whatever is answered with 200 is the row of its key. The key of a
  row is its primary key (`OneRow`), so a request that finds one reads the only
  one, and a request that stores one has settled its own body (`StagesOK`).
* `ExclusiveCorrect`: `LockIsHeld` says of a lock that did not expire over anybody
  what `Exclusive` says and that it is set; a lock that did is in `lapsed`.
* `FreshCorrect`: `AttemptIsFresh` follows the key of the page's attempt through the
  request and the row. Before the attempt nobody has used it; after it, it is past.

Access. For all tabs, sessions, challenges and clocks, from `AccessInv`
(`AccessIsSound`):

* `MirrorCorrect`: a mirror is written for a row that only the request knows which
  creates it (`NewRowIsPrivate`), and a mirror removed for a sign-out stays away until
  the row is revoked (`RevokedIsGone`): neither reads nor refreshes set what is not
  there.
* `NonceCorrect`: a used challenge has one claimant, either a request or a session
  (`ClaimsAreUsed`).
* `FailuresCorrect`: failures counted and passwords being checked are counted
  together, and `Backoff` lets no more through than there are tabs. Of `AccessInv` it
  needs the types and stages only.

Catalogue. For all items, levels, workers, pushes, builder pages and edits:

* `NoDuplicatesCorrect`, from `CatalogueInv` (`CatalogueIsSound`): `NoDuplicates` says
  nothing of what is about to be written. A worker may hold a layout that is long
  out of date, but none with a duplicate, and after its merge a section or nothing
  (`Prepared`); a page that is open has a section (`Drawn`). `MergedLayout` and
  `ReducedLayout` are the facts about the merge and the reducer.
  `MarkersAssumption` keeps the marks for "no layout" apart from sections.
* `SyncRepairsCorrect`, from `SyncInv`: how far a sync is that nothing has
  disturbed (`Syncs`). That the storefront shows all that can be bought rests on
  `MergedPlaces`: after a merge, every active item is placed, or there is no section.

OrderPage. For all rounds, messages, answers and payments:

* `FollowsCorrect`: `FollowsQuote` is inductive as it stands.
* `NotAheadCorrect`: `AheadInv` adds that the messages in the streams and the answers
  under way tell of nothing that has not happened (`Reached`), which stays so because
  statuses only advance (`NextAdvances`), and that orders beyond pending are paid.

Referrals. For all players, codes, orders, requests, settlements, workers, stalls and
failures, from `ReferralsInv` (`ReferralsAreSound`):

* `BindingsCorrect`: a request that found a code knows that it is somebody else's
  (`RequestOK`), and each request under way can bind once more.
* `RewardCorrect`: the transfers for an invitation and the runs that may still make
  one (`Paying`) are no more than the times its job was handed out (`JobsOK`); what a
  run is about to record is among what was sent (`RunOK`).
* `StatusCorrect`: the action property; a settlement writes to an invitation of its
  own buyer (`CallOK`), a run to one that is qualified.

Model-checked only: the liveness properties `PaymentSettles`, `ResolvedIfOneAttempt`,
`PaidIsPaidOut`, `TransferEnds` and `DeliveryIsShown` (liveness under fairness is out
of the prover's reach), and the violations in EscrowStuck and DeliveryStuck.

## 6. Where the code and its documents disagree

EscrowStuck and DeliveryStuck are the findings in `PROJECT.json`.

DeliveryStuck needs no failure but the game's refusal of a first delivery: the worker
stores FAILED with a next attempt and throws (`webhook-delivery.ts:166`), the job has
a single attempt and its id is retained, nothing reads the next attempt, and a refund
is due at the fifth only. `SPEC.md:269` promises "exponential backoff (e.g. 5
attempts)", and a refund after it (`SPEC.md:245`). With one attempt the promise
holds, which is what `ResolvedIfOneAttempt` says.

EscrowStuck needs no failure: a worker takes
the transfer job between `AddTransfer` and `Commit`, finds the trade unpaid, and
the job fails for good. `TransferEnds` shows that a transfer job still waiting when
the trade is PAID does end; `ReleasedIsEscrowed` that the early job never releases
anything.

The models contain these as well, and the properties are stated so that they hold
with them. None makes a payment count for two orders.

* Two callers can both commit one order (`Commit` by id), and each commit adds a
  SALE_IN entry; the comment at `settlement.ts:76` says "inherently once-per-order".
* The fast path and the worker can both post a purchase to the game;
  `docs/features.md:32` speaks of "avoiding duplicate deliveries".
* A payout job that stalls after its send sends again; `SPEC.md:275` says "retries
  can't double-pay". `LedgerIsOnChain` and `LedgerIsComplete` say what the
  records show then. The reward job is the same: "a retry/replay never
  double-pays" (`docs/superpowers/plans/2026-06-23-phase-5-growth.md:15`), and
  `RewardIsLedgered` bounds it by the stalls.
* Quotes of different players or items exceed a usage limit together;
  `SPEC.md:259` says to respect it. `OverrunBounded` says by how much.
* Two binds of a player at once give him two referrers' rows, against "cannot
  rebind" (line 23 of the same plan), and two requests for a code give a player
  two, against "one code per referrer" (`docs/features.md:161`). The `xgf_ref`
  cookie that `bind/route.ts:22` reads is set nowhere, and no page calls the route.
* A studio that sets its reward to 0 between two runs of a job overwrites the
  amount of a reward that was paid and recorded; `docs/features.md:22` means no
  entry to exist then.
* `withIdempotency` is there so that "retries never double-charge"
  (`SPEC.md:325`), but each attempt of the page has a key of its own, so that no retry
  is ever recognised; `FreshAnswer` shows what that is good for.
* The cookie's Max-Age is set at sign-in and never again, so that the "sliding"
  session of `docs/features.md:232` ends in the browser at its first idle time;
  `Tick` has this.
* The builder promotes the draft whatever the answer to the PUT before it was
  (`ShopBuilder.tsx:81`): a publish may publish what was saved earlier.
* The retry and test routes queue jobs with the id of a delivery row, which the
  processor does not read, although `README.md:68` offers both. The settings page
  sends its whole form, which rotates the webhook secret at every save.
* The buy page of the market never submits its trade (`buy-client.tsx:157`), and no
  code makes a listing active again after a refund (`SPEC.md:251`).

The checkout page has these, of `checkout-client.tsx`. No document has a promise about
the first four; the models contain all of them:

* A quote that is late replaces a newer one (208): the page shows, follows and pays the
  older order, without its coupon. `FollowsQuote` says that it follows nothing else.
* An answer that is late puts back what it says (170 and 321), also of another order.
  If the poll has learned of the delivery by then (174) and the stream has ended (139),
  the page shows PENDING for ever. `docs/features.md:76` describes "the checkout UI
  showing pending even though the Stellar payment succeeded" as repaired by
  `submitPayment`; `DeliveryIsShown` has the hypothesis `NothingOlder` for this.
* The delivered answer about an older order ends the poll of a newer quote (174), and a
  quote that fails leaves the order of the one before on display, which nothing follows
  any more.
* A quote that answers after the buyer has left opens a stream and an interval (222)
  that no clean-up ends: `ReceiveQuote` after `Unmount`.
* The button stays enabled while the wallet signs (343): two clicks are two payments of
  one order, and only one settles it.

Hazards of `PROJECT.json` that no property covers, because they happen and no document
forbids them or it is among the above: PAID over REFUNDED (`settlement.ts:24`), a death
between commit and jobs (`settlement.ts:115`), two posts of one purchase
(`webhook-delivery.ts:76`), a granted order that is refunded because recording the 2xx
failed (`:132`), a transaction that Horizon fails to return (`stellar-watcher.ts:54`),
an order that is PAID before the quote deletes it (`checkout-queries.ts:76`), the late
answers and the poll that ends with another order's delivery, a reward set to 0, and
two first purchases that qualify two bindings of one player (`settlement.ts:78`),
although a reward is for a referred player's first purchase (`docs/features.md:155`).
Lesser ones that are in the models and have no property of their own: the
first-purchase count and the stock that a quote compares (`checkout-queries.ts:129`,
`:52`), and a refund that consults no status (`refund.ts:26`).

## 7. Not modelled

* Money and fees: decimal arithmetic without state, on which no modelled
  decision depends.
* Webhook settings, retry and test: single-row writes that nothing modelled
  reads, and jobs that fail at once (see above).
* The verify phase of the p2p-settlement worker: no code adds such a job.
* Pure helpers (signing, address filtering, reporting queries, log writes), DTOs
  and input schemas: no state.
* The market pages: any sequence of calls they make is one that Market's players
  make. They keep no state that a later call depends on.
* The other pages: tables, forms and filters over one request each.
* Database schema and migrations, deployment and configuration: not programs;
  unique indexes, defaults and environment values appear in the actions and
  CONSTANTS that meet them.

----------------------------- MODULE CatalogueProofs -----------------------------
(***************************************************************************)
(* No layout places an item twice, and a sync that runs alone repairs what *)
(* the catalogue and the shop have come to: for any items, stock levels,   *)
(* jobs, pushes, builder pages and edits.                                  *)
(***************************************************************************)
EXTENDS CatalogueCorrectness, SequenceTheorems, TLAPS

--------------------------------------------------------------------------------
(* Layouts                                                                 *)

(* A section that places nothing, what a new section is.                   *)
LEMMA EmptySection == Empty \in Section /\ AtMostOnce(Empty)
  BY DEF Empty, Section, AtMostOnce

(* No marker places an item.                                               *)
LEMMA MarkersPlaceNothing ==
  AtMostOnce(NoSections) /\ AtMostOnce(NoDraft) /\ AtMostOnce(None)
  BY MarkersAssumption DEF AtMostOnce

(* A merge gives a section, or nothing, and places no item again.          *)
LEMMA MergedLayout ==
  ASSUME NEW layout, NEW active, AtMostOnce(layout)
  PROVE  /\ MergeNewItems(layout, active) \in Section \cup {None}
         /\ AtMostOnce(MergeNewItems(layout, active))
  <1>1. CASE layout \notin Section \/ \A i \in active : layout[i] > 0
    BY <1>1, MarkersPlaceNothing DEF MergeNewItems
  <1>2. CASE layout \in Section /\ ~\A i \in active : layout[i] > 0
    <2>1. PICK m : m = [i \in Items |-> IF i \in active /\ layout[i] = 0 THEN 1 ELSE layout[i]]
      OBVIOUS
    <2>2. MergeNewItems(layout, active) = m
      BY <1>2, <2>1 DEF MergeNewItems
    <2>3. ASSUME NEW i \in Items PROVE m[i] \in Nat /\ m[i] <= 1
      BY <1>2, <2>1 DEF Section, AtMostOnce
    <2>4. m \in Section
      BY <2>1, <2>3 DEF Section
    <2> QED
      BY <2>2, <2>3, <2>4 DEF AtMostOnce
  <1> QED
    BY <1>1, <1>2

(* A merge that gives nothing found nothing missing; one that gives a      *)
(* section places every active item.                                       *)
LEMMA MergedPlaces ==
  ASSUME NEW layout \in Layout, NEW active \in SUBSET Items
  PROVE  LET merged == MergeNewItems(layout, active)
             written == IF merged = None THEN layout ELSE merged
         IN  written = NoSections \/ \A i \in active : written[i] > 0
  <1> DEFINE merged == MergeNewItems(layout, active)
             written == IF merged = None THEN layout ELSE merged
  <1>1. CASE layout \notin Section
    BY <1>1 DEF MergeNewItems, Layout
  <1>2. CASE layout \in Section /\ \A i \in active : layout[i] > 0
    BY <1>2 DEF MergeNewItems
  <1>3. CASE layout \in Section /\ ~\A i \in active : layout[i] > 0
    <2>1. PICK m : m = [i \in Items |-> IF i \in active /\ layout[i] = 0 THEN 1 ELSE layout[i]]
      OBVIOUS
    <2>2. merged = m
      BY <1>3, <2>1 DEF MergeNewItems
    <2>3. ASSUME NEW i \in Items PROVE m[i] \in Nat /\ (i \in active => m[i] > 0)
      BY <1>3, <2>1 DEF Section
    <2>4. m \in Section
      BY <2>1, <2>3 DEF Section
    <2>5. m # None
      BY <2>4, MarkersAssumption
    <2> QED
      BY <2>2, <2>3, <2>5
  <1> QED
    BY <1>1, <1>2, <1>3

(* The reducer places once, and displaces.                                 *)
LEMMA ReducedLayout ==
  ASSUME NEW layout \in Section, AtMostOnce(layout), NEW i \in Items
  PROVE  /\ Place(layout, i) \in Section /\ AtMostOnce(Place(layout, i))
         /\ Displace(layout, i) \in Section /\ AtMostOnce(Displace(layout, i))
  BY DEF Section, AtMostOnce, Place, Displace

(* A builder page begins with a section.                                   *)
LEMMA EnsuredSection ==
  ASSUME NEW layout \in Layout, AtMostOnce(layout)
  PROVE  EnsureSection(layout) \in Section /\ AtMostOnce(EnsureSection(layout))
  BY EmptySection DEF EnsureSection, Layout

--------------------------------------------------------------------------------
(* Frames                                                                  *)

(* What is written down outside workers and tabs.                          *)
TablesOK ==
  /\ game \in List /\ row \in [Items -> Row] /\ shop \in Shop
  /\ pushes \in Seq(List) /\ Len(pushes) <= MaxPushes
  /\ stored \subseteq DOMAIN pushes
  /\ edits \in 0..MaxEdits /\ undisturbed \in BOOLEAN
  /\ AtMostOnce(shop.layout) /\ AtMostOnce(shop.draftLayout)

(* A worker, and a builder page, as the invariant has them.                *)
WorkerOK(x) == x \in Worker /\ x.key \in {0} \cup DOMAIN pushes /\ Prepared(x)

TabOK(x) == x \in Tab /\ AtMostOnce(x.layout) /\ AtMostOnce(x.read) /\ Drawn(x)

LEMMA InvParts ==
  CatalogueInv <=> /\ TablesOK
                   /\ worker \in [Workers -> Worker]
                   /\ \A w \in Workers : WorkerOK(worker[w])
                   /\ tab \in [Tabs -> Tab]
                   /\ \A t \in Tabs : TabOK(tab[t])
  BY DEF CatalogueInv, NoDuplicates, TypeOK, TablesOK, WorkerOK, TabOK

(* A step of one worker, at most.                                          *)
LEMMA WorkerFrame ==
  ASSUME CatalogueInv, TablesOK', UNCHANGED <<pushes, tab>>,
         NEW w \in Workers, NEW x, WorkerOK(x), worker' = [worker EXCEPT ![w] = x]
  PROVE  CatalogueInv'
  <1>1. /\ worker \in [Workers -> Worker] /\ \A v \in Workers : WorkerOK(worker[v])
        /\ tab \in [Tabs -> Tab] /\ \A t \in Tabs : TabOK(tab[t])
    BY InvParts
  <1>2. \A v \in Workers : worker'[v] = IF v = w THEN x ELSE worker[v]
    BY <1>1
  <1>3. \A v \in Workers : WorkerOK(worker'[v])
    BY <1>1, <1>2
  <1>4. worker' \in [Workers -> Worker]
    BY <1>1, <1>3 DEF WorkerOK
  <1>5. (\A v \in Workers : WorkerOK(worker[v]))'
    BY <1>3 DEF WorkerOK, Prepared
  <1>6. (\A t \in Tabs : TabOK(tab[t]))'
    BY <1>1 DEF TabOK
  <1> QED
    BY <1>1, <1>4, <1>5, <1>6
       DEF CatalogueInv, NoDuplicates, TypeOK, TablesOK, WorkerOK, TabOK

(* A step of one builder page, at most.                                    *)
LEMMA TabFrame ==
  ASSUME CatalogueInv, TablesOK', UNCHANGED <<pushes, worker>>,
         NEW t \in Tabs, NEW x, TabOK(x), tab' = [tab EXCEPT ![t] = x]
  PROVE  CatalogueInv'
  <1>1. /\ worker \in [Workers -> Worker] /\ \A v \in Workers : WorkerOK(worker[v])
        /\ tab \in [Tabs -> Tab] /\ \A v \in Tabs : TabOK(tab[v])
    BY InvParts
  <1>2. \A v \in Tabs : tab'[v] = IF v = t THEN x ELSE tab[v]
    BY <1>1
  <1>3. \A v \in Tabs : TabOK(tab'[v])
    BY <1>1, <1>2
  <1>4. tab' \in [Tabs -> Tab]
    BY <1>1, <1>3 DEF TabOK
  <1>5. (\A v \in Workers : WorkerOK(worker[v]))'
    BY <1>1 DEF WorkerOK, Prepared
  <1>6. (\A v \in Tabs : TabOK(tab[v]))'
    BY <1>3 DEF TabOK
  <1> QED
    BY <1>1, <1>4, <1>5, <1>6
       DEF CatalogueInv, NoDuplicates, TypeOK, TablesOK, WorkerOK, TabOK

--------------------------------------------------------------------------------
(* Jobs and the ingest route                                               *)

(* What each component of the state is.                                    *)
LEMMA Typed ==
  ASSUME CatalogueInv
  PROVE  /\ TablesOK
         /\ \A w \in Workers : worker[w] \in Worker /\ WorkerOK(worker[w])
         /\ \A t \in Tabs : tab[t] \in Tab /\ TabOK(tab[t])
         /\ worker \in [Workers -> Worker] /\ tab \in [Tabs -> Tab]
  BY InvParts

(* The history variable is a Boolean.                                      *)
LEMMA WatchType == Watch => undisturbed' \in BOOLEAN
  BY DEF Watch

(* The tables, when a step leaves them alone.                              *)
LEMMA TablesKept ==
  ASSUME CatalogueInv, UNCHANGED <<game, row, shop, pushes, stored, edits>>,
         undisturbed' \in BOOLEAN
  PROVE  TablesOK'
  BY Typed DEF TablesOK

(* A worker that is idle has nothing prepared.                             *)
LEMMA IdleOK ==
  ASSUME CatalogueInv
  PROVE  WorkerOK(Idle)
  <1>1. NoItems \in List /\ <<NoSections, NoDraft>> \in Layout \X (Layout \cup {NoDraft})
    BY DEF NoItems, List, Layout
  <1>2. Idle \in Worker
    BY <1>1 DEF Idle, Worker
  <1>3. \A k \in 1..2 : AtMostOnce(Idle.shop[k])
    BY MarkersPlaceNothing DEF Idle
  <1> QED
    BY <1>2, <1>3 DEF WorkerOK, Prepared, Idle

(* A worker that finishes leaves what it has written.                      *)
LEMMA FinishKeeps ==
  ASSUME CatalogueInv, TablesOK', UNCHANGED <<pushes, tab>>, NEW w \in Workers, Finish(w)
  PROVE  CatalogueInv'
  BY IdleOK, WorkerFrame DEF Finish

(* Beginning a job, or a request.                                          *)
LEMMA BeginKeeps ==
  ASSUME CatalogueInv, undisturbed' \in BOOLEAN, NEW w \in Workers,
         SyncCatalogue(w) \/ SyncStock(w) \/ Ingest(w)
  PROVE  CatalogueInv'
  <1>1. /\ UNCHANGED <<game, row, shop, pushes, stored, edits, tab>>
        /\ worker[w].at = "idle"
    BY DEF SyncCatalogue, SyncStock, Ingest, FetchRemoteItems
  <1>2. TablesOK'
    BY <1>1, TablesKept
  <1>3. CASE \E kind \in {"catalogue", "stock"} : FetchRemoteItems(w, kind)
    <2>1. PICK kind \in {"catalogue", "stock"} : FetchRemoteItems(w, kind)
      BY <1>3
    <2>2. PICK x : x = [worker[w] EXCEPT !.kind = kind, !.list = game,
                          !.at = IF kind = "stock" THEN "update" ELSE "upsert"]
      OBVIOUS
    <2>3. worker' = [worker EXCEPT ![w] = x]
      BY <2>1, <2>2, Typed DEF FetchRemoteItems, Worker
    <2>4. WorkerOK(x)
      <3>1. game \in List /\ worker[w] \in Worker /\ WorkerOK(worker[w])
        BY Typed DEF TablesOK
      <3>2. x \in Worker /\ x.shop = worker[w].shop /\ x.key = worker[w].key
            /\ x.kind = kind /\ x.at \in {"update", "upsert"}
        BY <2>2, <3>1 DEF Worker
      <3> QED
        BY <3>1, <3>2 DEF WorkerOK, Prepared
    <2> QED
      BY <1>1, <1>2, <2>3, <2>4, WorkerFrame
  <1>4. CASE Ingest(w)
    <2>1. PICK key \in DOMAIN pushes \ stored :
            worker' = [worker EXCEPT ![w] = [Idle EXCEPT !.kind = "push", !.at = "upsert",
                                                         !.key = key, !.list = pushes[key]]]
      BY <1>4 DEF Ingest
    <2>2. PICK x : x = [Idle EXCEPT !.kind = "push", !.at = "upsert",
                                    !.key = key, !.list = pushes[key]]
      OBVIOUS
    <2>3. WorkerOK(x)
      <3>1. pushes \in Seq(List) /\ WorkerOK(Idle)
        BY Typed, IdleOK DEF TablesOK
      <3>2. pushes[key] \in List /\ key \in Nat
        BY <3>1
      <3>3. Idle \in Worker
        BY <3>1 DEF WorkerOK
      <3>4. x \in Worker /\ x.shop = Idle.shop /\ x.key = key
            /\ x.kind = "push" /\ x.at = "upsert"
        BY <2>2, <3>2, <3>3 DEF Worker
      <3> QED
        BY <3>1, <3>4 DEF WorkerOK, Prepared
    <2> QED
      BY <1>1, <1>2, <2>1, <2>2, <2>3, WorkerFrame
  <1> QED
    BY <1>3, <1>4 DEF SyncCatalogue, SyncStock

(* Writing the items keeps the rows, whatever list they are written from.  *)
LEMMA UpsertKeeps ==
  ASSUME CatalogueInv, undisturbed' \in BOOLEAN, NEW w \in Workers, UpsertCatalogueItems(w)
  PROVE  CatalogueInv'
  <1> DEFINE list == worker[w].list
  <1>1. /\ UNCHANGED <<game, shop, pushes, stored, edits, tab>>
        /\ worker[w] \in Worker /\ WorkerOK(worker[w]) /\ TablesOK
        /\ worker \in [Workers -> Worker]
    BY Typed DEF UpsertCatalogueItems
  <1>2. ASSUME NEW i \in Items PROVE row'[i] \in Row
    <2>1. row[i] \in Row /\ list[i] \in Levels \cup {None}
      BY <1>1 DEF TablesOK, Worker, List
    <2> QED
      BY <2>1 DEF UpsertCatalogueItems, Row
  <1>3. row' \in [Items -> Row]
    BY <1>2 DEF UpsertCatalogueItems
  <1>4. TablesOK'
    BY <1>1, <1>3 DEF TablesOK
  <1>5. PICK x : x = [worker[w] EXCEPT !.list = NoItems,
                        !.at = IF worker[w].kind = "push" THEN "store" ELSE "shop"]
    OBVIOUS
  <1>6. worker' = [worker EXCEPT ![w] = x]
    BY <1>1, <1>5 DEF UpsertCatalogueItems, Worker
  <1>7. NoItems \in List
    BY DEF NoItems, List
  <1>8. /\ x \in Worker /\ x.shop = worker[w].shop /\ x.key = worker[w].key
        /\ x.kind = worker[w].kind
        /\ x.at = IF worker[w].kind = "push" THEN "store" ELSE "shop"
    BY <1>1, <1>5, <1>7 DEF Worker
  <1>9. WorkerOK(x)
    BY <1>1, <1>8 DEF WorkerOK, Prepared
  <1> QED
    BY <1>1, <1>4, <1>6, <1>9, WorkerFrame

(* A key is stored by the request that has it.                             *)
LEMMA StoreKeeps ==
  ASSUME CatalogueInv, undisturbed' \in BOOLEAN, NEW w \in Workers, StoreKey(w)
  PROVE  CatalogueInv'
  <1>1. TablesOK'
    BY Typed DEF StoreKey, TablesOK, WorkerOK, Prepared
  <1> QED
    BY <1>1, FinishKeeps DEF StoreKey

LEMMA UpdateStockKeeps ==
  ASSUME CatalogueInv, undisturbed' \in BOOLEAN, NEW w \in Workers, UpdateStock(w)
  PROVE  CatalogueInv'
  <1> DEFINE list == worker[w].list
  <1>1. /\ UNCHANGED <<game, shop, pushes, stored, edits, tab>>
        /\ worker[w] \in Worker /\ TablesOK
    BY Typed DEF UpdateStock
  <1>2. ASSUME NEW i \in Items PROVE row'[i] \in Row
    <2>1. row[i] \in Row /\ list[i] \in Levels \cup {None}
      BY <1>1 DEF TablesOK, Worker, List
    <2> QED
      BY <2>1 DEF UpdateStock, Row
  <1>3. row' \in [Items -> Row]
    BY <1>2 DEF UpdateStock
  <1>4. TablesOK'
    BY <1>1, <1>3 DEF TablesOK
  <1> QED
    BY <1>1, <1>4, FinishKeeps DEF UpdateStock

(* What is read of the shop, and merged with the active items.             *)
LEMMA ReadKeeps ==
  ASSUME CatalogueInv, undisturbed' \in BOOLEAN, NEW w \in Workers,
         ReadShop(w) \/ ReadActive(w)
  PROVE  CatalogueInv'
  <1>1. /\ UNCHANGED <<game, row, shop, pushes, stored, edits, tab>>
        /\ worker[w] \in Worker /\ WorkerOK(worker[w]) /\ TablesOK
        /\ worker \in [Workers -> Worker]
    BY Typed DEF ReadShop, ReadActive
  <1>2. TablesOK'
    BY <1>1, TablesKept
  <1>3. CASE ReadShop(w)
    <2>1. PICK p : p = <<shop.layout, shop.draftLayout>>
      OBVIOUS
    <2>2. shop.layout \in Layout /\ shop.draftLayout \in Layout \cup {NoDraft}
      BY <1>1 DEF TablesOK, Shop
    <2>3. /\ p \in (Layout \cup {NoDraft, None}) \X (Layout \cup {NoDraft, None})
          /\ \A k \in 1..2 : AtMostOnce(p[k])
      BY <1>1, <2>1, <2>2 DEF TablesOK
    <2>4. PICK x : x = [worker[w] EXCEPT !.shop = p, !.at = "active"]
      OBVIOUS
    <2>5. worker' = [worker EXCEPT ![w] = x]
      BY <1>1, <1>3, <2>1, <2>4 DEF ReadShop, Worker
    <2>6. x \in Worker /\ x.shop = p /\ x.key = worker[w].key /\ x.at = "active"
          /\ x.kind = worker[w].kind
      BY <1>1, <2>3, <2>4 DEF Worker
    <2>7. WorkerOK(x)
      BY <1>1, <2>3, <2>6 DEF WorkerOK, Prepared
    <2> QED
      BY <1>1, <1>2, <2>5, <2>7, WorkerFrame
  <1>4. CASE ReadActive(w)
    <2>1. PICK p : p = [k \in 1..2 |-> MergeNewItems(worker[w].shop[k], Active)]
      OBVIOUS
    <2>2. ASSUME NEW k \in 1..2
          PROVE  p[k] \in Section \cup {None} /\ AtMostOnce(p[k])
      <3>1. p[k] = MergeNewItems(worker[w].shop[k], Active)
        BY <2>1
      <3>2. AtMostOnce(worker[w].shop[k])
        BY <1>1 DEF WorkerOK, Prepared
      <3> QED
        BY <3>1, <3>2, MergedLayout
    <2>3. p \in (Layout \cup {NoDraft, None}) \X (Layout \cup {NoDraft, None})
      <3>1. p = <<p[1], p[2]>>
        BY <2>1
      <3>2. p[1] \in Layout \cup {NoDraft, None} /\ p[2] \in Layout \cup {NoDraft, None}
        BY <2>2 DEF Layout
      <3> QED
        BY <3>1, <3>2
    <2>4. PICK x : x = [worker[w] EXCEPT !.shop = p, !.at = "merge"]
      OBVIOUS
    <2>5. worker' = [worker EXCEPT ![w] = x]
      BY <1>1, <1>4, <2>1, <2>4 DEF ReadActive, Worker
    <2>6. x \in Worker /\ x.shop = p /\ x.key = worker[w].key /\ x.at = "merge"
          /\ x.kind = worker[w].kind
      BY <1>1, <2>3, <2>4 DEF Worker
    <2>7. WorkerOK(x)
      BY <1>1, <2>2, <2>6 DEF WorkerOK, Prepared
    <2> QED
      BY <1>1, <1>2, <2>5, <2>7, WorkerFrame
  <1> QED
    BY <1>3, <1>4

(* What was merged places nothing twice, so it may be written over what    *)
(* the columns hold by now.                                                *)
LEMMA UpdateShopKeeps ==
  ASSUME CatalogueInv, undisturbed' \in BOOLEAN, NEW w \in Workers, UpdateShop(w)
  PROVE  CatalogueInv'
  <1>1. /\ UNCHANGED <<game, row, pushes, stored, edits, tab>>
        /\ worker[w].at = "merge" /\ WorkerOK(worker[w]) /\ TablesOK
    BY Typed DEF UpdateShop
  <1>2. ASSUME NEW k \in 1..2
        PROVE  /\ worker[w].shop[k] \in Section \cup {None}
               /\ AtMostOnce(worker[w].shop[k])
    BY <1>1 DEF WorkerOK, Prepared
  <1>3. PICK layout, draft : layout = worker[w].shop[1] /\ draft = worker[w].shop[2]
    OBVIOUS
  <1>4. /\ layout \in Section \cup {None} /\ AtMostOnce(layout)
        /\ draft \in Section \cup {None} /\ AtMostOnce(draft)
    BY <1>2, <1>3
  <1>5. shop' = [shop EXCEPT !.layout = IF layout = None THEN @ ELSE layout,
                             !.draftLayout = IF draft = None THEN @ ELSE draft]
    BY <1>3 DEF UpdateShop
  <1>6. /\ shop' \in Shop
        /\ AtMostOnce(shop'.layout) /\ AtMostOnce(shop'.draftLayout)
    <2>1. shop \in Shop /\ AtMostOnce(shop.layout) /\ AtMostOnce(shop.draftLayout)
      BY <1>1 DEF TablesOK
    <2>2. /\ shop'.layout = IF layout = None THEN shop.layout ELSE layout
          /\ shop'.draftLayout = IF draft = None THEN shop.draftLayout ELSE draft
          /\ shop' \in Shop
      BY <1>4, <1>5, <2>1 DEF Shop, Layout
    <2> QED
      BY <1>4, <2>1, <2>2
  <1>7. TablesOK'
    BY <1>1, <1>6 DEF TablesOK, AtMostOnce
  <1> QED
    BY <1>1, <1>7, FinishKeeps DEF UpdateShop

LEMMA StopKeeps ==
  ASSUME CatalogueInv, undisturbed' \in BOOLEAN, NEW w \in Workers, Stop(w)
  PROVE  CatalogueInv'
  BY TablesKept, FinishKeeps DEF Stop

(* What the game does meanwhile.                                           *)
LEMMA GameKeeps ==
  ASSUME CatalogueInv, undisturbed' \in BOOLEAN, GameChanges \/ Push
  PROVE  CatalogueInv'
  <1>1. /\ UNCHANGED <<row, shop, stored, worker, tab>> /\ TablesOK
        /\ \A w \in Workers : WorkerOK(worker[w]) /\ worker[w] \in Worker
        /\ \A t \in Tabs : TabOK(tab[t])
        /\ worker \in [Workers -> Worker] /\ tab \in [Tabs -> Tab]
    BY Typed DEF GameChanges, Push
  <1>2. /\ TablesOK' /\ DOMAIN pushes \subseteq DOMAIN pushes'
    <2>1. CASE GameChanges
      BY <1>1, <2>1, CatalogueAssumption
         DEF GameChanges, Edit, TablesOK, List, CatalogueAssumption
    <2>2. CASE Push
      <3>1. /\ pushes' \in Seq(List) /\ Len(pushes') = Len(pushes) + 1
            /\ Len(pushes) \in Nat /\ UNCHANGED <<game, edits>>
            /\ DOMAIN pushes = 1..Len(pushes) /\ DOMAIN pushes' = 1..Len(pushes')
            /\ Len(pushes) < MaxPushes /\ MaxPushes \in Nat
        BY <1>1, <2>2, CatalogueAssumption DEF Push, TablesOK, CatalogueAssumption
      <3>2. DOMAIN pushes \subseteq DOMAIN pushes' /\ Len(pushes') <= MaxPushes
        BY <3>1
      <3> QED
        BY <1>1, <3>1, <3>2 DEF TablesOK
    <2> QED
      BY <2>1, <2>2
  <1>3. (\A w \in Workers : WorkerOK(worker[w]))'
    BY <1>1, <1>2 DEF WorkerOK, Prepared
  <1> QED
    BY <1>1, <1>2, <1>3
       DEF CatalogueInv, NoDuplicates, TypeOK, TablesOK, WorkerOK, TabOK

--------------------------------------------------------------------------------
(* The builder page                                                        *)

(* A page opens with the draft, or else the layout, and closes.            *)
LEMMA OpenKeeps ==
  ASSUME CatalogueInv, undisturbed' \in BOOLEAN, NEW t \in Tabs,
         OpenBuilder(t) \/ CloseBuilder(t)
  PROVE  CatalogueInv'
  <1>1. /\ UNCHANGED <<game, row, shop, pushes, stored, worker, edits>> /\ TablesOK
    BY Typed DEF OpenBuilder, CloseBuilder
  <1>2. TablesOK'
    BY <1>1, TablesKept
  <1>3. Closed \in Tab /\ TabOK(Closed)
    BY MarkersPlaceNothing DEF Closed, Tab, Layout, TabOK, Drawn
  <1>4. CASE CloseBuilder(t)
    BY <1>1, <1>2, <1>3, <1>4, TabFrame DEF CloseBuilder
  <1>5. CASE OpenBuilder(t)
    <2>1. PICK layout : layout = IF shop.draftLayout = NoDraft THEN shop.layout
                                 ELSE shop.draftLayout
      OBVIOUS
    <2>2. layout \in Layout /\ AtMostOnce(layout)
      BY <1>1, <2>1 DEF TablesOK, Shop
    <2>3. PICK x : x = [Closed EXCEPT !.at = "edit", !.layout = EnsureSection(layout)]
      OBVIOUS
    <2>4. tab' = [tab EXCEPT ![t] = x]
      BY <1>5, <2>1, <2>3 DEF OpenBuilder
    <2>5. EnsureSection(layout) \in Section /\ AtMostOnce(EnsureSection(layout))
      BY <2>2, EnsuredSection
    <2>6. /\ x \in Tab /\ x.layout = EnsureSection(layout) /\ x.read = Closed.read
      BY <1>3, <2>3, <2>5 DEF Tab, Layout
    <2>7. TabOK(x)
      BY <1>3, <2>5, <2>6 DEF TabOK, Drawn
    <2> QED
      BY <1>1, <1>2, <2>4, <2>7, TabFrame
  <1> QED
    BY <1>4, <1>5

(* Placing and removing keep the section of the page.                      *)
LEMMA EditKeeps ==
  ASSUME CatalogueInv, undisturbed' \in BOOLEAN, NEW t \in Tabs,
         AddItem(t) \/ RemoveItem(t)
  PROVE  CatalogueInv'
  <1>1. /\ UNCHANGED <<game, row, shop, pushes, stored, worker>> /\ Edit
        /\ TablesOK /\ tab[t] \in Tab /\ TabOK(tab[t]) /\ tab \in [Tabs -> Tab]
    BY Typed DEF AddItem, RemoveItem
  <1>2. TablesOK'
    BY <1>1, CatalogueAssumption DEF TablesOK, Edit, CatalogueAssumption
  <1>3. PICK i \in OnPage(t) :
          \/ tab' = [tab EXCEPT ![t].layout = Place(@, i)]
          \/ tab' = [tab EXCEPT ![t].layout = Displace(@, i)]
    BY DEF AddItem, RemoveItem
  <1>4. PICK layout \in {Place(tab[t].layout, i), Displace(tab[t].layout, i)} :
          tab' = [tab EXCEPT ![t].layout = layout]
    BY <1>1, <1>3
  <1>5. i \in Items /\ tab[t].at = "edit"
    BY DEF OnPage, Known
  <1>6. tab[t].layout \in Section /\ AtMostOnce(tab[t].layout)
    BY <1>1, <1>5 DEF TabOK, Drawn
  <1>7. layout \in Section /\ AtMostOnce(layout)
    BY <1>5, <1>6, ReducedLayout
  <1>8. PICK x : x = [tab[t] EXCEPT !.layout = layout]
    OBVIOUS
  <1>9. tab' = [tab EXCEPT ![t] = x]
    BY <1>1, <1>4, <1>8
  <1>10. x \in Tab /\ x.layout = layout /\ x.read = tab[t].read
    BY <1>1, <1>7, <1>8 DEF Tab, Layout
  <1>11. TabOK(x)
    BY <1>1, <1>7, <1>10 DEF TabOK, Drawn
  <1> QED
    BY <1>1, <1>2, <1>9, <1>11, TabFrame

(* The fields of an item are written whole.                                *)
LEMMA SaveItemKeeps ==
  ASSUME CatalogueInv, undisturbed' \in BOOLEAN, NEW t \in Tabs, SaveItem(t)
  PROVE  CatalogueInv'
  <1>1. /\ UNCHANGED <<game, shop, pushes, stored, worker, tab>> /\ Edit
        /\ TablesOK /\ TabOK(tab[t]) /\ tab \in [Tabs -> Tab]
    BY Typed DEF SaveItem
  <1>2. PICK i \in OnPage(t), stock \in Levels, isListed \in BOOLEAN :
          row' = [row EXCEPT ![i].stock = stock, ![i].isListed = isListed]
    BY DEF SaveItem, PatchItem
  <1>3. row \in [Items -> Row]
    BY <1>1 DEF TablesOK
  <1>4. row' \in [Items -> Row]
    BY <1>2, <1>3 DEF Row
  <1>5. TablesOK'
    BY <1>1, <1>4, CatalogueAssumption DEF TablesOK, Edit, CatalogueAssumption
  <1>6. tab' = [tab EXCEPT ![t] = tab[t]]
    BY <1>1
  <1> QED
    BY <1>1, <1>5, <1>6, TabFrame

(* The draft is written from the page ...                                  *)
LEMMA DraftKeeps ==
  ASSUME CatalogueInv, undisturbed' \in BOOLEAN, NEW t \in Tabs, SaveDraft(t) \/ Publish(t)
  PROVE  CatalogueInv'
  <1>0. /\ TablesOK /\ tab[t] \in Tab /\ TabOK(tab[t]) /\ tab \in [Tabs -> Tab]
    BY Typed
  <1>1. PICK next \in {"edit", "publish"} :
          /\ tab[t].at = "edit" /\ tab' = [tab EXCEPT ![t].at = next]
          /\ shop' \in {shop, [shop EXCEPT !.draftLayout = tab[t].layout]}
          /\ UNCHANGED <<game, row, pushes, stored, worker, edits>>
    BY DEF SaveDraft, Publish, PutDraft, RefuseDraft
  <1>2. tab[t].layout \in Section /\ AtMostOnce(tab[t].layout)
    BY <1>0, <1>1 DEF TabOK, Drawn
  <1>3. shop' \in Shop /\ AtMostOnce(shop'.layout) /\ AtMostOnce(shop'.draftLayout)
    BY <1>0, <1>1, <1>2 DEF TablesOK, Shop, Layout
  <1>4. TablesOK'
    BY <1>0, <1>1, <1>3 DEF TablesOK, AtMostOnce
  <1>5. PICK x : x = [tab[t] EXCEPT !.at = next]
    OBVIOUS
  <1>6. tab' = [tab EXCEPT ![t] = x]
    BY <1>0, <1>1, <1>5
  <1>7. x \in Tab /\ x.layout = tab[t].layout /\ x.read = tab[t].read
    BY <1>0, <1>1, <1>5 DEF Tab
  <1>8. TabOK(x)
    BY <1>0, <1>2, <1>7 DEF TabOK, Drawn
  <1> QED
    BY <1>1, <1>4, <1>6, <1>8, TabFrame

(* ... and promoted as it was read.                                        *)
LEMMA PublishKeeps ==
  ASSUME CatalogueInv, undisturbed' \in BOOLEAN, NEW t \in Tabs,
         ReadDraft(t) \/ Promote(t) \/ Fail(t)
  PROVE  CatalogueInv'
  <1>0. /\ TablesOK /\ tab[t] \in Tab /\ TabOK(tab[t]) /\ tab \in [Tabs -> Tab]
        /\ UNCHANGED <<game, row, pushes, stored, worker, edits>>
        /\ tab[t].at \in {"publish", "promote"}
    BY Typed DEF ReadDraft, Promote, Fail
  <1>1. PICK at \in {"edit", "promote"}, read \in Layout :
          /\ tab' = [tab EXCEPT ![t].at = at, ![t].read = read]
          /\ AtMostOnce(read)
    <2>1. NoSections \in Layout /\ AtMostOnce(NoSections)
      BY MarkersPlaceNothing DEF Layout
    <2>2. CASE tab' = Answered(t)
      BY <2>1, <2>2 DEF Answered
    <2>3. CASE /\ shop.draftLayout # NoDraft
               /\ tab' = [tab EXCEPT ![t].at = "promote", ![t].read = shop.draftLayout]
      BY <1>0, <2>3 DEF TablesOK, Shop
    <2> QED
      BY <2>2, <2>3 DEF ReadDraft, Promote, Fail
  <1>2. shop' \in Shop /\ AtMostOnce(shop'.layout) /\ AtMostOnce(shop'.draftLayout)
    <2>1. tab[t].read \in Layout /\ AtMostOnce(tab[t].read) /\ shop \in Shop
          /\ AtMostOnce(shop.layout) /\ AtMostOnce(shop.draftLayout)
      BY <1>0 DEF TabOK, Tab, TablesOK
    <2>2. \/ shop' = shop
          \/ shop' = [shop EXCEPT !.layout = tab[t].read, !.published = TRUE]
      BY DEF ReadDraft, Promote, Fail
    <2> QED
      BY <2>1, <2>2 DEF Shop
  <1>3. TablesOK'
    BY <1>0, <1>2 DEF TablesOK, AtMostOnce
  <1>4. PICK x : x = [tab[t] EXCEPT !.at = at, !.read = read]
    OBVIOUS
  <1>5. tab' = [tab EXCEPT ![t] = x]
    BY <1>0, <1>1, <1>4
  <1>6. x \in Tab /\ x.layout = tab[t].layout /\ x.read = read
    BY <1>0, <1>1, <1>4 DEF Tab
  <1>7. TabOK(x)
    BY <1>0, <1>1, <1>6 DEF TabOK, Drawn
  <1> QED
    BY <1>0, <1>3, <1>5, <1>7, TabFrame

--------------------------------------------------------------------------------
(* No layout places an item twice                                          *)

LEMMA InitInv == WatchedInit => CatalogueInv
  <1> SUFFICES ASSUME WatchedInit PROVE CatalogueInv
    OBVIOUS
  <1>1. /\ row \in [Items -> Row] /\ shop \in Shop
        /\ AtMostOnce(shop.layout) /\ AtMostOnce(shop.draftLayout)
    BY MarkersPlaceNothing DEF WatchedInit, Init, Row, Shop, Layout
  <1>2. pushes \in Seq(List) /\ Len(pushes) <= MaxPushes /\ DOMAIN pushes = {}
    BY CatalogueAssumption DEF WatchedInit, Init, CatalogueAssumption
  <1>3. TablesOK
    <2>1. edits \in 0..MaxEdits
      BY CatalogueAssumption DEF WatchedInit, Init, CatalogueAssumption
    <2>2. game \in List /\ stored = {} /\ undisturbed = FALSE
      BY DEF WatchedInit, Init
    <2> QED
      BY <1>1, <1>2, <2>1, <2>2 DEF TablesOK
  <1>4. NoItems \in List /\ <<NoSections, NoDraft>> \in Layout \X (Layout \cup {NoDraft})
    BY DEF NoItems, List, Layout
  <1>5. Idle \in Worker
    BY <1>4 DEF Idle, Worker
  <1>6. WorkerOK(Idle)
    BY <1>5, MarkersPlaceNothing DEF Idle, WorkerOK, Prepared
  <1>7. Closed \in Tab /\ TabOK(Closed)
    BY MarkersPlaceNothing DEF Closed, Tab, Layout, TabOK, Drawn
  <1>8. /\ worker \in [Workers -> Worker] /\ \A w \in Workers : WorkerOK(worker[w])
        /\ tab \in [Tabs -> Tab] /\ \A t \in Tabs : TabOK(tab[t])
    BY <1>5, <1>6, <1>7 DEF WatchedInit, Init
  <1> QED
    BY <1>3, <1>8, InvParts

LEMMA NextInv ==
  CatalogueInv /\ [Next /\ Watch]_<<vars, undisturbed>> => CatalogueInv'
  <1> SUFFICES ASSUME CatalogueInv, [Next /\ Watch]_<<vars, undisturbed>>
               PROVE  CatalogueInv'
    OBVIOUS
  <1>1. CASE UNCHANGED <<vars, undisturbed>>
    BY <1>1 DEF vars, CatalogueInv, NoDuplicates, TypeOK, Prepared
  <1>2. ASSUME Next, Watch PROVE CatalogueInv'
    <2>1. undisturbed' \in BOOLEAN
      BY <1>2, WatchType
    <2>2. CASE \E w \in Workers : SyncCatalogue(w) \/ SyncStock(w) \/ Ingest(w)
      BY <2>1, <2>2, BeginKeeps
    <2>3. CASE \E w \in Workers :
                 \/ UpsertCatalogueItems(w) \/ StoreKey(w) \/ UpdateStock(w) \/ ReadShop(w)
                 \/ ReadActive(w) \/ UpdateShop(w) \/ Stop(w)
      BY <2>1, <2>3, UpsertKeeps, StoreKeeps, UpdateStockKeeps, ReadKeeps,
         UpdateShopKeeps, StopKeeps
    <2>4. CASE \E t \in Tabs :
                 \/ OpenBuilder(t) \/ CloseBuilder(t) \/ AddItem(t) \/ RemoveItem(t)
                 \/ SaveItem(t) \/ SaveDraft(t) \/ Publish(t) \/ ReadDraft(t)
                 \/ Promote(t) \/ Fail(t)
      BY <2>1, <2>4, OpenKeeps, EditKeeps, SaveItemKeeps, DraftKeeps, PublishKeeps
    <2>5. CASE GameChanges \/ Push
      BY <2>1, <2>5, GameKeeps
    <2> QED
      BY <1>2, <2>2, <2>3, <2>4, <2>5 DEF Next
  <1> QED
    BY <1>1, <1>2

(* The inductive invariant of catalogue and shop, for any number of items, *)
(* stock levels, jobs, pushes, builder pages and edits.                    *)
THEOREM CatalogueIsSound == WatchedSpec => []CatalogueInv
  BY InitInv, NextInv, PTL DEF WatchedSpec

(* No layout, draft or builder page places an item twice, whatever stale   *)
(* layouts are merged, saved and published over each other.                *)
THEOREM NoDuplicatesCorrect == WatchedSpec => []NoDuplicates
  <1>1. CatalogueInv => NoDuplicates
    BY DEF CatalogueInv
  <1> QED
    BY <1>1, CatalogueIsSound, PTL

--------------------------------------------------------------------------------
(* A sync repairs                                                          *)

(* A sync that starts at rest has the game's list.                         *)
LEMMA SyncStarts ==
  ASSUME CatalogueInv, Resting, NEW w \in Workers, SyncCatalogue(w)
  PROVE  Syncs(w)'
  <1>1. worker[w] \in Worker /\ worker \in [Workers -> Worker]
    BY Typed
  <1>2. game' = game /\ worker' = [worker EXCEPT ![w].kind = "catalogue", ![w].list = game,
                                                  ![w].at = "upsert"]
    BY DEF SyncCatalogue, FetchRemoteItems
  <1>3. /\ worker'[w].kind = "catalogue" /\ worker'[w].list = game
        /\ worker'[w].at = "upsert"
    BY <1>1, <1>2 DEF Worker
  <1>4. \A v \in Workers \ {w} : worker'[v].at = "idle"
    BY <1>1, <1>2 DEF Resting
  <1> QED
    BY <1>2, <1>3, <1>4 DEF Syncs

(* Only the worker of an undisturbed sync works.                           *)
LEMMA OneWorks ==
  ASSUME NEW w \in Workers, Syncs(w), NEW v \in Workers, Works(v)
  PROVE  v = w
  BY DEF Syncs, Works, UpsertCatalogueItems, ReadShop, ReadActive, UpdateShop

(* Its items are the game's once they are written ...                      *)
LEMMA UpsertSyncs ==
  ASSUME CatalogueInv, NEW w \in Workers, Syncs(w), UpsertCatalogueItems(w)
  PROVE  Syncs(w)'
  <1>1. /\ worker[w] \in Worker /\ worker \in [Workers -> Worker]
        /\ row \in [Items -> Row] /\ game \in List
    BY Typed DEF TablesOK
  <1>2. /\ worker[w].list = game /\ worker[w].kind = "catalogue" /\ game' = game
        /\ row' = [i \in Items |->
             IF i \in Listed(game) THEN [row[i] EXCEPT !.stock = game[i], !.isActive = TRUE]
             ELSE [row[i] EXCEPT !.isActive = FALSE]]
    BY DEF Syncs, UpsertCatalogueItems
  <1>3. worker' = [worker EXCEPT ![w].list = NoItems, ![w].at = "shop"]
    BY <1>1, <1>2 DEF UpsertCatalogueItems
  <1>4. /\ worker'[w].kind = "catalogue" /\ worker'[w].at = "shop"
        /\ \A v \in Workers \ {w} : worker'[v].at = "idle"
    BY <1>1, <1>2, <1>3 DEF Worker, Syncs
  <1>5. ASSUME NEW i \in Items
        PROVE  /\ row'[i].isActive <=> i \in Listed(game)
               /\ i \in Listed(game) => row'[i].stock = game[i]
    <2>1. row[i] \in Row
      BY <1>1
    <2> QED
      BY <1>2, <2>1 DEF Row
  <1>6. Mirrored'
    BY <1>2, <1>5 DEF Mirrored, Active, Listed
  <1> QED
    BY <1>4, <1>6 DEF Syncs

(* ... the shop is read and merged with those ...                          *)
LEMMA ReadSyncs ==
  ASSUME CatalogueInv, NEW w \in Workers, Syncs(w), ReadShop(w) \/ ReadActive(w)
  PROVE  Syncs(w)'
  <1>1. /\ worker[w] \in Worker /\ worker \in [Workers -> Worker]
        /\ UNCHANGED <<game, row, shop>>
    BY Typed DEF ReadShop, ReadActive
  <1>2. Mirrored /\ worker[w].kind = "catalogue"
    BY DEF Syncs, ReadShop, ReadActive
  <1>3. Mirrored' /\ Active' = Active
    BY <1>1, <1>2 DEF Mirrored, Active, Listed
  <1>4. CASE ReadShop(w)
    <2>1. worker' = [worker EXCEPT ![w].shop = <<shop.layout, shop.draftLayout>>,
                                   ![w].at = "active"]
      BY <1>4 DEF ReadShop
    <2>2. /\ worker'[w].kind = "catalogue" /\ worker'[w].at = "active"
          /\ worker'[w].shop[1] = shop.layout
          /\ \A v \in Workers \ {w} : worker'[v].at = "idle"
      BY <1>1, <1>2, <2>1 DEF Worker, Syncs
    <2> QED
      BY <1>1, <1>3, <2>2 DEF Syncs
  <1>5. CASE ReadActive(w)
    <2>1. worker[w].shop[1] = shop.layout
      BY <1>5 DEF Syncs, ReadActive
    <2>2. PICK p : p = [k \in 1..2 |-> MergeNewItems(worker[w].shop[k], Active)]
      OBVIOUS
    <2>3. p[1] = MergeNewItems(shop.layout, Active)
      BY <2>1, <2>2
    <2>4. worker' = [worker EXCEPT ![w].shop = p, ![w].at = "merge"]
      BY <1>1, <1>5, <2>2 DEF ReadActive
    <2>5. /\ worker'[w].kind = "catalogue" /\ worker'[w].at = "merge"
          /\ worker'[w].shop = p
          /\ \A v \in Workers \ {w} : worker'[v].at = "idle"
      BY <1>1, <1>2, <2>4 DEF Worker, Syncs
    <2>6. MergeNewItems(shop.layout, Active) = MergeNewItems(shop.layout, Active)'
      BY <1>1, <1>3 DEF MergeNewItems
    <2> QED
      BY <1>3, <2>3, <2>5, <2>6 DEF Syncs
  <1> QED
    BY <1>4, <1>5

(* ... and is written with them: the storefront shows all that can be      *)
(* bought.                                                                 *)
LEMMA UpdateShopSyncs ==
  ASSUME CatalogueInv, NEW w \in Workers, Syncs(w), UpdateShop(w)
  PROVE  (Resting /\ InSync)'
  <1>1. /\ worker \in [Workers -> Worker] /\ UNCHANGED <<game, row>>
        /\ shop \in Shop
    BY Typed DEF UpdateShop, TablesOK
  <1>2. Mirrored /\ worker[w].shop[1] = MergeNewItems(shop.layout, Active)
    BY DEF Syncs, UpdateShop
  <1>3. Mirrored' /\ Active' = Active /\ ShopItems' = ShopItems
    BY <1>1, <1>2 DEF Mirrored, Active, Listed, ShopItems
  <1>4. Resting'
    <2>1. worker' = [worker EXCEPT ![w] = Idle]
      BY DEF UpdateShop, Finish
    <2> QED
      BY <1>1, <2>1 DEF Syncs, Resting, Idle
  <1>5. PICK written :
          written = IF worker[w].shop[1] = None THEN shop.layout ELSE worker[w].shop[1]
    OBVIOUS
  <1>6. shop'.layout = written
    BY <1>1, <1>5 DEF UpdateShop, Shop
  <1>7. written = NoSections \/ \A i \in Active : written[i] > 0
    <2>1. shop.layout \in Layout /\ Active \in SUBSET Items
      BY <1>1 DEF Shop, Active
    <2> QED
      BY <1>2, <1>5, <2>1, MergedPlaces
  <1>8. Displayed' = ShopItems
    BY <1>3, <1>6, <1>7 DEF Displayed, Explicit, ShopItems
  <1>9. ShopItems = {i \in Items : PublicItem(i)}
    BY DEF ShopItems, Active, PublicItem
  <1>10. {i \in Items : PublicItem(i)}' = {i \in Items : PublicItem(i)}
    BY <1>1 DEF PublicItem
  <1>11. (Storefront = ItemPages)'
    BY <1>8, <1>9, <1>10 DEF Storefront, ItemPages
  <1> QED
    BY <1>3, <1>4, <1>11 DEF InSync

(* A step of an undisturbed sync.                                          *)
LEMMA SyncGoesOn ==
  ASSUME CatalogueInv, NEW w \in Workers, Syncs(w), NEW v \in Workers, Works(v)
  PROVE  (Resting /\ InSync)' \/ Syncs(w)'
  <1>1. Works(w)
    BY OneWorks
  <1> QED
    BY <1>1, UpsertSyncs, ReadSyncs, UpdateShopSyncs DEF Works

(* Nothing works at rest.                                                  *)
LEMMA RestRests == ASSUME Resting, NEW v \in Workers PROVE ~Works(v)
  BY DEF Resting, Works, UpsertCatalogueItems, ReadShop, ReadActive, UpdateShop

LEMMA NextSync ==
  CatalogueInv /\ SyncInv /\ [Next /\ Watch]_<<vars, undisturbed>> => SyncInv'
  <1> SUFFICES ASSUME CatalogueInv, SyncInv, [Next /\ Watch]_<<vars, undisturbed>>
               PROVE  SyncInv'
    OBVIOUS
  <1>1. CASE UNCHANGED <<vars, undisturbed>>
    BY <1>1
       DEF vars, SyncInv, Resting, InSync, Mirrored, Active, Listed, Storefront, Displayed,
           ShopItems, Explicit, ItemPages, PublicItem, Syncs, MergeNewItems
  <1>2. ASSUME Watch, undisturbed' PROVE SyncInv'
    <2>1. CASE Resting /\ \E w \in Workers : SyncCatalogue(w)
      BY <2>1, SyncStarts DEF SyncInv
    <2>2. ASSUME undisturbed, NEW v \in Workers, Works(v) PROVE SyncInv'
      <3>1. PICK w \in Workers : Syncs(w)
        BY <2>2, RestRests DEF SyncInv
      <3> QED
        BY <2>2, <3>1, SyncGoesOn DEF SyncInv
    <2> QED
      BY <1>2, <2>1, <2>2 DEF Watch
  <1>3. CASE Watch /\ ~undisturbed'
    BY <1>3 DEF SyncInv
  <1> QED
    BY <1>1, <1>2, <1>3

(* One catalogue sync that runs alone repairs whatever stale lists, late   *)
(* pushes, stopped jobs and overwritten layouts have left: the active      *)
(* items and their stock are the game's, and the storefront shows exactly  *)
(* the items that can be bought.                                           *)
THEOREM SyncRepairsCorrect == WatchedSpec => []SyncRepairs
  <1>1. WatchedInit => CatalogueInv /\ SyncInv
    BY InitInv DEF WatchedInit, SyncInv
  <1>2. CatalogueInv /\ SyncInv /\ [Next /\ Watch]_<<vars, undisturbed>>
          => (CatalogueInv /\ SyncInv)'
    BY NextInv, NextSync
  <1>3. SyncInv => SyncRepairs
    BY DEF SyncInv, SyncRepairs, Syncs, Resting
  <1> QED
    BY <1>1, <1>2, <1>3, PTL DEF WatchedSpec

================================================================================

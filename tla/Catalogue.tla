------------------------------- MODULE Catalogue --------------------------------
(***************************************************************************)
(* The catalogue of a studio and its shop: the game's own list of items,   *)
(* the Item rows made from it, the Shop row with the published layout and  *)
(* the draft, the jobs and handlers that copy the game's list (catalogue   *)
(* sync, stock sync, ingest), and the builder pages that edit the shop.    *)
(*                                                                         *)
(* A layout says how often it places each item; order, mode, theme and     *)
(* featured items are left out, and a layout has the one section that the  *)
(* builder makes.  A worker is a job or a request under way.               *)
(***************************************************************************)
EXTENDS Naturals, Sequences, FiniteSets

CONSTANTS
  Items,
  Levels,      \* stock levels
  None,        \* not in the list, or not known
  Workers,     \* jobs and ingest requests that run at the same time
  Tabs,        \* builder pages
  MaxEdits,    \* bound: changes that the game and the studio make
  MaxPushes    \* bound: lists that the game pushes

ASSUME CatalogueAssumption ==
  /\ None \notin Levels
  /\ MaxEdits \in Nat /\ MaxPushes \in Nat

VARIABLES
  game,     \* the list of the game: the stock of each item, None when it is not sold
  row,      \* the Item rows; a stock of None when there is no row
  shop,     \* the Shop row
  pushes,   \* the lists pushed to ingest; the index is the idempotency key
  stored,   \* the idempotency keys in the table
  worker,
  tab,
  edits     \* how many changes there have been

vars == <<game, row, shop, pushes, stored, worker, tab, edits>>

List == [Items -> Levels \cup {None}]
Row == [stock : Levels \cup {None}, isActive : BOOLEAN, isListed : BOOLEAN]
Section == [Items -> Nat]

NoSections == <<>>           \* the layout of a new shop
NoDraft == <<None>>          \* a draftLayout that is null
Layout == Section \cup {NoSections}

\* What stands for the absence of a section is none (a game sells something).
ASSUME MarkersAssumption == Section \cap {NoSections, NoDraft, None} = {}

Shop == [layout : Layout, draftLayout : Layout \cup {NoDraft}, published : BOOLEAN]

NoItems == [i \in Items |-> None]
Empty == [i \in Items |-> 0]

\* "shop" holds the two layouts read from the Shop row, then what is to be written.
Worker == [kind : {"none", "catalogue", "stock", "push"},
           at : {"idle", "upsert", "update", "store", "shop", "active", "merge"},
           list : List, key : Nat, shop : (Layout \cup {NoDraft, None}) \X (Layout \cup {NoDraft, None})]

Idle == [kind |-> "none", at |-> "idle", list |-> NoItems, key |-> 0,
         shop |-> <<NoSections, NoDraft>>]

\* "read" is the draft that the publish handler has read.
Tab == [at : {"closed", "edit", "publish", "promote"}, layout : Layout, read : Layout]

Closed == [at |-> "closed", layout |-> NoSections, read |-> NoSections]

Init ==
  /\ game \in List
  /\ row = [i \in Items |-> [stock |-> None, isActive |-> FALSE, isListed |-> TRUE]]
  /\ shop = [layout |-> NoSections, draftLayout |-> NoDraft, published |-> FALSE]
  /\ pushes = <<>> /\ stored = {}
  /\ worker = [w \in Workers |-> Idle]
  /\ tab = [t \in Tabs |-> Closed]
  /\ edits = 0

Known == {i \in Items : row[i].stock # None}
Active == {i \in Items : row[i].isActive}

Go(w, stage) == worker' = [worker EXCEPT ![w].at = stage]

Finish(w) == worker' = [worker EXCEPT ![w] = Idle]

Edit == edits < MaxEdits /\ edits' = edits + 1

\* The game changes its list.
GameChanges ==
  /\ Edit
  /\ \E i \in Items, stock \in Levels \cup {None} : game' = [game EXCEPT ![i] = stock]
  /\ UNCHANGED <<row, shop, pushes, stored, worker, tab>>

--------------------------------------------------------------------------------
(* Jobs and the ingest route                                               *)

\* The worker that takes a job begins with fetchRemoteItems.
FetchRemoteItems(w, kind) ==
  /\ worker[w].at = "idle"
  /\ worker' = [worker EXCEPT ![w].kind = kind, ![w].list = game,
                              ![w].at = IF kind = "stock" THEN "update" ELSE "upsert"]
  /\ UNCHANGED <<game, row, shop, pushes, stored, tab, edits>>

\* SYNC FROM GAME API and SYNC_STOCK add a job each.
SyncCatalogue(w) == FetchRemoteItems(w, "catalogue")
SyncStock(w) == FetchRemoteItems(w, "stock")

\* The game pushes its list, with a new idempotency key ...
Push ==
  /\ Len(pushes) < MaxPushes
  /\ pushes' = Append(pushes, game)
  /\ UNCHANGED <<game, row, shop, stored, worker, tab, edits>>

(* ... and the request arrives, perhaps late, perhaps again.  With a key   *)
(* in the table it is answered with the stored response.                   *)
Ingest(w) ==
  /\ worker[w].at = "idle"
  /\ \E key \in DOMAIN pushes \ stored :
       worker' = [worker EXCEPT ![w] = [Idle EXCEPT !.kind = "push", !.at = "upsert",
                                                    !.key = key, !.list = pushes[key]]]
  /\ UNCHANGED <<game, row, shop, pushes, stored, tab, edits>>

Listed(list) == {i \in Items : list[i] # None}

\* Mutant: an item that comes back is not activated again.
KeepInactive(w) ==
  LET list == worker[w].list IN
  /\ worker[w].at = "upsert"
  /\ row' = [i \in Items |->
       IF i \notin Listed(list) THEN [row[i] EXCEPT !.isActive = FALSE]
       ELSE [row[i] EXCEPT !.stock = list[i], !.isActive = i \notin Known \/ @]]
  /\ worker' = [worker EXCEPT ![w].list = NoItems,
                              ![w].at = IF worker[w].kind = "push" THEN "store" ELSE "shop"]
  /\ UNCHANGED <<game, shop, pushes, stored, tab, edits>>

\* upsertCatalogueItems: the items of the list are active, all others are not.
UpsertCatalogueItems(w) ==
  LET list == worker[w].list IN
  /\ worker[w].at = "upsert"
  /\ row' = [i \in Items |->
       IF i \in Listed(list) THEN [row[i] EXCEPT !.stock = list[i], !.isActive = TRUE]
       ELSE [row[i] EXCEPT !.isActive = FALSE]]
  /\ worker' = [worker EXCEPT ![w].list = NoItems,
                              ![w].at = IF worker[w].kind = "push" THEN "store" ELSE "shop"]
  /\ UNCHANGED <<game, shop, pushes, stored, tab, edits>>

\* A key stored meanwhile is a unique violation: a 500, with the items written.
StoreKey(w) ==
  /\ worker[w].at = "store"
  /\ stored' = stored \cup {worker[w].key}
  /\ Finish(w)
  /\ UNCHANGED <<game, row, shop, pushes, tab, edits>>

\* stockSyncProcessor writes the stock of the rows there are.
UpdateStock(w) ==
  LET list == worker[w].list IN
  /\ worker[w].at = "update"
  /\ row' = [i \in Items |->
       IF i \in Known \cap Listed(list) THEN [row[i] EXCEPT !.stock = list[i]] ELSE row[i]]
  /\ Finish(w)
  /\ UNCHANGED <<game, shop, pushes, stored, tab, edits>>

ReadShop(w) ==
  /\ worker[w].at = "shop"
  /\ worker' = [worker EXCEPT ![w].shop = <<shop.layout, shop.draftLayout>>, ![w].at = "active"]
  /\ UNCHANGED <<game, row, shop, pushes, stored, tab, edits>>

\* Mutant: what is placed already is added as well.
MergeAll(layout, active) ==
  IF layout \notin Section \/ active = {} THEN None
  ELSE [i \in Items |-> IF i \in active THEN layout[i] + 1 ELSE layout[i]]

\* The layout with the active items that it does not place, or None.
MergeNewItems(layout, active) ==
  IF layout \notin Section \/ \A i \in active : layout[i] > 0 THEN None
  ELSE [i \in Items |-> IF i \in active /\ layout[i] = 0 THEN 1 ELSE layout[i]]

\* The active items are read, and the layouts read before them merged with those.
ReadActive(w) ==
  /\ worker[w].at = "active"
  /\ worker' = [worker EXCEPT ![w].shop = [k \in 1..2 |-> MergeNewItems(@[k], Active)],
                              ![w].at = "merge"]
  /\ UNCHANGED <<game, row, shop, pushes, stored, tab, edits>>

\* The columns with something new are written, whatever they hold by now.
UpdateShop(w) ==
  LET layout == worker[w].shop[1]
      draft == worker[w].shop[2]
  IN
  /\ worker[w].at = "merge"
  /\ shop' = [shop EXCEPT !.layout = IF layout = None THEN @ ELSE layout,
                          !.draftLayout = IF draft = None THEN @ ELSE draft]
  /\ Finish(w)
  /\ UNCHANGED <<game, row, pushes, stored, tab, edits>>

\* The process stops, or a request to the game or the database fails; nobody retries.
Stop(w) ==
  /\ worker[w].at # "idle"
  /\ Finish(w)
  /\ UNCHANGED <<game, row, shop, pushes, stored, tab, edits>>

--------------------------------------------------------------------------------
(* The builder page                                                        *)

EnsureSection(layout) == IF layout = NoSections THEN Empty ELSE layout

\* The page is rendered with the shop.
OpenBuilder(t) ==
  /\ tab[t].at = "closed"
  /\ tab' = [tab EXCEPT ![t] =
       [Closed EXCEPT !.at = "edit",
          !.layout = EnsureSection(IF shop.draftLayout = NoDraft THEN shop.layout
                                   ELSE shop.draftLayout)]]
  /\ UNCHANGED <<game, row, shop, pushes, stored, worker, edits>>

CloseBuilder(t) ==
  /\ tab[t].at = "edit"
  /\ tab' = [tab EXCEPT ![t] = Closed]
  /\ UNCHANGED <<game, row, shop, pushes, stored, worker, edits>>

\* The page has the items that it was rendered with or fetched since: any of those known.
OnPage(t) == IF tab[t].at = "edit" THEN Known ELSE {}

\* The reducer: an item is placed once, and removed wherever it is.
Place(layout, i) == [layout EXCEPT ![i] = IF @ = 0 THEN 1 ELSE @]
Displace(layout, i) == [layout EXCEPT ![i] = 0]

\* ADD is disabled for an item that is placed, but it can still be dragged.
AddItem(t) ==
  /\ Edit
  /\ \E i \in OnPage(t) : tab' = [tab EXCEPT ![t].layout = Place(@, i)]
  /\ UNCHANGED <<game, row, shop, pushes, stored, worker>>

\* The canvas has a card for every placed item that the page knows.
RemoveItem(t) ==
  /\ Edit
  /\ \E i \in OnPage(t) :
       tab[t].layout[i] > 0 /\ tab' = [tab EXCEPT ![t].layout = Displace(@, i)]
  /\ UNCHANGED <<game, row, shop, pushes, stored, worker>>

PatchItem(i, stock, isListed) == row' = [row EXCEPT ![i].stock = stock, ![i].isListed = isListed]

(* SAVE_ITEM writes all fields of the form: the stock is a new one, or the *)
(* one that the page had, which may be old.                                *)
SaveItem(t) ==
  /\ Edit
  /\ \E i \in OnPage(t), stock \in Levels, isListed \in BOOLEAN : PatchItem(i, stock, isListed)
  /\ UNCHANGED <<game, shop, pushes, stored, worker, tab>>

PutDraft(t, next) ==
  /\ tab[t].at = "edit"
  /\ shop' = [shop EXCEPT !.draftLayout = tab[t].layout]
  /\ tab' = [tab EXCEPT ![t].at = next]
  /\ UNCHANGED <<game, row, pushes, stored, worker, edits>>

SaveDraft(t) == PutDraft(t, "edit")

\* The draft is refused, or the request is lost, and publish() goes on.
RefuseDraft(t) ==
  /\ tab[t].at = "edit"
  /\ tab' = [tab EXCEPT ![t].at = "publish"]
  /\ UNCHANGED <<game, row, shop, pushes, stored, worker, edits>>

\* publish() sends the layout first and ignores the answer.
Publish(t) == PutDraft(t, "publish") \/ RefuseDraft(t)

Answered(t) == [tab EXCEPT ![t].at = "edit", ![t].read = NoSections]

\* Without a draft, publish answers 409.
ReadDraft(t) ==
  /\ tab[t].at = "publish"
  /\ tab' = IF shop.draftLayout = NoDraft THEN Answered(t)
            ELSE [tab EXCEPT ![t].at = "promote", ![t].read = shop.draftLayout]
  /\ UNCHANGED <<game, row, shop, pushes, stored, worker, edits>>

\* The draft that was read becomes the layout that players see.
Promote(t) ==
  /\ tab[t].at = "promote"
  /\ shop' = [shop EXCEPT !.layout = tab[t].read, !.published = TRUE]
  /\ tab' = Answered(t)
  /\ UNCHANGED <<game, row, pushes, stored, worker, edits>>

\* The request fails or is refused, or its connection breaks.
Fail(t) ==
  /\ tab[t].at \in {"publish", "promote"}
  /\ tab' = Answered(t)
  /\ UNCHANGED <<game, row, shop, pushes, stored, worker, edits>>

--------------------------------------------------------------------------------
\* getShopItems, then the grid, then the page, which is not found without a published shop.
ShopItems == {i \in Active : row[i].isListed}

Explicit == shop.layout # NoSections /\ \E i \in Items : shop.layout[i] > 0

Displayed == IF Explicit THEN {i \in ShopItems : shop.layout[i] > 0} ELSE ShopItems

Storefront == IF shop.published THEN Displayed ELSE {}

\* getPublicItem, and the page of an item, which Buy Now leads from.
PublicItem(i) == row[i].isActive /\ row[i].isListed

ItemPages == IF shop.published THEN {i \in Items : PublicItem(i)} ELSE {}

Next ==
  \/ GameChanges \/ Push
  \/ \E w \in Workers :
       \/ SyncCatalogue(w) \/ SyncStock(w) \/ Ingest(w)
       \/ UpsertCatalogueItems(w) \/ StoreKey(w) \/ UpdateStock(w) \/ ReadShop(w)
       \/ ReadActive(w) \/ UpdateShop(w) \/ Stop(w)
  \/ \E t \in Tabs :
       \/ OpenBuilder(t) \/ CloseBuilder(t) \/ AddItem(t) \/ RemoveItem(t)
       \/ SaveItem(t) \/ SaveDraft(t) \/ Publish(t) \/ ReadDraft(t)
       \/ Promote(t) \/ Fail(t)

Spec == Init /\ [][Next]_vars

================================================================================

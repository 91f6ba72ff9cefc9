-------------------------- MODULE CatalogueCorrectness --------------------------
(***************************************************************************)
(* What catalogue and shop guarantee, however jobs, pushes and builders    *)
(* interleave.                                                             *)
(***************************************************************************)
EXTENDS Catalogue

VARIABLE
  undisturbed   \* history: the last catalogue sync began at rest and runs alone

Resting == \A w \in Workers : worker[w].at = "idle"

Works(w) == UpsertCatalogueItems(w) \/ ReadShop(w) \/ ReadActive(w) \/ UpdateShop(w)

\* A catalogue sync that starts at rest is undisturbed until anything else moves.
Watch ==
  undisturbed' = \/ Resting /\ \E w \in Workers : SyncCatalogue(w)
                 \/ undisturbed /\ \E w \in Workers : Works(w)

WatchedInit == Init /\ undisturbed = FALSE

WatchedSpec == WatchedInit /\ [][Next /\ Watch]_<<vars, undisturbed>>

--------------------------------------------------------------------------------
\* Type invariant.
TypeOK ==
  /\ game \in List /\ row \in [Items -> Row] /\ shop \in Shop
  /\ pushes \in Seq(List) /\ Len(pushes) <= MaxPushes
  /\ stored \subseteq DOMAIN pushes
  /\ worker \in [Workers -> Worker]
  /\ \A w \in Workers : worker[w].key \in {0} \cup DOMAIN pushes
  /\ tab \in [Tabs -> Tab]
  /\ edits \in 0..MaxEdits /\ undisturbed \in BOOLEAN

AtMostOnce(layout) == layout \in Section => \A i \in Items : layout[i] <= 1

(* No layout places an item twice (its cards would share a React key):     *)
(* not the published one, not the draft, not a builder's, although sync    *)
(* jobs merge into layouts that they read earlier, a builder offers items  *)
(* that are placed already, and each overwrites what the other wrote.      *)
NoDuplicates ==
  /\ TypeOK
  /\ AtMostOnce(shop.layout) /\ AtMostOnce(shop.draftLayout)
  /\ \A t \in Tabs : AtMostOnce(tab[t].layout) /\ AtMostOnce(tab[t].read)

\* The active items and their stock are those of the game.
Mirrored ==
  /\ Active = Listed(game)
  /\ \A i \in Active : row[i].stock = game[i]

InSync == Mirrored /\ Storefront = ItemPages

(* Whatever stale lists, late pushes, stopped jobs and overwritten layouts *)
(* have left behind, one catalogue sync that runs alone repairs it: the    *)
(* active items and their stock are the game's, and the storefront shows   *)
(* exactly the items that have a page to be bought from.                   *)
SyncRepairs == undisturbed /\ Resting => InSync

--------------------------------------------------------------------------------
\* What a worker has prepared is a layout that may be written, or none; a push has a key.
Prepared(x) ==
  /\ x.at = "merge" => \A k \in 1..2 : x.shop[k] \in Section \cup {None}
  /\ \A k \in 1..2 : AtMostOnce(x.shop[k])
  /\ x.kind = "push" => x.key \in DOMAIN pushes
  /\ x.at = "store" => x.kind = "push"

\* A builder page that is open has a section to place items in.
Drawn(x) == x.at # "closed" => x.layout \in Section

(* The inductive invariant behind NoDuplicates: what is under way.         *)
CatalogueInv ==
  /\ NoDuplicates
  /\ \A w \in Workers : Prepared(worker[w])
  /\ \A t \in Tabs : Drawn(tab[t])

\* How far an undisturbed sync is when w runs it.
Syncs(w) ==
  /\ \A v \in Workers \ {w} : worker[v].at = "idle"
  /\ worker[w].kind = "catalogue"
  /\ \/ worker[w].at = "upsert" /\ worker[w].list = game
     \/ worker[w].at = "shop" /\ Mirrored
     \/ worker[w].at = "active" /\ Mirrored /\ worker[w].shop[1] = shop.layout
     \/ /\ worker[w].at = "merge" /\ Mirrored
        /\ worker[w].shop[1] = MergeNewItems(shop.layout, Active)

(* The inductive invariant behind SyncRepairs.                             *)
SyncInv == undisturbed => (Resting /\ InSync) \/ \E w \in Workers : Syncs(w)

================================================================================

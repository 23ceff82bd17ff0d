------------------------------ MODULE ItemStore ------------------------------
(***************************************************************************)
(* A player's items in memory (model/item.go) and in the table items        *)
(* (db/item_repository.go).  A setter holds the item's lock; Update reads   *)
(* the location, the count and the enchantment one after the other and then *)
(* runs one statement.                                                      *)
(***************************************************************************)
EXTENDS Integers

CONSTANTS
  Items,      \* the items of one owner
  CountMax,   \* the largest int32
  Deltas,     \* what AddCount is called with, besides -count: int32 values
  Enchants,   \* what SetEnchant is called with
  MaxSets     \* bound: calls of setters

Places == {"inventory", "paperdoll", "warehouse"}

ASSUME CountAssumption == CountMax \in Nat \ {0}
ASSUME DeltasAssumption == Deltas \subseteq (-CountMax - 1)..CountMax
ASSUME SetsAssumption == Enchants \subseteq Int /\ MaxSets \in Nat

VARIABLES
  item,     \* item[i]: the Item in memory
  irow,     \* irow[i]: its row, or NoItem
  update,   \* update[i]: what the Update under way has read
  sets      \* calls of setters

\* History: the sum of what was accepted for i since its count was set; the items that
\* a setter has changed since the last save of them began.
VARIABLES exact, unsaved

itemVars == <<item, irow, update, sets, exact, unsaved>>

NoItem   == [count |-> 0, enchant |-> 0, place |-> "void"]
NoUpdate == [read |-> 0, count |-> 0, place |-> "void"]

NewItem(count) == [count |-> count, enchant |-> 0, place |-> "inventory"]

ItemInit ==
  /\ item = [i \in Items |-> NewItem(1)] /\ irow = [i \in Items |-> NoItem]
  /\ update = [i \in Items |-> NoUpdate] /\ sets = 0
  /\ exact = [i \in Items |-> 1] /\ unsaved = Items

-----------------------------------------------------------------------------
(* Setters.                                                                 *)

\* The int32 that a sum of two int32 becomes.
Wrap32(n) ==
  IF n > CountMax THEN n - 2 * CountMax - 2
  ELSE IF n < -CountMax - 1 THEN n + 2 * CountMax + 2 ELSE n

\* (Changed form, for the checks of the properties: only an empty stack is refused.)
EmptyRefused(count) == count = 0

CountRefused(count) == count <= 0

Set(i, changed) ==
  /\ sets < MaxSets /\ sets' = sets + 1
  /\ item' = [item EXCEPT ![i] = changed]
  /\ unsaved' = unsaved \cup {i}
  /\ UNCHANGED <<irow, update>>

\* An error changes nothing.
AddCount(i, delta) ==
  /\ ~CountRefused(Wrap32(item[i].count + delta))
  /\ Set(i, [item[i] EXCEPT !.count = Wrap32(item[i].count + delta)])
  /\ exact' = [exact EXCEPT ![i] = @ + delta]

SetCount(i, count) ==
  /\ ~CountRefused(count)
  /\ Set(i, [item[i] EXCEPT !.count = count])
  /\ exact' = [exact EXCEPT ![i] = count]

SetEnchant(i, enchant) ==
  /\ enchant >= 0
  /\ Set(i, [item[i] EXCEPT !.enchant = enchant]) /\ UNCHANGED exact

\* Item.SetLocation; the slot goes with the place.
SetPlace(i, place) == Set(i, [item[i] EXCEPT !.place = place]) /\ UNCHANGED exact

-----------------------------------------------------------------------------
(* Statements.                                                              *)

\* What the table admits.
RowFits(r) == r.count > 0 /\ r.enchant >= 0

CreateItem(i) ==
  /\ irow[i] = NoItem /\ update[i] = NoUpdate /\ RowFits(item[i])
  /\ irow' = [irow EXCEPT ![i] = item[i]]
  /\ unsaved' = unsaved \ {i}
  /\ UNCHANGED <<item, update, sets, exact>>

ReadPlace(i) ==
  /\ irow[i] # NoItem /\ update[i] = NoUpdate
  /\ update' = [update EXCEPT ![i] = [read |-> 1, count |-> 0, place |-> item[i].place]]
  /\ unsaved' = unsaved \ {i}
  /\ UNCHANGED <<item, irow, sets, exact>>

ReadCount(i) ==
  /\ update[i].read = 1
  /\ update' = [update EXCEPT ![i] = [@ EXCEPT !.read = 2, !.count = item[i].count]]
  /\ UNCHANGED <<item, irow, sets, exact, unsaved>>

WrittenItem(i) ==
  [count |-> update[i].count, enchant |-> item[i].enchant, place |-> update[i].place]

\* The enchantment is read and the statement runs; it changes nothing, and reports
\* no error, if the row is gone.
UpdateItem(i) ==
  /\ update[i].read = 2
  /\ irow' = IF irow[i] = NoItem THEN irow ELSE [irow EXCEPT ![i] = WrittenItem(i)]
  /\ update' = [update EXCEPT ![i] = NoUpdate]
  /\ UNCHANGED <<item, sets, exact, unsaved>>

\* Delete of an item, or of the character and with it of all of them.
DeleteItems(gone) ==
  /\ \E i \in gone : irow[i] # NoItem
  /\ irow' = [i \in Items |-> IF i \in gone THEN NoItem ELSE irow[i]]
  /\ UNCHANGED <<item, update, sets, exact, unsaved>>

\* LoadInventory and LoadPaperdoll of a new process: the items of the two places are
\* made anew from their rows.  An item in the warehouse is loaded by neither.
LoadItem(i) ==
  /\ RowFits(irow[i]) /\ irow[i].place \in {"inventory", "paperdoll"}
  /\ item' = [item EXCEPT ![i] = irow[i]]
  /\ update' = [update EXCEPT ![i] = NoUpdate]
  /\ exact' = [exact EXCEPT ![i] = irow[i].count]
  /\ unsaved' = unsaved \ {i}
  /\ UNCHANGED <<irow, sets>>

ItemNext ==
  \/ \E i \in Items :
       \/ \E delta \in Deltas \cup {-item[i].count} : AddCount(i, delta)
       \/ \E count \in {0, CountMax} : SetCount(i, count)
       \/ \E enchant \in Enchants : SetEnchant(i, enchant)
       \/ \E place \in Places : SetPlace(i, place)
       \/ CreateItem(i) \/ ReadPlace(i) \/ ReadCount(i) \/ UpdateItem(i)
       \/ DeleteItems({i}) \/ LoadItem(i)
  \/ DeleteItems(Items)

ItemSpec == ItemInit /\ [][ItemNext]_itemVars

-----------------------------------------------------------------------------
(* Properties.                                                              *)

ItemType == [count : 1..CountMax, enchant : Nat, place : Places]

\* The variables have their types; every row is one that the table admits.
ItemTypeOK ==
  /\ item \in [Items -> ItemType]
  /\ irow \in [Items -> ItemType \cup {NoItem}]
  /\ update \in [Items -> [read : {0}, count : {0}, place : {"void"}]
                          \cup [read : {1}, count : {0}, place : Places]
                          \cup [read : {2}, count : 1..CountMax, place : Places]]
  /\ sets \in 0..MaxSets
  /\ exact \in [Items -> Int] /\ unsaved \subseteq Items

\* However often AddCount is called, the count is the exact sum of what it accepted:
\* the one comparison with zero refuses every sum that wraps around an int32.
CountExact == \A i \in Items : item[i].count = exact[i]

\* An item that no setter has changed since its last save began is in its row as it
\* is in memory, once that save is over and as long as the row is there.
SavedAsItIs ==
  \A i \in Items \ unsaved : update[i] = NoUpdate /\ irow[i] # NoItem => irow[i] = item[i]

\* The counts are exact and in the rows as they are in memory.
ItemsExact == ItemTypeOK /\ CountExact /\ SavedAsItIs

=============================================================================

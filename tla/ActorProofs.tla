---------------------------- MODULE ActorProofs ----------------------------
(***************************************************************************)
(* What lives in the world.  What is saved comes back: the theorems about   *)
(* items (ItemStore) and about characters (CharacterStore), for any widths  *)
(* of the numbers and any arguments of the setters.  In both, what the      *)
(* statement under way has read so far is what the properties do not say    *)
(* and its last step needs.  And TicksInStep of the AI controllers          *)
(* (AITick), for any controllers, any interval between toggles and any      *)
(* number of ticks.                                                         *)
(***************************************************************************)
EXTENDS ItemStore, CharacterStore, AITick, TLAPS

-----------------------------------------------------------------------------
(* Items.                                                                   *)

\* What the Update under way has read of an item that no setter has changed since
\* it began is still so in memory.
ReadsAreCurrent ==
  \A i \in Items \ unsaved :
    /\ update[i].read >= 1 => update[i].place = item[i].place
    /\ update[i].read = 2 => update[i].count = item[i].count

ItemInv == ItemsExact /\ ReadsAreCurrent

\* An int32 sum that AddCount accepts has not wrapped: one that wraps around the
\* top is negative, and a positive count keeps the others above the bottom.
LEMMA AcceptedSumIsExact ==
  ASSUME NEW count \in 1 .. CountMax, NEW delta \in (-CountMax - 1) .. CountMax,
         ~ CountRefused(Wrap32(count + delta))
  PROVE  Wrap32(count + delta) = count + delta /\ count + delta \in 1 .. CountMax
BY CountAssumption DEF CountRefused, Wrap32

\* A setter makes of item i another item of the type, and counts i as unsaved.
LEMMA SetKeeps ==
  ASSUME ItemInv, NEW i \in Items, NEW changed \in ItemType, Set(i, changed),
         \/ changed.count = item[i].count /\ exact' = exact
         \/ exact' = [exact EXCEPT ![i] = changed.count]
  PROVE  ItemInv'
<1> USE SetsAssumption DEF ItemInv, ItemsExact, ItemTypeOK, ItemType, Set
<1>1. ItemTypeOK'
  OBVIOUS
<1>2. CountExact'
  BY DEF CountExact
<1>3. /\ UNCHANGED <<irow, update>>
      /\ \A j \in Items \ unsaved' : j \in Items \ unsaved /\ item'[j] = item[j]
  OBVIOUS
<1>4. SavedAsItIs' /\ ReadsAreCurrent'
  BY <1>3 DEF SavedAsItIs, ReadsAreCurrent
<1> QED
  BY <1>1, <1>2, <1>4

\* A new item has the count it was made with, and nothing is saved yet.
LEMMA ItemInitInv == ItemInit => ItemInv
<1> SUFFICES ASSUME ItemInit PROVE ItemInv
  OBVIOUS
<1> USE CountAssumption, SetsAssumption DEF ItemInit, NewItem, NoItem, NoUpdate
<1>1. ItemTypeOK
  <2>1. NewItem(1) \in ItemType
    BY DEF ItemType, Places
  <2>2. NoUpdate \in [read : {0}, count : {0}, place : {"void"}]
    OBVIOUS
  <2> QED
    BY <2>1, <2>2 DEF ItemTypeOK
<1>2. CountExact
  BY DEF CountExact
<1>3. SavedAsItIs /\ ReadsAreCurrent
  BY DEF SavedAsItIs, ReadsAreCurrent
<1> QED
  BY <1>1, <1>2, <1>3 DEF ItemInv, ItemsExact

\* Every setter, every step of a statement and every load keeps the invariant.
LEMMA ItemStepInv == ItemInv /\ [ItemNext]_itemVars => ItemInv'
<1> SUFFICES ASSUME ItemInv, [ItemNext]_itemVars PROVE ItemInv'
  OBVIOUS
<1> USE CountAssumption
<1> DEFINE Known == /\ item \in [Items -> ItemType] /\ exact \in [Items -> Int]
                    /\ \A i \in Items : item[i].count = exact[i]
<1>1. Known
  BY DEF ItemInv, ItemsExact, ItemTypeOK, CountExact
<1>2. ASSUME NEW i \in Items, NEW delta \in Deltas \cup {-item[i].count}, AddCount(i, delta)
      PROVE  ItemInv'
  <2> DEFINE sum == item[i].count + delta
  <2>1. delta \in (-CountMax - 1) .. CountMax /\ item[i].count \in 1 .. CountMax
    BY <1>1, DeltasAssumption DEF ItemType
  <2>2. Wrap32(sum) = sum /\ sum \in 1 .. CountMax
    BY <1>2, <2>1, AcceptedSumIsExact DEF AddCount
  <2>3. [item[i] EXCEPT !.count = Wrap32(sum)] \in ItemType
    BY <1>1, <2>2 DEF ItemType
  <2>4. exact' = [exact EXCEPT ![i] = Wrap32(sum)]
    BY <1>1, <1>2, <2>2 DEF AddCount
  <2>5. [item[i] EXCEPT !.count = Wrap32(sum)].count = Wrap32(sum)
    BY <1>1 DEF ItemType
  <2> QED
    BY <1>2, <2>3, <2>4, <2>5, SetKeeps DEF AddCount
<1>3. ASSUME NEW i \in Items, NEW count \in {0, CountMax}, SetCount(i, count) PROVE ItemInv'
  <2>1. /\ [item[i] EXCEPT !.count = count] \in ItemType
        /\ [item[i] EXCEPT !.count = count].count = count
    BY <1>1, <1>3 DEF SetCount, CountRefused, ItemType
  <2> QED
    BY <1>3, <2>1, SetKeeps DEF SetCount
<1>4. ASSUME NEW i \in Items, NEW enchant \in Enchants, SetEnchant(i, enchant) PROVE ItemInv'
  <2>1. /\ [item[i] EXCEPT !.enchant = enchant] \in ItemType
        /\ [item[i] EXCEPT !.enchant = enchant].count = item[i].count
    BY <1>1, <1>4, SetsAssumption DEF SetEnchant, ItemType
  <2> QED
    BY <1>4, <2>1, SetKeeps DEF SetEnchant
<1>5. ASSUME NEW i \in Items, NEW place \in Places, SetPlace(i, place) PROVE ItemInv'
  <2>1. /\ [item[i] EXCEPT !.place = place] \in ItemType
        /\ [item[i] EXCEPT !.place = place].count = item[i].count
    BY <1>1, <1>5 DEF ItemType
  <2> QED
    BY <1>5, <2>1, SetKeeps DEF SetPlace
<1> USE DEF ItemInv, ItemsExact
<1>6. ASSUME NEW i \in Items, CreateItem(i) PROVE ItemInv'
  <2>1. ItemTypeOK' /\ CountExact'
    BY <1>6 DEF CreateItem, ItemTypeOK, CountExact
  <2>2. SavedAsItIs' /\ ReadsAreCurrent'
    BY <1>6 DEF CreateItem, SavedAsItIs, ReadsAreCurrent, ItemTypeOK, NoUpdate
  <2> QED
    BY <2>1, <2>2
<1>7. ASSUME NEW i \in Items, ReadPlace(i) PROVE ItemInv'
  <2>1. item[i].place \in Places
    BY DEF ItemTypeOK, ItemType
  <2>2. ItemTypeOK' /\ CountExact'
    BY <1>7, <2>1 DEF ReadPlace, ItemTypeOK, CountExact
  <2>3. SavedAsItIs' /\ ReadsAreCurrent'
    BY <1>7 DEF ReadPlace, SavedAsItIs, ReadsAreCurrent, ItemTypeOK, NoUpdate
  <2> QED
    BY <2>2, <2>3
<1>8. ASSUME NEW i \in Items, ReadCount(i) PROVE ItemInv'
  <2>1. item[i].count \in 1 .. CountMax /\ update[i] \in [read : {1}, count : {0}, place : Places]
    BY <1>8 DEF ReadCount, ItemTypeOK, ItemType
  <2>2. [update[i] EXCEPT !.read = 2, !.count = item[i].count]
          \in [read : {2}, count : 1 .. CountMax, place : Places]
    BY <2>1
  <2>3. ItemTypeOK' /\ CountExact'
    BY <1>8, <2>2 DEF ReadCount, ItemTypeOK, CountExact
  <2>4. /\ update'[i].read = 2 /\ update'[i].count = item[i].count
        /\ update'[i].place = update[i].place
        /\ \A j \in Items \ {i} : update'[j] = update[j]
        /\ UNCHANGED <<item, irow, unsaved>>
    BY <1>8, <2>1 DEF ReadCount, ItemTypeOK
  <2>5. SavedAsItIs'
    BY <2>4 DEF SavedAsItIs, NoUpdate
  <2>6. ReadsAreCurrent'
    BY <2>1, <2>4 DEF ReadsAreCurrent
  <2> QED
    BY <2>3, <2>5, <2>6
<1>9. ASSUME NEW i \in Items, UpdateItem(i) PROVE ItemInv'
  <2>1. update[i] \in [read : {2}, count : 1 .. CountMax, place : Places] /\ item[i] \in ItemType
    BY <1>9 DEF UpdateItem, ItemTypeOK
  <2>2. WrittenItem(i) \in ItemType
    BY <2>1 DEF WrittenItem, ItemType
  <2>3. ItemTypeOK' /\ CountExact'
    BY <1>9, <2>2 DEF UpdateItem, ItemTypeOK, CountExact, NoUpdate
  <2>4. i \notin unsaved => WrittenItem(i) = item[i]
    BY <1>9, <2>1 DEF UpdateItem, ReadsAreCurrent, WrittenItem, ItemType
  <2>5. SavedAsItIs' /\ ReadsAreCurrent'
    BY <1>9, <2>4 DEF UpdateItem, SavedAsItIs, ReadsAreCurrent, ItemTypeOK, NoUpdate
  <2> QED
    BY <2>3, <2>5
<1>10. ASSUME NEW gone \in SUBSET Items, DeleteItems(gone) PROVE ItemInv'
  BY <1>10 DEF DeleteItems, ItemTypeOK, CountExact, SavedAsItIs, ReadsAreCurrent
<1>11. ASSUME NEW i \in Items, LoadItem(i) PROVE ItemInv'
  <2>1. irow[i] \in ItemType
    BY <1>11 DEF LoadItem, RowFits, ItemTypeOK, NoItem
  <2>2. ItemTypeOK' /\ CountExact'
    BY <1>11, <2>1 DEF LoadItem, ItemTypeOK, ItemType, CountExact, NoUpdate
  <2>3. SavedAsItIs' /\ ReadsAreCurrent'
    BY <1>11 DEF LoadItem, SavedAsItIs, ReadsAreCurrent, ItemTypeOK, NoUpdate
  <2> QED
    BY <2>2, <2>3
<1>12. ASSUME UNCHANGED itemVars PROVE ItemInv'
  BY <1>12 DEF itemVars, ItemTypeOK, CountExact, SavedAsItIs, ReadsAreCurrent
<1> QED
  BY <1>2, <1>3, <1>4, <1>5, <1>6, <1>7, <1>8, <1>9, <1>10, <1>11, <1>12 DEF ItemNext

\* ItemsExact, whatever the goroutines that set and save items do and wherever the
\* process is started again: AddCount's one comparison is enough, and what Update
\* writes of an untouched item is the item (model/item.go, db/item_repository.go).
THEOREM ItemsTheorem == ItemSpec => []ItemsExact
<1>1. ItemInv => ItemsExact
  BY DEF ItemInv
<1> QED
  BY <1>1, ItemInitInv, ItemStepInv, PTL DEF ItemSpec

-----------------------------------------------------------------------------
(* Characters.                                                              *)

InBounds(p) == \A s \in Stats : p.cur[s] \in 0 .. p.max[s] /\ p.max[s] >= MinMax(s)

PlayerType ==
  [level : 1 .. 80, exp : 0 .. ExpMax, heading : Headings \cup {0}, class : Classes,
   cur : [Stats -> Int], max : [Stats -> Int]]

\* The values a column may hold.
ColumnType(c) ==
  CASE c[1] = "heading" -> Headings \cup {0} [] c[1] = "level" -> 1 .. 80
    [] c[1] = "class" -> Classes [] c[1] = "exp" -> 0 .. ExpMax [] OTHER -> Int

\* A player and a row have all their fields, and every column read has a value of
\* its type.
StoreTypes ==
  /\ player \in PlayerType /\ InBounds(player)
  /\ row \in PlayerType \cup {NoRow} /\ (row # NoRow => FitsColumn(row.heading))
  /\ save \in {"no", "create", "update"} /\ (save = "no" => seen = NothingRead)
  /\ DOMAIN seen \subseteq ColumnsOf(save)
  /\ \A c \in DOMAIN seen : seen[c] \in ColumnType(c)
  /\ lastResult \in {"none", "ok", "error"} /\ changes \in 0 .. MaxChanges
  /\ noise \subseteq {"max", "other"} /\ torn \in BOOLEAN

\* While nothing changes, what has been read is still so.
ReadsStand == noise = {} => \A c \in DOMAIN seen : seen[c] = ValueOf(player, c)

\* While no maximum changes, a current value that has been read stays within it.
ReadsFit ==
  "max" \notin noise =>
    \A s \in Stats :
      /\ <<"cur", s>> \in DOMAIN seen => seen[<<"cur", s>>] \in 0 .. player.max[s]
      /\ <<"max", s>> \in DOMAIN seen => seen[<<"max", s>>] = player.max[s]

\* The row that a whole player was written to is that player but for the class.
StoredStands ==
  stored # NoRow =>
    /\ stored \in PlayerType /\ InBounds(stored)
    /\ row \in PlayerType /\ row = [stored EXCEPT !.class = row.class]

StoreInv == StoreTypes /\ ReadsStand /\ ReadsFit /\ StoredStands /\ TornOnlyIfRaced

-----------------------------------------------------------------------------
\* A new player has its full stats.
LEMMA NewPlayerInBounds ==
  ASSUME NEW level \in 1 .. 80, NEW class \in Classes
  PROVE  NewPlayer(level, class) \in PlayerType /\ InBounds(NewPlayer(level, class))
<1> DEFINE full == [s \in Stats |-> DefaultMax(s, level)]
<1>1. \A s \in Stats : DefaultMax(s, level) \in Int /\ DefaultMax(s, level) >= 1
  BY StatsAssumption DEF DefaultMax
<1>2. full \in [Stats -> Int] /\ \A s \in Stats : full[s] \in Int /\ full[s] >= 1
  BY <1>1
<1>3. NewPlayer(level, class) =
        [level |-> level, cur |-> full, max |-> full, exp |-> 0, heading |-> 0, class |-> class]
  BY DEF NewPlayer
<1> HIDE DEF full
<1>4. NewPlayer(level, class) \in PlayerType
  BY <1>2, <1>3, ExpAssumption DEF PlayerType
<1>5. InBounds(NewPlayer(level, class))
  BY <1>2, <1>3 DEF InBounds, MinMax
<1> QED
  BY <1>4, <1>5

\* Setting a current value leaves a player in bounds, and its maxima as they were.
LEMMA SetCurrentInBounds ==
  ASSUME NEW p \in PlayerType, InBounds(p), NEW s \in Stats, NEW v \in Int
  PROVE  /\ SetCurrent(p, s, v) \in PlayerType /\ InBounds(SetCurrent(p, s, v))
         /\ SetCurrent(p, s, v).max = p.max
<1> DEFINE value == AtMost(AtLeast(v, 0), p.max[s])
           q     == SetCurrent(p, s, v)
<1>1. p.max[s] \in Int /\ p.max[s] >= 0
  BY DEF PlayerType, InBounds, MinMax
<1>2. value \in 0 .. p.max[s]
  BY <1>1 DEF AtMost, AtLeast
<1> HIDE DEF value
<1>3. q = [p EXCEPT !.cur = [p.cur EXCEPT ![s] = value]]
  BY DEF SetCurrent, PlayerType, value
<1>4. [p.cur EXCEPT ![s] = value] \in [Stats -> Int]
  BY <1>2 DEF PlayerType
<1>5. q \in PlayerType /\ q.max = p.max /\ q.cur = [p.cur EXCEPT ![s] = value]
  BY <1>3, <1>4 DEF PlayerType
<1> HIDE DEF q
<1>6. \A t \in Stats : q.cur[t] = IF t = s THEN value ELSE p.cur[t]
  BY <1>5 DEF PlayerType
<1>7. InBounds(q)
  BY <1>2, <1>5, <1>6 DEF InBounds
<1> QED
  BY <1>5, <1>7 DEF q

\* Setting a maximum leaves a player in bounds.
LEMMA SetMaxInBounds ==
  ASSUME NEW p \in PlayerType, InBounds(p), NEW s \in Stats, NEW v \in Int
  PROVE  SetMax(p, s, v) \in PlayerType /\ InBounds(SetMax(p, s, v))
<1> DEFINE m     == AtLeast(v, MinMax(s))
           value == AtMost(p.cur[s], m)
           q     == SetMax(p, s, v)
<1>1. p.cur[s] \in Nat
  BY DEF PlayerType, InBounds
<1>2. m \in Int /\ m >= MinMax(s) /\ m >= 0
  BY DEF AtLeast, MinMax
<1>3. value \in 0 .. m
  BY <1>1, <1>2 DEF AtMost
<1>4. q = [p EXCEPT !.max = [p.max EXCEPT ![s] = m], !.cur = [p.cur EXCEPT ![s] = value]]
  BY DEF SetMax, PlayerType
<1> HIDE DEF m, value, q
<1>5. [p.max EXCEPT ![s] = m] \in [Stats -> Int] /\ [p.cur EXCEPT ![s] = value] \in [Stats -> Int]
  BY <1>2, <1>3 DEF PlayerType
<1>6. /\ q \in PlayerType
      /\ q.max = [p.max EXCEPT ![s] = m] /\ q.cur = [p.cur EXCEPT ![s] = value]
  BY <1>4, <1>5 DEF PlayerType
<1>7. \A t \in Stats : /\ q.max[t] = IF t = s THEN m ELSE p.max[t]
                       /\ q.cur[t] = IF t = s THEN value ELSE p.cur[t]
  BY <1>6 DEF PlayerType
<1>8. InBounds(q)
  BY <1>2, <1>3, <1>7 DEF InBounds
<1> QED
  BY <1>6, <1>8 DEF q

\* Whatever a row holds, the player made of it is in bounds; and it is the row, if
\* the row is in bounds itself.
LEMMA LoadMakesPlayer ==
  ASSUME NEW r \in PlayerType
  PROVE  /\ LoadByID(r) \in PlayerType /\ InBounds(LoadByID(r))
         /\ InBounds(r) => LoadByID(r) = r
<1> DEFINE new  == NewPlayer(r.level, r.class)
           high == [s \in Stats |-> AtLeast(r.max[s], MinMax(s))]
           part == SetAllMax(new, r.max)
           now  == [s \in Stats |-> AtMost(AtLeast(r.cur[s], 0), high[s])]
           q    == LoadByID(r)
<1>1. new \in PlayerType /\ new.level = r.level /\ new.class = r.class
  BY NewPlayerInBounds DEF PlayerType, NewPlayer
<1>2. \A s \in Stats : high[s] \in Int /\ high[s] >= MinMax(s) /\ high[s] >= 0
  BY DEF PlayerType, AtLeast, MinMax
<1>3. \A s \in Stats : now[s] \in 0 .. high[s]
  <2> SUFFICES ASSUME NEW s \in Stats PROVE now[s] \in 0 .. high[s]
    OBVIOUS
  <2>1. r.cur[s] \in Int /\ high[s] \in Int /\ high[s] >= 0
    BY <1>2 DEF PlayerType
  <2>2. now[s] = AtMost(AtLeast(r.cur[s], 0), high[s])
    OBVIOUS
  <2> QED
    BY <2>1, <2>2 DEF AtMost, AtLeast
<1>4. high \in [Stats -> Int] /\ now \in [Stats -> Int]
  BY <1>2, <1>3
<1>5. part.max = high /\ \A f \in {"level", "class"} : part[f] = new[f]
  BY <1>1 DEF SetAllMax, PlayerType
<1>6. part.level = r.level /\ part.class = r.class
  BY <1>1, <1>5
<1>7. q = [[part EXCEPT !.cur = now] EXCEPT !.heading = r.heading, !.exp = AtLeast(r.exp, 0)]
  BY <1>5 DEF LoadByID, SetAllCurrent
<1>8. AtLeast(r.exp, 0) = r.exp
  BY DEF AtLeast, PlayerType
<1> HIDE DEF part, new, high, now, q
<1>9. PICK exp, heading, cur :
        part = [level |-> r.level, exp |-> exp, heading |-> heading, class |-> r.class,
                cur |-> cur, max |-> high]
  <2>1. PICK full : new = [level |-> new.level, exp |-> new.exp, heading |-> new.heading,
                           class |-> new.class, cur |-> full, max |-> new.max]
    BY <1>1 DEF PlayerType
  <2>2. part \in [level : 1 .. 80, exp : 0 .. ExpMax, heading : Headings \cup {0},
                 class : Classes, cur : {part.cur}, max : {high}]
    BY <1>1, <2>1 DEF part, high, SetAllMax, PlayerType
  <2> QED
    BY <2>2, <1>5, <1>6
<1>10. [part EXCEPT !.cur = now] =
         [level |-> r.level, exp |-> exp, heading |-> heading, class |-> r.class,
          cur |-> now, max |-> high]
  BY <1>9
<1>11. q = [level |-> r.level, exp |-> r.exp, heading |-> r.heading, class |-> r.class,
            cur |-> now, max |-> high]
  BY <1>7, <1>8, <1>10
<1>12. q \in PlayerType /\ InBounds(q)
  <2>1. q \in PlayerType
    BY <1>4, <1>11 DEF PlayerType
  <2>2. q.cur = now /\ q.max = high
    BY <1>11
  <2> QED
    BY <2>1, <2>2, <1>2, <1>3 DEF InBounds
<1>13. ASSUME InBounds(r) PROVE q = r
  <2>1. \A s \in Stats : high[s] = r.max[s] /\ now[s] = r.cur[s]
    <3> SUFFICES ASSUME NEW s \in Stats PROVE high[s] = r.max[s] /\ now[s] = r.cur[s]
      OBVIOUS
    <3>1. r.max[s] \in Int /\ r.max[s] >= MinMax(s) /\ r.cur[s] \in 0 .. r.max[s]
      BY <1>13 DEF InBounds, PlayerType
    <3>2. high[s] = r.max[s]
      BY <3>1 DEF high, AtLeast, MinMax
    <3>3. now[s] = AtMost(AtLeast(r.cur[s], 0), high[s])
      BY DEF now
    <3> QED
      BY <3>1, <3>2, <3>3 DEF AtMost, AtLeast
  <2>2. high = r.max /\ now = r.cur
    BY <2>1, <1>4 DEF PlayerType
  <2> QED
    BY <2>2, <1>11 DEF PlayerType
<1> QED
  BY <1>12, <1>13 DEF q

\* The sum of two int64 is one, and a sum below zero becomes zero.
LEMMA ExperienceInRange ==
  ASSUME NEW exp \in 0 .. ExpMax, NEW gain \in Gains
  PROVE  AtLeast(Sum64(exp, gain), 0) \in 0 .. ExpMax
<1> DEFINE width == 2 * ExpMax + 2
           sum   == exp + gain + ExpMax + 1
<1>1. width \in Nat \ {0} /\ sum \in Int
  BY ExpAssumption
<1>2. sum % width \in 0 .. (width - 1)
  BY <1>1
<1>3. Sum64(exp, gain) = (sum % width) - ExpMax - 1
  BY DEF Sum64
<1> HIDE DEF sum
<1>4. Sum64(exp, gain) \in (-ExpMax - 1) .. ExpMax
  BY <1>2, <1>3, ExpAssumption
<1> QED
  BY <1>4, ExpAssumption DEF AtLeast

\* A setter that leaves the player in bounds keeps the invariant: it counts as
\* noise for a statement under way, and as one on the maxima if it changes them.
LEMMA ChangeKeeps ==
  ASSUME StoreInv, NEW after, NEW kind \in {"max", "other"}, Change(after, kind),
         \A p \in after : /\ p \in PlayerType /\ InBounds(p)
                          /\ kind = "other" => p.max = player.max
  PROVE  StoreInv'
<1> USE DEF StoreInv, Change
<1>1. /\ player' \in PlayerType /\ InBounds(player')
      /\ kind = "other" => player'.max = player.max
  OBVIOUS
<1>2. changes' \in 0 .. MaxChanges
  BY ChangesAssumption DEF StoreTypes
<1>3. noise' \subseteq {"max", "other"}
  BY DEF StoreTypes
<1>4. StoreTypes'
  BY <1>1, <1>2, <1>3 DEF StoreTypes, InBounds
<1>5. CASE save = "no"
  <2>1. DOMAIN seen' = {}
    BY <1>5 DEF StoreTypes, NothingRead
  <2>2. ReadsStand' /\ ReadsFit'
    BY <2>1 DEF ReadsStand, ReadsFit
  <2> QED
    BY <1>4, <2>2 DEF StoredStands, InBounds, TornOnlyIfRaced
<1>6. CASE save # "no"
  <2>1. kind \in noise' /\ noise \subseteq noise'
    BY <1>6
  <2>2. ReadsStand'
    BY <2>1 DEF ReadsStand
  <2>3. ReadsFit'
    BY <1>1, <2>1 DEF ReadsFit
  <2> QED
    BY <1>4, <2>2, <2>3 DEF StoredStands, InBounds, TornOnlyIfRaced
<1> QED
  BY <1>5, <1>6

\* The values of a whole player are of the columns' types.
LEMMA ValueOfType ==
  ASSUME NEW p \in PlayerType, NEW kind \in {"no", "create", "update"}, NEW c \in ColumnsOf(kind)
  PROVE  ValueOf(p, c) \in ColumnType(c)
<1>1. ASSUME NEW f \in Scalars, c = <<f, "one">> PROVE ValueOf(p, c) \in ColumnType(c)
  <2>1. c[1] = f /\ f \in {"heading", "level", "class", "exp"}
    BY <1>1 DEF Scalars
  <2>2. /\ p.heading \in Headings \cup {0} /\ p.level \in 1 .. 80
        /\ p.class \in Classes /\ p.exp \in 0 .. ExpMax
    BY DEF PlayerType
  <2> QED
    BY <2>1, <2>2 DEF ValueOf, ColumnType
<1>2. CASE \E s \in Stats : c \in {<<"cur", s>>, <<"max", s>>}
  BY <1>2 DEF ValueOf, ColumnType, PlayerType
<1> QED
  BY <1>1, <1>2 DEF ColumnsOf, Scalars

\* A column that is read holds what the player has.
LEMMA ReadKeeps == StoreInv /\ ReadColumn => StoreInv'
<1> SUFFICES ASSUME StoreInv, ReadColumn PROVE StoreInv'
  OBVIOUS
<1> USE DEF StoreInv
<1>1. PICK c \in ColumnsOf(save) :
        seen' = [d \in DOMAIN seen \cup {c} |-> IF d = c THEN ValueOf(player, c) ELSE seen[d]]
  BY DEF ReadColumn, Unread
<1>2. UNCHANGED <<player, row, save, lastResult, changes, noise, stored, torn>> /\ save # "no"
  BY DEF ReadColumn
<1>3. /\ DOMAIN seen' = DOMAIN seen \cup {c}
      /\ seen'[c] = ValueOf(player, c)
      /\ \A d \in DOMAIN seen' : d # c => seen'[d] = seen[d]
  BY <1>1
<1>4. ValueOf(player, c) \in ColumnType(c)
  BY ValueOfType DEF StoreTypes
<1>5. StoreTypes'
  <2>1. /\ DOMAIN seen' \subseteq ColumnsOf(save)
        /\ \A d \in DOMAIN seen' : seen'[d] \in ColumnType(d)
    BY <1>3, <1>4 DEF StoreTypes
  <2> QED
    BY <1>2, <2>1 DEF StoreTypes, InBounds
<1>6. ReadsStand'
  BY <1>2, <1>3 DEF ReadsStand
<1>7. ReadsFit'
  <2>1. ASSUME NEW s \in Stats, c = <<"cur", s>> PROVE seen'[<<"cur", s>>] \in 0 .. player.max[s]
    BY <1>3, <2>1 DEF StoreTypes, InBounds, ValueOf
  <2>2. ASSUME NEW s \in Stats, c = <<"max", s>> PROVE seen'[<<"max", s>>] = player.max[s]
    BY <1>3, <2>2 DEF ValueOf
  <2> QED
    BY <1>2, <1>3, <2>1, <2>2 DEF ReadsFit
<1> QED
  BY <1>2, <1>5, <1>6, <1>7 DEF StoredStands, InBounds, TornOnlyIfRaced

\* A statement that ends leaves nothing read; one that has written the row keeps
\* the invariant if the row it wrote does.
LEMMA EndKeeps ==
  ASSUME StoreInv, NEW how \in {"ok", "error"}, End(how),
         row' \in PlayerType \cup {NoRow}, row' # NoRow => FitsColumn(row'.heading), torn' \in BOOLEAN,
         StoredStands', TornOnlyIfRaced'
  PROVE  StoreInv'
<1> USE DEF StoreInv, End
<1>1. DOMAIN seen' = {}
  BY DEF NothingRead
<1>2. StoreTypes'
  BY <1>1 DEF StoreTypes, InBounds
<1>3. ReadsStand' /\ ReadsFit'
  BY <1>1 DEF ReadsStand, ReadsFit
<1> QED
  BY <1>2, <1>3

\* The row that a statement writes has its types; it is the player, if nothing has
\* changed since the statement began, and in bounds if no maximum has.
LEMMA WriteKeeps ==
  ASSUME StoreInv, NEW class \in Classes, End("ok"), Write(class),
         save # "no", FitsColumn(Argument("heading"))
  PROVE  StoreInv'
<1> DEFINE w    == WrittenRow(class)
           curs == [s \in Stats |-> seen[<<"cur", s>>]]
           tops == [s \in Stats |-> seen[<<"max", s>>]]
<1> USE DEF StoreInv
<1>1. /\ \A f \in Scalars \ {"class"} : <<f, "one">> \in DOMAIN seen
      /\ \A s \in Stats : <<"cur", s>> \in DOMAIN seen /\ <<"max", s>> \in DOMAIN seen
  BY DEF End, Unread, ColumnsOf
<1>2. /\ Argument("level") \in 1 .. 80 /\ Argument("exp") \in 0 .. ExpMax
      /\ Argument("heading") \in Headings \cup {0}
  <2>1. \A f \in Scalars \ {"class"} : Argument(f) \in ColumnType(<<f, "one">>)
    BY <1>1 DEF StoreTypes, Argument
  <2> QED
    BY <2>1 DEF ColumnType, Scalars
<1>3. curs \in [Stats -> Int] /\ tops \in [Stats -> Int]
  <2>1. \A s \in Stats : /\ seen[<<"cur", s>>] \in ColumnType(<<"cur", s>>)
                         /\ seen[<<"max", s>>] \in ColumnType(<<"max", s>>)
    BY <1>1 DEF StoreTypes
  <2>2. \A s \in Stats : seen[<<"cur", s>>] \in Int /\ seen[<<"max", s>>] \in Int
    BY <2>1 DEF ColumnType
  <2> QED
    BY <2>2
<1>4. w = [level |-> Argument("level"), exp |-> Argument("exp"), heading |-> Argument("heading"),
           cur |-> curs, max |-> tops, class |-> class]
  BY DEF WrittenRow
<1>5. row' = w /\ torn' = ("max" \in noise) /\ stored' = IF noise = {} THEN player ELSE NoRow
  BY DEF Write
<1> HIDE DEF w, curs, tops
<1>6. w \in PlayerType /\ FitsColumn(w.heading)
  BY <1>2, <1>3, <1>4 DEF PlayerType
<1>7. ASSUME noise = {} PROVE w = [player EXCEPT !.class = class]
  <2>1. /\ \A f \in Scalars \ {"class"} : Argument(f) = ValueOf(player, <<f, "one">>)
        /\ \A s \in Stats : /\ seen[<<"cur", s>>] = ValueOf(player, <<"cur", s>>)
                            /\ seen[<<"max", s>>] = ValueOf(player, <<"max", s>>)
    BY <1>1, <1>7 DEF ReadsStand, Argument
  <2>2. /\ Argument("level") = player.level /\ Argument("exp") = player.exp
        /\ Argument("heading") = player.heading
    BY <2>1 DEF ValueOf, Scalars
  <2>3. \A s \in Stats : curs[s] = player.cur[s] /\ tops[s] = player.max[s]
    BY <2>1 DEF ValueOf, curs, tops
  <2>4. curs = player.cur /\ tops = player.max
    BY <1>3, <2>3 DEF StoreTypes, PlayerType
  <2> QED
    BY <1>4, <2>2, <2>4 DEF StoreTypes, PlayerType
<1>8. StoredStands'
  <2>1. CASE noise = {}
    <3>1. w.class = class
      BY <1>4
    <3> QED
      BY <2>1, <3>1, <1>5, <1>6, <1>7 DEF StoredStands, StoreTypes, InBounds
  <2>2. CASE noise # {}
    BY <2>2, <1>5 DEF StoredStands
  <2> QED
    BY <2>1, <2>2
<1>9. TornOnlyIfRaced'
  <2>1. "max" \notin noise => \A s \in Stats : curs[s] \in 0 .. tops[s]
    BY <1>1 DEF ReadsFit, curs, tops
  <2>2. w.cur = curs /\ w.max = tops
    BY <1>4
  <2> QED
    BY <1>5, <2>1, <2>2 DEF TornOnlyIfRaced
<1>10. row' \in PlayerType /\ FitsColumn(row'.heading) /\ torn' \in BOOLEAN
  BY <1>5, <1>6
<1> QED
  BY <1>8, <1>9, <1>10, EndKeeps

\* A statement that changes nothing ends.
LEMMA LeaveKeeps ==
  ASSUME StoreInv, NEW how \in {"ok", "error"}, End(how), Leave
  PROVE  StoreInv'
<1>1. /\ row' \in PlayerType \cup {NoRow} /\ (row' # NoRow => FitsColumn(row'.heading))
      /\ torn' \in BOOLEAN
  BY DEF StoreInv, StoreTypes, Leave
<1>2. StoredStands' /\ TornOnlyIfRaced'
  BY DEF StoreInv, Leave, StoredStands, InBounds, TornOnlyIfRaced
<1> QED
  BY <1>1, <1>2, EndKeeps

\* A statement beside the one under way writes a part of the row, or removes it.
LEMMA ElsewhereKeeps ==
  ASSUME StoreInv, NEW newRow \in PlayerType \cup {NoRow}, NEW mayTear \in BOOLEAN,
         Elsewhere(newRow, mayTear),
         newRow # NoRow => /\ FitsColumn(newRow.heading)
                           /\ ~mayTear => \A s \in Stats : newRow.cur[s] \in 0 .. newRow.max[s]
  PROVE  StoreInv'
<1> USE DEF StoreInv, Elsewhere
<1>1. changes' \in 0 .. MaxChanges /\ noise' \subseteq {"max", "other"}
  <2>1. changes \in 0 .. MaxChanges /\ noise \subseteq {"max", "other"}
    BY DEF StoreTypes
  <2>2. changes < MaxChanges /\ changes' = changes + 1
    OBVIOUS
  <2>3. changes' \in 0 .. MaxChanges
    BY <2>1, <2>2, ChangesAssumption
  <2>4. noise' = {} \/ noise' = noise \cup {"other"}
    OBVIOUS
  <2> QED
    BY <2>1, <2>3, <2>4
<1>2. StoreTypes'
  BY <1>1 DEF StoreTypes, InBounds
<1>3. ReadsStand' /\ ReadsFit'
  <2>1. CASE save = "no"
    <3>1. DOMAIN seen' = {}
      BY <2>1 DEF StoreTypes, NothingRead
    <3> QED
      BY <3>1 DEF ReadsStand, ReadsFit
  <2>2. CASE save # "no"
    BY <2>2 DEF ReadsStand, ReadsFit
  <2> QED
    BY <2>1, <2>2
<1>4. StoredStands' /\ TornOnlyIfRaced'
  BY DEF StoredStands, TornOnlyIfRaced
<1> QED
  BY <1>2, <1>3, <1>4

\* A new player, no row.
LEMMA StoreInitInv == StoreInit => StoreInv
<1> SUFFICES ASSUME StoreInit PROVE StoreInv
  OBVIOUS
<1>1. player \in PlayerType /\ InBounds(player)
  BY NewPlayerInBounds DEF StoreInit
<1>2. DOMAIN seen = {}
  BY DEF StoreInit, NothingRead
<1>3. StoreTypes
  <2>1. DOMAIN seen \subseteq ColumnsOf(save) /\ \A c \in DOMAIN seen : seen[c] \in ColumnType(c)
    BY <1>2
  <2>2. /\ row = NoRow /\ save = "no" /\ seen = NothingRead /\ lastResult = "none"
        /\ changes \in 0 .. MaxChanges /\ noise = {} /\ torn = FALSE
    BY ChangesAssumption DEF StoreInit
  <2> QED
    BY <1>1, <2>1, <2>2 DEF StoreTypes
<1> QED
  BY <1>2, <1>3 DEF StoreInit, StoreInv, ReadsStand, ReadsFit, StoredStands, TornOnlyIfRaced

\* Every setter, every step of a statement and every restart keeps the invariant.
LEMMA StoreStepInv == StoreInv /\ [StoreNext]_storeVars => StoreInv'
<1> SUFFICES ASSUME StoreInv, [StoreNext]_storeVars PROVE StoreInv'
  OBVIOUS
<1>1. player \in PlayerType /\ InBounds(player) /\ row \in PlayerType \cup {NoRow}
  BY DEF StoreInv, StoreTypes
<1>2. CASE ChangeCurrent
  <2>1. \A s \in Stats, v \in Amounts :
          /\ SetCurrent(player, s, v) \in PlayerType /\ InBounds(SetCurrent(player, s, v))
          /\ SetCurrent(player, s, v).max = player.max
    BY <1>1, SetCurrentInBounds, StatsAssumption
  <2> QED
    BY <1>2, <2>1, ChangeKeeps DEF ChangeCurrent
<1>3. CASE ChangeMax
  <2>1. \A s \in Stats, v \in Amounts :
          SetMax(player, s, v) \in PlayerType /\ InBounds(SetMax(player, s, v))
    BY <1>1, SetMaxInBounds, StatsAssumption
  <2> QED
    BY <1>3, <2>1, ChangeKeeps DEF ChangeMax
<1>4. CASE GainOrLose
  <2>1. ASSUME NEW g \in Gains
        PROVE  /\ AddExperience(player, g) \in PlayerType /\ InBounds(AddExperience(player, g))
               /\ AddExperience(player, g).max = player.max
    <3>1. AtLeast(Sum64(player.exp, g), 0) \in 0 .. ExpMax
      BY <1>1, ExperienceInRange DEF PlayerType
    <3> QED
      BY <1>1, <3>1 DEF AddExperience, PlayerType, InBounds
  <2> QED
    BY <1>4, <2>1, ChangeKeeps DEF GainOrLose
<1>5. CASE SetLevel
  <2>1. PICK l \in Levels \cap 1 .. 80 : player' = [player EXCEPT !.level = l]
    BY <1>5 DEF SetLevel, Change
  <2>2. player' \in PlayerType /\ player'.cur = player.cur /\ player'.max = player.max
    BY <1>1, <2>1 DEF PlayerType
  <2>3. InBounds(player')
    BY <1>1, <2>2 DEF InBounds
  <2>4. Change({player'}, "other")
    BY <1>5 DEF SetLevel, Change
  <2> QED
    BY <2>2, <2>3, <2>4, ChangeKeeps
<1>6. CASE SetLocation
  <2>1. PICK h \in Headings : player' = [player EXCEPT !.heading = h]
    BY <1>6 DEF SetLocation, Change
  <2>2. player' \in PlayerType /\ player'.cur = player.cur /\ player'.max = player.max
    BY <1>1, <2>1 DEF PlayerType
  <2>3. InBounds(player')
    BY <1>1, <2>2 DEF InBounds
  <2>4. Change({player'}, "other")
    BY <1>6 DEF SetLocation, Change
  <2> QED
    BY <2>2, <2>3, <2>4, ChangeKeeps
<1>7. CASE SetClassID
  <2>1. PICK c \in Classes : player' = [player EXCEPT !.class = c]
    BY <1>7 DEF SetClassID, Change
  <2>2. player' \in PlayerType /\ player'.cur = player.cur /\ player'.max = player.max
    BY <1>1, <2>1 DEF PlayerType
  <2>3. InBounds(player')
    BY <1>1, <2>2 DEF InBounds
  <2>4. Change({player'}, "other")
    BY <1>7 DEF SetClassID, Change
  <2> QED
    BY <2>2, <2>3, <2>4, ChangeKeeps
<1>8. ASSUME NEW kind \in {"create", "update"}, Begin(kind) PROVE StoreInv'
  <2>1. DOMAIN seen' = {}
    BY <1>8 DEF Begin, StoreInv, StoreTypes, NothingRead
  <2>2. StoreTypes'
    BY <1>8, <2>1 DEF Begin, StoreInv, StoreTypes, InBounds
  <2>3. ReadsStand' /\ ReadsFit'
    BY <2>1 DEF ReadsStand, ReadsFit
  <2> QED
    BY <1>8, <2>2, <2>3 DEF Begin, StoreInv, StoredStands, InBounds, TornOnlyIfRaced
<1>9. CASE Create
  <2>1. CASE End("ok") /\ FitsColumn(Argument("heading")) /\ Write(Argument("class"))
    <3>1. <<"class", "one">> \in DOMAIN seen
      BY <1>9, <2>1 DEF Create, End, Unread, ColumnsOf, Scalars
    <3>2. Argument("class") \in ColumnType(<<"class", "one">>)
      BY <3>1 DEF Argument, StoreInv, StoreTypes
    <3>3. Argument("class") \in Classes
      BY <3>2 DEF ColumnType
    <3>4. save # "no"
      BY <1>9 DEF Create
    <3> QED
      BY <2>1, <3>3, <3>4, WriteKeeps
  <2>2. CASE End("error") /\ Leave
    BY <2>2, LeaveKeeps
  <2> QED
    BY <1>9, <2>1, <2>2 DEF Create
<1>10. CASE Update
  <2>1. CASE End("ok") /\ FitsColumn(Argument("heading")) /\ row # NoRow /\ Write(row.class)
    <3>1. row.class \in Classes /\ save # "no"
      BY <1>1, <1>10, <2>1 DEF PlayerType, Update
    <3> QED
      BY <2>1, <3>1, WriteKeeps
  <2>2. ASSUME NEW how \in {"ok", "error"}, End(how), Leave PROVE StoreInv'
    BY <2>2, LeaveKeeps
  <2> QED
    BY <1>10, <2>1, <2>2 DEF Update
<1>11. CASE UpdateLocation
  <2>1. PICK h \in Headings : FitsColumn(h) /\ Elsewhere([row EXCEPT !.heading = h], torn)
    BY <1>11 DEF UpdateLocation
  <2>2. row \in PlayerType
    BY <1>1, <2>1 DEF Elsewhere
  <2>3. /\ [row EXCEPT !.heading = h] \in PlayerType /\ [row EXCEPT !.heading = h].heading = h
        /\ [row EXCEPT !.heading = h].cur = row.cur /\ [row EXCEPT !.heading = h].max = row.max
    BY <2>2 DEF PlayerType
  <2>4. ~torn => \A s \in Stats : row.cur[s] \in 0 .. row.max[s]
    BY <2>1 DEF StoreInv, TornOnlyIfRaced, Elsewhere
  <2>5. torn \in BOOLEAN
    BY DEF StoreInv, StoreTypes
  <2> QED
    BY <2>1, <2>3, <2>4, <2>5, ElsewhereKeeps
<1>12. CASE UpdateStats
  <2>1. PICK v \in [Stats -> Amounts] : Elsewhere([row EXCEPT !.cur = v], TRUE)
    BY <1>12 DEF UpdateStats
  <2>2. row \in PlayerType /\ FitsColumn(row.heading)
    BY <1>1, <2>1 DEF Elsewhere, StoreInv, StoreTypes
  <2>3. v \in [Stats -> Int]
    BY StatsAssumption
  <2>4. [row EXCEPT !.cur = v] \in PlayerType /\ [row EXCEPT !.cur = v].heading = row.heading
    BY <2>2, <2>3 DEF PlayerType
  <2> QED
    BY <2>1, <2>2, <2>4, ElsewhereKeeps
<1>13. CASE Delete
  BY <1>13, ElsewhereKeeps DEF Delete
<1>14. CASE Restart
  <2>1. player' \in PlayerType /\ InBounds(player')
    BY <1>1, <1>14, LoadMakesPlayer DEF Restart
  <2>2. DOMAIN seen' = {}
    BY <1>14 DEF Restart, NothingRead
  <2>3. StoreTypes'
    BY <1>14, <2>1, <2>2 DEF Restart, StoreInv, StoreTypes, InBounds
  <2>4. ReadsStand' /\ ReadsFit'
    BY <2>2 DEF ReadsStand, ReadsFit
  <2> QED
    BY <1>14, <2>3, <2>4 DEF Restart, StoreInv, StoredStands, InBounds, TornOnlyIfRaced
<1>15. CASE UNCHANGED storeVars
  BY <1>15 DEF storeVars, StoreInv, StoreTypes, InBounds, ReadsStand, ReadsFit, StoredStands,
               TornOnlyIfRaced
<1> QED
  BY <1>2, <1>3, <1>4, <1>5, <1>6, <1>7, <1>8, <1>9, <1>10, <1>11, <1>12, <1>13, <1>14, <1>15,
     ReadKeeps DEF StoreNext, BeginCreate, BeginUpdate

\* The invariant says what the property asks: a row in bounds loads as it is.
LEMMA StoreInvSuffices == StoreInv => RowsMakePlayers
<1> SUFFICES ASSUME StoreInv PROVE RowsMakePlayers
  OBVIOUS
<1>1. StoreTypeOK
  BY DEF StoreInv, StoreTypes, StoreTypeOK, Fields, PlayerType
<1>2. BoundsHold
  BY DEF StoreInv, StoreTypes, InBounds, BoundsHold
<1>3. SavedRestores
  <2> SUFFICES ASSUME stored # NoRow PROVE LoadByID(row) = [stored EXCEPT !.class = row.class]
    BY DEF SavedRestores
  <2>1. /\ stored \in PlayerType /\ InBounds(stored)
        /\ row \in PlayerType /\ row = [stored EXCEPT !.class = row.class]
    BY DEF StoreInv, StoredStands
  <2>2. row.cur = stored.cur /\ row.max = stored.max
    BY <2>1 DEF PlayerType
  <2>3. InBounds(row)
    BY <2>1, <2>2 DEF InBounds
  <2> QED
    BY <2>1, <2>3, LoadMakesPlayer
<1> QED
  BY <1>1, <1>2, <1>3 DEF RowsMakePlayers, StoreInv

\* RowsMakePlayers, whatever is set, gained, saved, deleted and loaded, in any order
\* and wherever the process is started again: the order of LoadByID's setters is
\* what brings every row, a torn one included, back in bounds, and a row that was
\* written while nothing changed comes back as it was (db/character_repository.go).
THEOREM CharactersTheorem == StoreSpec => []RowsMakePlayers
<1> QED
  BY StoreInitInv, StoreStepInv, StoreInvSuffices, PTL DEF StoreSpec

-----------------------------------------------------------------------------
(* The AI controllers.  The step that needs most is the toggle: what it     *)
(* sets depends on an intention read before, and that intention on how many *)
(* ticks there were, which the tick has already counted (ParityInv).        *)

Started(c) == rpc[c] \in {"running", "returned"}

\* Only what has been stored is known, and only what has been started ticks.
StartedInv ==
  /\ registered \subseteq {c \in Controllers : rpc[c] # "no"}
  /\ \A c \in Controllers : c \in isRunning => Started(c)
  /\ \A c \in Controllers : InTick(c) => Started(c)
  /\ \A c \in Controllers : upc[c] # "no" => rpc[c] # "no"

\* An Unregister that did not overtake its Register stops the controller for good.
OvertakenInv ==
  \A c \in Controllers \ overtaken :
    /\ upc[c] # "no" => rpc[c] = "returned"
    /\ upc[c] \in {"stopped", "returned"} => c \notin isRunning

\* After n ticks the intention has been toggled back as often as away.
Even(n) == (n \div Every) % 2 = 0

\* A tick of c is counted in tickCount and has not toggled the intention yet.
Toggling(c) == ticking = c /\ tpc \in {"look", "set"}

StageInv ==
  /\ tpc \in {"look", "set"} => tickCount[ticking] >= 1
  /\ tpc = "set" => tickCount[ticking] % Every = 0

ParityInv ==
  \A c \in Controllers \ late :
    rpc[c] = "returned" /\ upc[c] \in {"no", "deleted"} =>
      /\ Toggling(c) => (intention[c] = "active" <=> Even(tickCount[c] - 1))
      /\ ~Toggling(c) => (intention[c] = "active" <=> Even(tickCount[c]))
      /\ Toggling(c) /\ tpc = "set" => looked = intention[c]

IInv == TickTypeOK /\ NoTickBeforeStart /\ StoppedIsIdle /\ StartedInv /\ OvertakenInv
          /\ StageInv /\ ParityInv

-----------------------------------------------------------------------------
(* The arithmetic of the toggle.                                            *)

LEMMA QuotientBounds ==
  ASSUME NEW n \in Int
  PROVE  /\ n \div Every \in Int /\ n % Every \in 0 .. Every - 1
         /\ n = (n \div Every) * Every + (n % Every)
BY TickAssumption

LEMMA ProductMonotone ==
  ASSUME NEW a \in Int, NEW b \in Int, a <= b
  PROVE  a * Every <= b * Every
BY TickAssumption

\* There is one multiple of Every at n or at most Every - 1 below it.
LEMMA QuotientUnique ==
  ASSUME NEW n \in Int, NEW q \in Int, q * Every <= n, n < q * Every + Every
  PROVE  n \div Every = q
<1> DEFINE p == n \div Every
<1>1. /\ p \in Int /\ p * Every \in Int /\ q * Every \in Int /\ Every \in Int
      /\ p * Every <= n /\ n < p * Every + Every
  BY QuotientBounds, TickAssumption
<1> HIDE DEF p
<1>2. ASSUME p >= q + 1 PROVE FALSE
  <2>1. (q + 1) * Every <= p * Every /\ (q + 1) * Every = q * Every + Every
    BY <1>1, <1>2, ProductMonotone
  <2> QED
    BY <1>1, <2>1
<1>3. ASSUME q >= p + 1 PROVE FALSE
  <2>1. (p + 1) * Every <= q * Every /\ (p + 1) * Every = p * Every + Every
    BY <1>1, <1>3, ProductMonotone
  <2> QED
    BY <1>1, <2>1
<1>4. p = q
  BY <1>1, <1>2, <1>3
<1> QED
  BY <1>4 DEF p

\* The n-th tick changes the parity exactly when it toggles.
LEMMA Toggle ==
  ASSUME NEW n \in Nat, n >= 1
  PROVE  /\ (n % Every) = 0 => (Even(n) <=> ~Even(n - 1))
         /\ (n % Every) # 0 => (Even(n) <=> Even(n - 1))
<1> DEFINE q == n \div Every
<1>1. /\ q \in Int /\ q * Every \in Int /\ Every \in Int /\ Every >= 1
      /\ n % Every \in 0 .. Every - 1 /\ n = q * Every + (n % Every)
  BY QuotientBounds, TickAssumption
<1>2. CASE (n % Every) = 0
  <2>1. (q - 1) * Every = q * Every - Every
    BY <1>1
  <2>2. (n - 1) \div Every = q - 1
    <3> HIDE DEF q
    <3>1. (q - 1) * Every <= n - 1 /\ n - 1 < (q - 1) * Every + Every
      BY <1>1, <1>2, <2>1
    <3> QED
      BY <1>1, <3>1, QuotientUnique
  <2>3. (q % 2) = 0 <=> ((q - 1) % 2) # 0
    BY <1>1
  <2> QED
    BY <1>2, <2>2, <2>3 DEF Even
<1>3. CASE (n % Every) # 0
  <2>1. (n - 1) \div Every = q
    <3> HIDE DEF q
    <3>1. q * Every <= n - 1 /\ n - 1 < q * Every + Every
      BY <1>1, <1>3
    <3> QED
      BY <1>1, <3>1, QuotientUnique
  <2> QED
    BY <1>3, <2>1 DEF Even
<1> QED
  BY <1>2, <1>3

\* Before the first toggle.
LEMMA FirstTicks ==
  ASSUME NEW n \in Nat, n < Every
  PROVE  Even(n) /\ (n >= 1 => Even(n - 1)) /\ (n >= 1 => (n % Every) # 0)
<1>1. n \div Every = 0
  BY QuotientUnique, TickAssumption
<1>2. ASSUME n >= 1 PROVE (n - 1) \div Every = 0 /\ (n % Every) # 0
  <2>1. (n - 1) \div Every = 0
    BY <1>2, QuotientUnique, TickAssumption
  <2>2. n = 0 * Every + (n % Every)
    BY <1>1, QuotientBounds
  <2> QED
    BY <1>2, <2>1, <2>2, TickAssumption
<1> QED
  BY <1>1, <1>2 DEF Even

-----------------------------------------------------------------------------
(* The steps.                                                               *)

\* The types; the histories hold controllers that were stored.
LEMMA TypeStep ==
    ASSUME TickTypeOK, StartedInv, [TickNext]_tickVars
    PROVE  TickTypeOK'
<1> USE TickAssumption DEF TickTypeOK, StartedInv, InTick, Started, others, loopVars
<1>1. ASSUME NEW c \in Controllers, StoreController(c) PROVE TickTypeOK'
  BY <1>1 DEF StoreController
<1>2. ASSUME NEW c \in Controllers, SetRunning(c) PROVE TickTypeOK'
  BY <1>2 DEF SetRunning
<1>3. ASSUME NEW c \in Controllers, SetActive(c) PROVE TickTypeOK'
  BY <1>3 DEF SetActive
<1>4. ASSUME NEW c \in Controllers, Unregister(c) PROVE TickTypeOK'
  BY <1>4 DEF Unregister
<1>5. ASSUME NEW c \in Controllers, ClearRunning(c) PROVE TickTypeOK'
  BY <1>5 DEF ClearRunning
<1>6. ASSUME NEW c \in Controllers, SetIdle(c) PROVE TickTypeOK'
  BY <1>6 DEF SetIdle
<1>7. ASSUME NEW c \in Controllers, Visit(c) PROVE TickTypeOK'
  BY <1>7 DEF Visit
<1>8. ASSUME TickAll PROVE TickTypeOK'
  BY <1>8 DEF TickAll
<1>9. ASSUME EndRange PROVE TickTypeOK'
  BY <1>9 DEF EndRange
<1>10. ASSUME CheckRunning PROVE TickTypeOK'
  BY <1>10 DEF CheckRunning
<1>11. ASSUME CountTick PROVE TickTypeOK'
  BY <1>11 DEF CountTick
<1>12. ASSUME Look PROVE TickTypeOK'
  BY <1>12 DEF Look
<1>13. ASSUME SetIntention PROVE TickTypeOK'
  BY <1>13 DEF SetIntention
<1>14. ASSUME UNCHANGED tickVars PROVE TickTypeOK'
  BY <1>14 DEF tickVars
<1> QED
  BY <1>1, <1>2, <1>3, <1>4, <1>5, <1>6, <1>7, <1>8, <1>9, <1>10, <1>11, <1>12, <1>13,
     <1>14 DEF TickNext

\* A tick goes on only after it has seen the controller running.
LEMMA StartedStep ==
    ASSUME TickTypeOK, StartedInv, [TickNext]_tickVars
    PROVE  StartedInv'
<1> USE DEF TickTypeOK, StartedInv, InTick, Started, others, loopVars
<1>1. ASSUME NEW c \in Controllers, StoreController(c) PROVE StartedInv'
  BY <1>1 DEF StoreController
<1>2. ASSUME NEW c \in Controllers, SetRunning(c) PROVE StartedInv'
  BY <1>2 DEF SetRunning
<1>3. ASSUME NEW c \in Controllers, SetActive(c) PROVE StartedInv'
  BY <1>3 DEF SetActive
<1>4. ASSUME NEW c \in Controllers, Unregister(c) PROVE StartedInv'
  BY <1>4 DEF Unregister
<1>5. ASSUME NEW c \in Controllers, ClearRunning(c) PROVE StartedInv'
  BY <1>5 DEF ClearRunning
<1>6. ASSUME NEW c \in Controllers, SetIdle(c) PROVE StartedInv'
  BY <1>6 DEF SetIdle
<1>7. ASSUME NEW c \in Controllers, Visit(c) PROVE StartedInv'
  BY <1>7 DEF Visit
<1>8. ASSUME TickAll PROVE StartedInv'
  BY <1>8 DEF TickAll
<1>9. ASSUME EndRange PROVE StartedInv'
  BY <1>9 DEF EndRange
<1>10. ASSUME CheckRunning PROVE StartedInv'
  BY <1>10 DEF CheckRunning
<1>11. ASSUME CountTick PROVE StartedInv'
  BY <1>11 DEF CountTick
<1>12. ASSUME Look PROVE StartedInv'
  BY <1>12 DEF Look
<1>13. ASSUME SetIntention PROVE StartedInv'
  BY <1>13 DEF SetIntention
<1>14. ASSUME UNCHANGED tickVars PROVE StartedInv'
  BY <1>14 DEF tickVars
<1> QED
  BY <1>1, <1>2, <1>3, <1>4, <1>5, <1>6, <1>7, <1>8, <1>9, <1>10, <1>11, <1>12, <1>13,
     <1>14 DEF TickNext

\* A controller that ticks has been started.
LEMMA CountStep ==
    ASSUME TickTypeOK, StartedInv, NoTickBeforeStart, [TickNext]_tickVars
    PROVE  NoTickBeforeStart'
<1> USE DEF TickTypeOK, StartedInv, InTick, Started, NoTickBeforeStart, others, loopVars
<1>1. ASSUME NEW c \in Controllers, StoreController(c) PROVE NoTickBeforeStart'
  BY <1>1 DEF StoreController
<1>2. ASSUME NEW c \in Controllers, SetRunning(c) PROVE NoTickBeforeStart'
  BY <1>2 DEF SetRunning
<1>3. ASSUME NEW c \in Controllers, SetActive(c) PROVE NoTickBeforeStart'
  BY <1>3 DEF SetActive
<1>4. ASSUME NEW c \in Controllers, Unregister(c) PROVE NoTickBeforeStart'
  BY <1>4 DEF Unregister
<1>5. ASSUME NEW c \in Controllers, ClearRunning(c) PROVE NoTickBeforeStart'
  BY <1>5 DEF ClearRunning
<1>6. ASSUME NEW c \in Controllers, SetIdle(c) PROVE NoTickBeforeStart'
  BY <1>6 DEF SetIdle
<1>7. ASSUME NEW c \in Controllers, Visit(c) PROVE NoTickBeforeStart'
  BY <1>7 DEF Visit
<1>8. ASSUME TickAll PROVE NoTickBeforeStart'
  BY <1>8 DEF TickAll
<1>9. ASSUME EndRange PROVE NoTickBeforeStart'
  BY <1>9 DEF EndRange
<1>10. ASSUME CheckRunning PROVE NoTickBeforeStart'
  BY <1>10 DEF CheckRunning
<1>11. ASSUME CountTick PROVE NoTickBeforeStart'
  BY <1>11 DEF CountTick
<1>12. ASSUME Look PROVE NoTickBeforeStart'
  BY <1>12 DEF Look
<1>13. ASSUME SetIntention PROVE NoTickBeforeStart'
  BY <1>13 DEF SetIntention
<1>14. ASSUME UNCHANGED tickVars PROVE NoTickBeforeStart'
  BY <1>14 DEF tickVars
<1> QED
  BY <1>1, <1>2, <1>3, <1>4, <1>5, <1>6, <1>7, <1>8, <1>9, <1>10, <1>11, <1>12, <1>13,
     <1>14 DEF TickNext

\* Start has returned before Stop begins, so it cannot undo it.
LEMMA OvertakenStep ==
    ASSUME TickTypeOK, OvertakenInv, [TickNext]_tickVars
    PROVE  OvertakenInv'
<1> USE DEF TickTypeOK, OvertakenInv, others, loopVars
<1>1. ASSUME NEW c \in Controllers, StoreController(c) PROVE OvertakenInv'
  BY <1>1 DEF StoreController
<1>2. ASSUME NEW c \in Controllers, SetRunning(c) PROVE OvertakenInv'
  BY <1>2 DEF SetRunning
<1>3. ASSUME NEW c \in Controllers, SetActive(c) PROVE OvertakenInv'
  BY <1>3 DEF SetActive
<1>4. ASSUME NEW c \in Controllers, Unregister(c) PROVE OvertakenInv'
  BY <1>4 DEF Unregister
<1>5. ASSUME NEW c \in Controllers, ClearRunning(c) PROVE OvertakenInv'
  BY <1>5 DEF ClearRunning
<1>6. ASSUME NEW c \in Controllers, SetIdle(c) PROVE OvertakenInv'
  BY <1>6 DEF SetIdle
<1>7. ASSUME NEW c \in Controllers, Visit(c) PROVE OvertakenInv'
  BY <1>7 DEF Visit
<1>8. ASSUME TickAll PROVE OvertakenInv'
  BY <1>8 DEF TickAll
<1>9. ASSUME EndRange PROVE OvertakenInv'
  BY <1>9 DEF EndRange
<1>10. ASSUME CheckRunning PROVE OvertakenInv'
  BY <1>10 DEF CheckRunning
<1>11. ASSUME CountTick PROVE OvertakenInv'
  BY <1>11 DEF CountTick
<1>12. ASSUME Look PROVE OvertakenInv'
  BY <1>12 DEF Look
<1>13. ASSUME SetIntention PROVE OvertakenInv'
  BY <1>13 DEF SetIntention
<1>14. ASSUME UNCHANGED tickVars PROVE OvertakenInv'
  BY <1>14 DEF tickVars
<1> QED
  BY <1>1, <1>2, <1>3, <1>4, <1>5, <1>6, <1>7, <1>8, <1>9, <1>10, <1>11, <1>12, <1>13,
     <1>14 DEF TickNext

\* After Stop only a late tick sets the intention.
LEMMA IdleStep ==
    ASSUME TickTypeOK, OvertakenInv, StoppedIsIdle, [TickNext]_tickVars
    PROVE  StoppedIsIdle'
<1> USE DEF TickTypeOK, OvertakenInv, StoppedIsIdle, others, loopVars
<1>1. ASSUME NEW c \in Controllers, StoreController(c) PROVE StoppedIsIdle'
  BY <1>1 DEF StoreController
<1>2. ASSUME NEW c \in Controllers, SetRunning(c) PROVE StoppedIsIdle'
  BY <1>2 DEF SetRunning
<1>3. ASSUME NEW c \in Controllers, SetActive(c) PROVE StoppedIsIdle'
  BY <1>3 DEF SetActive
<1>4. ASSUME NEW c \in Controllers, Unregister(c) PROVE StoppedIsIdle'
  BY <1>4 DEF Unregister
<1>5. ASSUME NEW c \in Controllers, ClearRunning(c) PROVE StoppedIsIdle'
  BY <1>5 DEF ClearRunning
<1>6. ASSUME NEW c \in Controllers, SetIdle(c) PROVE StoppedIsIdle'
  BY <1>6 DEF SetIdle
<1>7. ASSUME NEW c \in Controllers, Visit(c) PROVE StoppedIsIdle'
  BY <1>7 DEF Visit
<1>8. ASSUME TickAll PROVE StoppedIsIdle'
  BY <1>8 DEF TickAll
<1>9. ASSUME EndRange PROVE StoppedIsIdle'
  BY <1>9 DEF EndRange
<1>10. ASSUME CheckRunning PROVE StoppedIsIdle'
  BY <1>10 DEF CheckRunning
<1>11. ASSUME CountTick PROVE StoppedIsIdle'
  BY <1>11 DEF CountTick
<1>12. ASSUME Look PROVE StoppedIsIdle'
  BY <1>12 DEF Look
<1>13. ASSUME SetIntention PROVE StoppedIsIdle'
  BY <1>13 DEF SetIntention
<1>14. ASSUME UNCHANGED tickVars PROVE StoppedIsIdle'
  BY <1>14 DEF tickVars
<1> QED
  BY <1>1, <1>2, <1>3, <1>4, <1>5, <1>6, <1>7, <1>8, <1>9, <1>10, <1>11, <1>12, <1>13,
     <1>14 DEF TickNext

\* A tick is counted before it looks, and goes on to toggle on every Every-th only.
LEMMA StageStep ==
    ASSUME TickTypeOK, StageInv, [TickNext]_tickVars
    PROVE  StageInv'
<1> USE TickAssumption DEF TickTypeOK, StageInv, others, loopVars
<1>1. ASSUME NEW c \in Controllers, StoreController(c) PROVE StageInv'
  BY <1>1 DEF StoreController
<1>2. ASSUME NEW c \in Controllers, SetRunning(c) PROVE StageInv'
  BY <1>2 DEF SetRunning
<1>3. ASSUME NEW c \in Controllers, SetActive(c) PROVE StageInv'
  BY <1>3 DEF SetActive
<1>4. ASSUME NEW c \in Controllers, Unregister(c) PROVE StageInv'
  BY <1>4 DEF Unregister
<1>5. ASSUME NEW c \in Controllers, ClearRunning(c) PROVE StageInv'
  BY <1>5 DEF ClearRunning
<1>6. ASSUME NEW c \in Controllers, SetIdle(c) PROVE StageInv'
  BY <1>6 DEF SetIdle
<1>7. ASSUME NEW c \in Controllers, Visit(c) PROVE StageInv'
  BY <1>7 DEF Visit
<1>8. ASSUME TickAll PROVE StageInv'
  BY <1>8 DEF TickAll
<1>9. ASSUME EndRange PROVE StageInv'
  BY <1>9 DEF EndRange
<1>10. ASSUME CheckRunning PROVE StageInv'
  BY <1>10 DEF CheckRunning
<1>11. ASSUME CountTick PROVE StageInv'
  BY <1>11 DEF CountTick
<1>12. ASSUME Look PROVE StageInv'
  BY <1>12 DEF Look
<1>13. ASSUME SetIntention PROVE StageInv'
  BY <1>13 DEF SetIntention
<1>14. ASSUME UNCHANGED tickVars PROVE StageInv'
  BY <1>14 DEF tickVars
<1> QED
  BY <1>1, <1>2, <1>3, <1>4, <1>5, <1>6, <1>7, <1>8, <1>9, <1>10, <1>11, <1>12, <1>13,
     <1>14 DEF TickNext

\* The parity of the ticks follows the intention through each stage of a tick.
LEMMA ParityStep ==
    ASSUME TickTypeOK, StartedInv, StageInv, ParityInv, [TickNext]_tickVars
    PROVE  ParityInv'
<1> USE TickAssumption DEF TickTypeOK, StageInv, ParityInv, Toggling, others, loopVars
<1>1. ASSUME NEW c \in Controllers, StoreController(c) PROVE ParityInv'
  BY <1>1 DEF StoreController
<1>2. ASSUME NEW c \in Controllers, SetRunning(c) PROVE ParityInv'
  BY <1>2 DEF SetRunning
<1>3. ASSUME NEW c \in Controllers, SetActive(c) PROVE ParityInv'
  <2>1. ASSUME tickCount[c] < Every
        PROVE  /\ Even(tickCount[c])
               /\ Toggling(c) => tpc = "look" /\ Even(tickCount[c] - 1)
    BY <2>1, FirstTicks
  <2> QED
    BY <1>3, <2>1 DEF SetActive
<1>4. ASSUME NEW c \in Controllers, Unregister(c) PROVE ParityInv'
  BY <1>4 DEF Unregister
<1>5. ASSUME NEW c \in Controllers, ClearRunning(c) PROVE ParityInv'
  BY <1>5 DEF ClearRunning
<1>6. ASSUME NEW c \in Controllers, SetIdle(c) PROVE ParityInv'
  BY <1>6 DEF SetIdle
<1>7. ASSUME NEW c \in Controllers, Visit(c) PROVE ParityInv'
  BY <1>7 DEF Visit
<1>8. ASSUME TickAll PROVE ParityInv'
  BY <1>8 DEF TickAll
<1>9. ASSUME EndRange PROVE ParityInv'
  BY <1>9 DEF EndRange
<1>10. ASSUME CheckRunning PROVE ParityInv'
  BY <1>10 DEF CheckRunning
<1>11. ASSUME CountTick PROVE ParityInv'
  <2>1. tickCount'[ticking] - 1 = tickCount[ticking]
    BY <1>11 DEF CountTick
  <2> QED
    BY <1>11, <2>1 DEF CountTick
<1>12. ASSUME Look PROVE ParityInv'
  <2>1. /\ tickCount[ticking] \in Nat /\ tickCount[ticking] >= 1
    BY <1>12 DEF Look
  <2>2. (tickCount[ticking] % Every) # 0
          => (Even(tickCount[ticking]) <=> Even(tickCount[ticking] - 1))
    BY <2>1, Toggle
  <2> QED
    BY <1>12, <2>2 DEF Look
<1>13. ASSUME SetIntention PROVE ParityInv'
  <2>1. tickCount[ticking] \in Nat /\ tickCount[ticking] >= 1 /\ (tickCount[ticking] % Every) = 0
    BY <1>13 DEF SetIntention
  <2>2. Even(tickCount[ticking]) <=> ~Even(tickCount[ticking] - 1)
    BY <2>1, Toggle
  <2> QED
    BY <1>13, <2>2 DEF SetIntention
<1>14. ASSUME UNCHANGED tickVars PROVE ParityInv'
  BY <1>14 DEF tickVars
<1> QED
  BY <1>1, <1>2, <1>3, <1>4, <1>5, <1>6, <1>7, <1>8, <1>9, <1>10, <1>11, <1>12, <1>13,
     <1>14 DEF TickNext

LEMMA InitInv == TickInit => IInv
<1> SUFFICES ASSUME TickInit PROVE IInv
  OBVIOUS
<1> USE TickAssumption DEF TickInit
<1>1. TickTypeOK /\ NoTickBeforeStart
  BY DEF TickTypeOK, NoTickBeforeStart
<1>2. StoppedIsIdle /\ StartedInv /\ OvertakenInv
  BY DEF StoppedIsIdle, StartedInv, OvertakenInv, Started, InTick
<1>3. StageInv /\ ParityInv
  BY DEF StageInv, ParityInv, Toggling
<1> QED
  BY <1>1, <1>2, <1>3 DEF IInv

\* Every step keeps the invariant.
LEMMA StepInv == IInv /\ [TickNext]_tickVars => IInv'
BY TypeStep, StartedStep, CountStep, OvertakenStep, IdleStep, StageStep, ParityStep DEF IInv

\* TicksInStep for any number of controllers and of goroutines that register them:
\* the intention of an NPC follows its ticks from Start to Stop, whatever overlaps
\* (ai/manager.go, ai/basic_ai.go).
THEOREM TicksTheorem == TickSpec => []TicksInStep
<1>1. ASSUME IInv PROVE TogglesCounted
  <2> SUFFICES ASSUME NEW c \in Controllers \ late, rpc[c] = "returned",
                      upc[c] \in {"no", "deleted"}, ~InTick(c)
               PROVE  intention[c] = "active" <=> (tickCount[c] \div Every) % 2 = 0
    BY DEF TogglesCounted
  <2>1. ~Toggling(c)
    BY DEF InTick, Toggling
  <2> QED
    BY <1>1, <2>1 DEF IInv, ParityInv, Even
<1>2. IInv => TicksInStep
  BY <1>1 DEF IInv, TicksInStep
<1> QED
  BY <1>2, InitInv, StepInv, PTL DEF TickSpec
=============================================================================

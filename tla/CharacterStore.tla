--------------------------- MODULE CharacterStore ---------------------------
(***************************************************************************)
(* A player in memory (model/character.go, model/player.go) and its row in  *)
(* the table characters (db/character_repository.go).  Every setter and     *)
(* every getter takes the player's lock; Create and Update read the fields  *)
(* one by one and then run one statement.  The process may be started again *)
(* at any time: then the player is what LoadByID makes of the row.          *)
(***************************************************************************)
EXTENDS Integers

CONSTANTS
  Stats,      \* subset of {"hp", "mp", "cp"}
  Amounts,    \* values the setters of stats are called with
  Levels,     \* levels a player is created with or set to
  Headings,   \* values of Location.Heading, a uint16
  Classes,    \* class ids
  ExpMax,     \* the largest int64
  Gains,      \* experience gained or lost
  MaxChanges  \* bound: calls of setters, and of statements beside the one under way

ASSUME StatsAssumption  == Stats \subseteq {"hp", "mp", "cp"} /\ Amounts \subseteq Int
ASSUME LevelsAssumption == Levels \cap 1..80 # {} /\ Headings \subseteq 0..65535
ASSUME ExpAssumption    == ExpMax \in Nat /\ Gains \subseteq (-ExpMax - 1)..ExpMax
ASSUME ChangesAssumption == MaxChanges \in Nat

VARIABLES
  player,   \* the player in memory: level, cur, max, exp, heading, class
  row,      \* the row of the character, with the same fields, or NoRow
  save,     \* the statement under way: "no", "create", "update"
  seen,     \* the columns its arguments hold so far
  lastResult,   \* how the last statement ended: "none", "ok", "error"
  changes   \* calls counted against MaxChanges

\* History: what has changed since the statement under way began; the player that
\* the row was written from if nothing had changed; whether the row may hold more
\* of a stat than its maximum.
VARIABLES noise, stored, torn

storeVars == <<player, row, save, seen, lastResult, changes, noise, stored, torn>>

NoRow == [level |-> 0]

\* NewPlayer: full stats that grow with the level.
DefaultMax(s, level) ==
  CASE s = "hp" -> 1000 + level * 50 [] s = "mp" -> 500 + level * 25 [] s = "cp" -> 800 + level * 40

NewPlayer(level, class) ==
  LET full == [s \in Stats |-> DefaultMax(s, level)]
  IN  [level |-> level, cur |-> full, max |-> full, exp |-> 0, heading |-> 0, class |-> class]

\* No column has been read.
NothingRead == [c \in {} |-> 0]

StoreInit ==
  /\ \E level \in Levels \cap 1..80, c \in Classes : player = NewPlayer(level, c)
  /\ row = NoRow /\ save = "no" /\ seen = NothingRead /\ lastResult = "none" /\ changes = 0
  /\ noise = {} /\ stored = NoRow /\ torn = FALSE

-----------------------------------------------------------------------------
(* Setters.                                                                 *)

AtLeast(v, low) == IF v < low THEN low ELSE v
AtMost(v, high) == IF v > high THEN high ELSE v

SetCurrent(p, s, v) == [p EXCEPT !.cur[s] = AtMost(AtLeast(v, 0), p.max[s])]

MinMax(s) == IF s = "hp" THEN 1 ELSE 0

SetMax(p, s, v) ==
  LET m == AtLeast(v, MinMax(s)) IN [p EXCEPT !.max[s] = m, !.cur[s] = AtMost(@, m)]

\* The sum of two int64.
Sum64(a, b) == ((a + b + ExpMax + 1) % (2 * ExpMax + 2)) - ExpMax - 1

\* A sum past the largest int64 is negative, and becomes zero.
AddExperience(p, gain) == [p EXCEPT !.exp = AtLeast(Sum64(p.exp, gain), 0)]

\* Some goroutine of the game makes one of after of the player.
Change(after, kind) ==
  /\ changes < MaxChanges /\ changes' = changes + 1
  /\ player' \in after
  /\ noise' = IF save = "no" THEN {} ELSE noise \cup {kind}
  /\ UNCHANGED <<row, save, seen, lastResult, stored, torn>>

ChangeCurrent == Change({SetCurrent(player, s, v) : s \in Stats, v \in Amounts}, "other")
ChangeMax     == Change({SetMax(player, s, v) : s \in Stats, v \in Amounts}, "max")
GainOrLose    == Change({AddExperience(player, g) : g \in Gains}, "other")
SetLevel      == Change({[player EXCEPT !.level = l] : l \in Levels \cap 1..80}, "other")
SetLocation   == Change({[player EXCEPT !.heading = h] : h \in Headings}, "other")
SetClassID    == Change({[player EXCEPT !.class = c] : c \in Classes}, "other")

-----------------------------------------------------------------------------
(* The statements.                                                          *)

\* The columns that a statement writes, a stat in a pair of them, and the order in
\* which the statement's arguments are evaluated.
Scalars == {"heading", "level", "class", "exp"}

ColumnsOf(kind) ==
  {<<f, "one">> : f \in IF kind = "create" THEN Scalars ELSE Scalars \ {"class"}}
    \cup ({"cur", "max"} \X Stats)

Rank(c) ==
  CASE c[1] = "heading" -> 0 [] c[1] = "level" -> 1 [] c[1] = "class" -> 2 [] c[1] = "exp" -> 9
    [] OTHER -> (CASE c[2] = "hp" -> 3 [] c[2] = "mp" -> 5 [] c[2] = "cp" -> 7)
                  + (IF c[1] = "max" THEN 1 ELSE 0)

ValueOf(p, c) ==
  CASE c[1] = "heading" -> p.heading [] c[1] = "level" -> p.level
    [] c[1] = "class" -> p.class [] c[1] = "exp" -> p.exp
    [] c[1] = "cur" -> p.cur[c[2]] [] c[1] = "max" -> p.max[c[2]]

Unread == ColumnsOf(save) \ DOMAIN seen
Argument(f) == seen[<<f, "one">>]

Begin(kind) ==
  /\ save = "no" /\ save' = kind /\ noise' = {}
  /\ UNCHANGED <<player, row, seen, lastResult, changes, stored, torn>>

BeginCreate == Begin("create")
BeginUpdate == row # NoRow /\ Begin("update")

ReadColumn ==
  /\ save # "no"
  /\ \E c \in Unread :
       /\ \A d \in Unread : Rank(c) <= Rank(d)
       /\ seen' = [d \in DOMAIN seen \cup {c} |-> IF d = c THEN ValueOf(player, c) ELSE seen[d]]
  /\ UNCHANGED <<player, row, save, lastResult, changes, noise, stored, torn>>

\* The row that a statement writes.
WrittenRow(class) ==
  [level |-> Argument("level"), exp |-> Argument("exp"), heading |-> Argument("heading"),
   cur   |-> [s \in Stats |-> seen[<<"cur", s>>]],
   max   |-> [s \in Stats |-> seen[<<"max", s>>]], class |-> class]

\* The column is a SMALLINT.
FitsColumn(heading) == heading <= 32767

End(how) ==
  /\ Unread = {}
  /\ save' = "no" /\ seen' = NothingRead /\ noise' = {} /\ lastResult' = how
  /\ UNCHANGED <<player, changes>>

Write(class) ==
  /\ row' = WrittenRow(class)
  /\ torn' = ("max" \in noise)
  /\ stored' = IF noise = {} THEN player ELSE NoRow

Leave == UNCHANGED <<row, stored, torn>>

\* The name is unique: an insertion next to the row is refused.
Create ==
  /\ save = "create"
  /\ \/ End("ok")    /\ row = NoRow /\ FitsColumn(Argument("heading")) /\ Write(Argument("class"))
     \/ End("error") /\ (row # NoRow \/ ~FitsColumn(Argument("heading"))) /\ Leave

\* The class is not among the columns of Update; an update of a row that has been
\* deleted changes nothing and reports no error.
Update ==
  /\ save = "update"
  /\ \/ End("ok")    /\ FitsColumn(Argument("heading")) /\ row # NoRow /\ Write(row.class)
     \/ End("ok")    /\ FitsColumn(Argument("heading")) /\ row = NoRow /\ Leave
     \/ End("error") /\ ~FitsColumn(Argument("heading")) /\ Leave

\* Statements of other goroutines that write a part of the row, or remove it.
Elsewhere(newRow, mayTear) ==
  /\ changes < MaxChanges /\ changes' = changes + 1
  /\ row # NoRow /\ row' = newRow
  /\ noise' = IF save = "no" THEN {} ELSE noise \cup {"other"}
  /\ stored' = NoRow /\ torn' = mayTear
  /\ UNCHANGED <<player, save, seen, lastResult>>

UpdateLocation == \E h \in Headings : FitsColumn(h) /\ Elsewhere([row EXCEPT !.heading = h], torn)

\* The values are the caller's, above the row's maxima or below zero too.
UpdateStats == \E v \in [Stats -> Amounts] : Elsewhere([row EXCEPT !.cur = v], TRUE)

Delete == Elsewhere(NoRow, FALSE)

-----------------------------------------------------------------------------
(* LoadByID and LoadByAccountID: the player is made anew and then set.      *)

SetAllMax(p, values) ==
  [p EXCEPT !.max = [s \in Stats |-> AtLeast(values[s], MinMax(s))],
            !.cur = [s \in Stats |-> AtMost(@[s], AtLeast(values[s], MinMax(s)))]]

SetAllCurrent(p, values) == [p EXCEPT !.cur = [s \in Stats |-> AtMost(AtLeast(values[s], 0), p.max[s])]]

\* (Changed form: the current values are set before the maxima.)
LoadCurrentFirst(r) ==
  [SetAllMax(SetAllCurrent(NewPlayer(r.level, r.class), r.cur), r.max)
     EXCEPT !.heading = r.heading, !.exp = AtLeast(r.exp, 0)]

LoadByID(r) ==
  [SetAllCurrent(SetAllMax(NewPlayer(r.level, r.class), r.max), r.cur)
     EXCEPT !.heading = r.heading, !.exp = AtLeast(r.exp, 0)]

\* The process ends, whatever statement was under way, and a new one loads the
\* character.
Restart ==
  /\ row # NoRow /\ player' = LoadByID(row)
  /\ save' = "no" /\ seen' = NothingRead /\ lastResult' = "none" /\ noise' = {}
  /\ UNCHANGED <<row, changes, stored, torn>>

StoreNext ==
  \/ ChangeCurrent \/ ChangeMax \/ GainOrLose \/ SetLevel \/ SetLocation \/ SetClassID
  \/ BeginCreate \/ BeginUpdate \/ ReadColumn \/ Create \/ Update
  \/ UpdateLocation \/ UpdateStats \/ Delete \/ Restart

StoreSpec == StoreInit /\ [][StoreNext]_storeVars

-----------------------------------------------------------------------------
(* Properties.                                                              *)

Fields(p) ==
  /\ p.level \in 1..80 /\ p.exp \in 0..ExpMax /\ p.heading \in Headings \cup {0} /\ p.class \in Classes
  /\ p.cur \in [Stats -> Int] /\ p.max \in [Stats -> Int]

\* The variables have their types: the levels and the experience in memory and in
\* the row are in range whatever is added to them (model/player.go AddExperience).
StoreTypeOK ==
  /\ Fields(player) /\ (row # NoRow => Fields(row) /\ FitsColumn(row.heading))
  /\ save \in {"no", "create", "update"} /\ DOMAIN seen \subseteq ColumnsOf(save)
  /\ lastResult \in {"none", "ok", "error"} /\ changes \in 0..MaxChanges
  /\ noise \subseteq {"max", "other"} /\ torn \in BOOLEAN

\* The player in memory never has less than nothing or more of a stat than its
\* maximum, in whatever order the setters are called and whatever row, a torn one
\* included, the player is loaded from (model/character.go SetMaxHP, SetCurrentHP;
\* db/character_repository.go LoadByID).
BoundsHold == \A s \in Stats : player.cur[s] \in 0..player.max[s] /\ player.max[s] >= MinMax(s)

\* A player that was saved while nothing changed comes back as it was when the
\* process starts again, but for the class, which only the insertion stores.
SavedRestores == stored # NoRow => LoadByID(row) = [stored EXCEPT !.class = row.class]

\* The row holds a current value above its maximum or below zero only if the last
\* Create or Update was reading the fields while a maximum was set, or UpdateStats
\* has written the caller's values: no lock covers the statement's arguments.
TornOnlyIfRaced ==
  row # NoRow /\ ~torn => \A s \in Stats : row.cur[s] \in 0..row.max[s]

\* The rows and the players made of them: in bounds, equal to what was saved if
\* nothing interfered, and torn only by what is known to tear them.
RowsMakePlayers == StoreTypeOK /\ BoundsHold /\ SavedRestores /\ TornOnlyIfRaced

=============================================================================

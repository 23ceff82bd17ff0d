--------------------------- MODULE GameServerTable ---------------------------
(***************************************************************************)
(* The table of registered game servers (internal/gameserver/table.go): a  *)
(* map from server id to info, and a bitmap of two words that remembers    *)
(* which of the ids 0 .. 2*WordBits-1 are free, to find the first free id  *)
(* without walking the map.  Every operation holds the table's mutex, so   *)
(* it is one step.  The code's words have 64 bits.                         *)
(***************************************************************************)
EXTENDS Integers, Functions

CONSTANTS
    WordBits,     \* bits of one word of the bitmap
    Ids,          \* the server ids that can be asked for
    Infos,        \* GameServerInfo objects (bounds the registrations of a run:
                  \* when all are used, no further one is possible)
    HexIds,       \* the secrets game servers identify themselves with
    NoInfo, NoHex

ASSUME TableAssumption ==
    /\ WordBits \in Nat \ {0}
    /\ Ids \subseteq Nat
    /\ 0 .. (2 * WordBits - 1) \subseteq Ids
    /\ NoInfo \notin Infos
    /\ NoHex \notin HexIds

VARIABLES
    servers,      \* servers[id]: the registered info, NoInfo if none
    freeBitmap,   \* freeBitmap[w]: the positions of the bits of word w that are 1
    infoId,       \* infoId[i]: GameServerInfo.id
    hexId         \* hexId[i]: GameServerInfo.hexID, NoHex before i is allocated

tableVars == <<servers, freeBitmap, infoId, hexId>>

TableInit ==
    /\ servers = [id \in Ids |-> NoInfo]
    /\ freeBitmap = [w \in 0 .. 1 |-> 0 .. (WordBits - 1)]
    /\ infoId = [i \in Infos |-> 0]
    /\ hexId = [i \in Infos |-> NoHex]
-----------------------------------------------------------------------------
\* Word and bit of an id.  An id of 2*WordBits or more shifts its bit out of
\* the second word.
Word(id) == IF id < WordBits THEN 0 ELSE 1
Bit(id)  == id - Word(id) * WordBits

\* Changed form, for the checks of the properties: only the first word is updated.
MarkFirstWordUsed(id) ==
    IF id < WordBits THEN [freeBitmap EXCEPT ![0] = @ \ {id}] ELSE freeBitmap

MarkIDUsed(id) == [freeBitmap EXCEPT ![Word(id)] = @ \ {Bit(id)}]

MarkIDFree(id) ==
    IF Bit(id) < WordBits
    THEN [freeBitmap EXCEPT ![Word(id)] = @ \cup {Bit(id)}]
    ELSE freeBitmap

IsFree(id) == Bit(id) \in freeBitmap[Word(id)]

\* Changed form, for the checks of the properties: maxID itself is not searched.
SearchedBelow(maxID) == 1 .. (maxID - 1)

\* The ids that the search of firstAvailableID goes through: ids of the first
\* word, up to maxID only if maxID is one of them, then those of the second.
Searched(maxID) ==
    IF maxID \in 1 .. (WordBits - 1)
    THEN 1 .. maxID
    ELSE {id \in 1 .. (2 * WordBits - 1) : id < WordBits \/ id <= maxID}

\* The first id of the search whose bit is set, 0 if there is none.
FirstAvailableID(maxID) ==
    LET free == {id \in Searched(maxID) : IsFree(id)}
    IN  IF free = {} THEN 0 ELSE CHOOSE id \in free : \A j \in free : id <= j
-----------------------------------------------------------------------------
\* Registers a fresh info i with secret h under id.
Put(id, i, h) ==
    /\ i \in Infos /\ hexId[i] = NoHex
    /\ servers' = [servers EXCEPT ![id] = i]
    /\ freeBitmap' = MarkIDUsed(id)
    /\ infoId' = [infoId EXCEPT ![i] = id]
    /\ hexId' = [hexId EXCEPT ![i] = h]

\* Changed form, for the checks of the properties: the id is not looked up.
RegisterOver(id, i, h) == Put(id, i, h)

\* Register: fails, and changes nothing, if the id is taken.
Register(id, i, h) == servers[id] = NoInfo /\ Put(id, i, h)

\* RegisterWithFirstAvailableID: fails if the search finds no free id.
RegisterWithFirstAvailableID(maxID, i, h) ==
    /\ FirstAvailableID(maxID) # 0
    /\ Put(FirstAvailableID(maxID), i, h)

Remove(id) ==
    /\ servers' = [servers EXCEPT ![id] = NoInfo]
    /\ freeBitmap' = MarkIDFree(id)
    /\ UNCHANGED <<infoId, hexId>>

\* LoadFromDB, for the rows it gets through before an error ends it: a fresh
\* info with the row's secret for each id, put over whatever the table holds.
LoadFromDB(info, hex) ==
    LET rows   == DOMAIN info
        row(i) == CHOOSE id \in rows : info[id] = i
        loaded == {info[id] : id \in rows}
    IN  /\ \A i \in loaded : hexId[i] = NoHex
        /\ servers' = [id \in Ids |-> IF id \in rows THEN info[id] ELSE servers[id]]
        /\ freeBitmap' = [w \in 0 .. 1 |->
                            freeBitmap[w] \ {Bit(id) : id \in {j \in rows : Word(j) = w}}]
        /\ infoId' = [i \in Infos |-> IF i \in loaded THEN row(i) ELSE infoId[i]]
        /\ hexId' = [i \in Infos |-> IF i \in loaded THEN hex[row(i)] ELSE hexId[i]]

TableNext ==
    \/ \E id \in Ids, i \in Infos, h \in HexIds : Register(id, i, h)
    \/ \E maxID \in Ids, i \in Infos, h \in HexIds :
          RegisterWithFirstAvailableID(maxID, i, h)
    \/ \E id \in Ids : Remove(id)
    \/ \E rows \in SUBSET Ids :            \* server_id and hexid are unique columns
          \E hex \in Injection(rows, HexIds) :
              \E info \in Injection(rows, Infos) : LoadFromDB(info, hex)

TableSpec == TableInit /\ [][TableNext]_tableVars
-----------------------------------------------------------------------------
TableTypeOK ==
    /\ servers \in [Ids -> Infos \cup {NoInfo}]
    /\ freeBitmap \in [0 .. 1 -> SUBSET (0 .. (WordBits - 1))]
    /\ infoId \in [Infos -> Ids]
    /\ hexId \in [Infos -> HexIds \cup {NoHex}]

\* The bitmap and the map agree about every id that has a bit: whatever mix
\* of Register, RegisterWithFirstAvailableID, Remove (also of an id that is
\* not registered) and LoadFromDB (also over registered ids) came before.
BitmapAgrees ==
    \A id \in 0 .. (2 * WordBits - 1) : IsFree(id) <=> servers[id] = NoInfo

\* The search of the bitmap answers what a walk over the map would: the least
\* unregistered id up to maxID, or 0 if every id from 1 to maxID is taken.
\* In particular a server that is given an id never displaces another.
FirstFit ==
    \A maxID \in 1 .. (2 * WordBits - 1) :
        LET id == FirstAvailableID(maxID)
        IN  IF id = 0
            THEN \A j \in 1 .. maxID : servers[j] # NoInfo
            ELSE /\ id \in 1 .. maxID /\ servers[id] = NoInfo
                 /\ \A j \in 1 .. (id - 1) : servers[j] # NoInfo

\* A registered info carries the id it is registered under, and only that one.
IdMatches == \A id \in Ids : servers[id] # NoInfo => infoId[servers[id]] = id
=============================================================================

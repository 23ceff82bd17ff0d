--------------------------- MODULE GSListenerProofs ---------------------------
(***************************************************************************)
(* Proofs about GameServerTable and GSListener.  The table: the bitmap and  *)
(* the map agree for every width of the words and every set of ids, and     *)
(* the search of the bitmap is a first-fit search of the map.  The          *)
(* listener, for any number of connections, ids, secrets and infos: the     *)
(* inductive invariant behind its safety invariants, and that no handler    *)
(* displaces a registered server.                                           *)
(***************************************************************************)
EXTENDS GSListener, WellFoundedInduction, TLAPS

-----------------------------------------------------------------------------
(* The table.                                                               *)

\* A registered info has its secret, so a fresh one is in no place of the map.
SecretKnown == \A id \in Ids : servers[id] # NoInfo => hexId[servers[id]] # NoHex

TableInv == TableTypeOK /\ BitmapAgrees /\ IdMatches /\ SecretKnown
-----------------------------------------------------------------------------
LEMMA LeastExists ==
    ASSUME NEW S \in SUBSET Nat, S # {}
    PROVE  \E m \in S : \A n \in S : m <= n
<1>1. IsWellFoundedOn(OpToRel(<, Nat), Nat)
  BY NatLessThanWellFounded, Zenon
<1>2. PICK m \in S : \A n \in S : ~ (<<n, m>> \in OpToRel(<, Nat))
  BY <1>1, WFMin, Zenon
<1>3. \A n \in S : ~ (n < m)
  BY <1>2, Zenon DEF OpToRel
<1> QED
  BY <1>3

\* What the two loops of firstAvailableID return: a free id of the search
\* below which the search has no free id, or 0 when the search has none.
LEMMA SearchResult ==
    ASSUME NEW maxID \in Nat
    PROVE  LET id == FirstAvailableID(maxID)
           IN  \/ id = 0 /\ \A j \in Searched(maxID) : ~ IsFree(j)
               \/ /\ id \in Searched(maxID) /\ IsFree(id) /\ id \in 1 .. (2 * WordBits - 1)
                  /\ \A j \in Searched(maxID) : IsFree(j) => id <= j
<1> DEFINE free == {id \in Searched(maxID) : IsFree(id)}
<1>1. free \subseteq 1 .. (2 * WordBits - 1)
  BY TableAssumption DEF Searched
<1>2. CASE free = {}
  BY <1>2 DEF FirstAvailableID
<1>3. CASE free # {}
  <2> HIDE DEF free
  <2>0. free \in SUBSET Nat
    BY <1>1, TableAssumption
  <2>1. \E m \in free : \A n \in free : m <= n
    BY <2>0, <1>3, LeastExists
  <2>2. FirstAvailableID(maxID) = CHOOSE m \in free : \A n \in free : m <= n
    BY <1>3 DEF FirstAvailableID, free
  <2>3. /\ FirstAvailableID(maxID) \in free
        /\ \A n \in free : FirstAvailableID(maxID) <= n
    BY <2>1, <2>2
  <2> QED
    BY <1>1, <2>3 DEF free
<1> QED
  BY <1>2, <1>3

LEMMA SearchedUpToMax ==
    ASSUME NEW maxID \in 1 .. (2 * WordBits - 1)
    PROVE  Searched(maxID) = 1 .. maxID
<1>1. CASE maxID \in 1 .. (WordBits - 1)
  BY <1>1 DEF Searched
<1>2. CASE maxID \notin 1 .. (WordBits - 1)
  <2>1. WordBits \in Nat /\ maxID \in Nat /\ maxID >= WordBits /\ maxID <= 2 * WordBits - 1
    BY <1>2, TableAssumption
  <2>2. Searched(maxID) = {id \in 1 .. (2 * WordBits - 1) : id < WordBits \/ id <= maxID}
    BY <1>2 DEF Searched
  <2>3. \A id \in Int : (id \in 1 .. (2 * WordBits - 1) /\ (id < WordBits \/ id <= maxID))
                          <=> id \in 1 .. maxID
    BY <2>1
  <2> QED
    BY <2>2, <2>3, <2>1
<1> QED
  BY <1>1, <1>2
-----------------------------------------------------------------------------
LEMMA TableInitInv == TableInit => TableInv
<1> SUFFICES ASSUME TableInit PROVE TableInv
  OBVIOUS
<1> USE TableAssumption DEF TableInit
<1>1. TableTypeOK
  BY DEF TableTypeOK
<1>2. BitmapAgrees
  BY DEF BitmapAgrees, IsFree, Word, Bit
<1>3. IdMatches /\ SecretKnown
  BY DEF IdMatches, SecretKnown
<1> QED
  BY <1>1, <1>2, <1>3 DEF TableInv

\* Putting a fresh info under an unregistered id.
LEMMA PutInv ==
    ASSUME TableInv, NEW id \in Ids, NEW i \in Infos, NEW h \in HexIds,
           servers[id] = NoInfo, Put(id, i, h)
    PROVE  TableInv'
<1> USE TableAssumption
<1>1. TableTypeOK'
  BY DEF TableInv, TableTypeOK, Put, MarkIDUsed, Word, Bit
<1>2. BitmapAgrees'
  BY DEF TableInv, TableTypeOK, BitmapAgrees, Put, MarkIDUsed, IsFree, Word, Bit
<1>3. IdMatches'
  BY DEF TableInv, TableTypeOK, IdMatches, SecretKnown, Put
<1>4. SecretKnown'
  BY DEF TableInv, TableTypeOK, SecretKnown, Put
<1> QED
  BY <1>1, <1>2, <1>3, <1>4 DEF TableInv

\* An id found by the search is not registered, nobody is displaced.
LEMMA FoundIsUnregistered ==
    ASSUME TableInv, NEW maxID \in Ids, FirstAvailableID(maxID) # 0
    PROVE  FirstAvailableID(maxID) \in Ids /\ servers[FirstAvailableID(maxID)] = NoInfo
<1>1. /\ FirstAvailableID(maxID) \in 1 .. (2 * WordBits - 1)
      /\ IsFree(FirstAvailableID(maxID))
  BY SearchResult, TableAssumption
<1> QED
  BY <1>1, TableAssumption DEF TableInv, BitmapAgrees

LEMMA RemoveInv ==
    ASSUME TableInv, NEW id \in Ids, Remove(id)
    PROVE  TableInv'
<1> USE TableAssumption
<1>1. TableTypeOK'
  BY DEF TableInv, TableTypeOK, Remove, MarkIDFree, Word, Bit
<1>2. BitmapAgrees'
  BY DEF TableInv, TableTypeOK, BitmapAgrees, Remove, MarkIDFree, IsFree, Word, Bit
<1>3. IdMatches' /\ SecretKnown'
  BY DEF TableInv, TableTypeOK, IdMatches, SecretKnown, Remove
<1> QED
  BY <1>1, <1>2, <1>3 DEF TableInv

LEMMA LoadInv ==
    ASSUME TableInv,
           NEW rows \in SUBSET Ids,
           NEW hex \in Injection(rows, HexIds), NEW info \in Injection(rows, Infos),
           LoadFromDB(info, hex)
    PROVE  TableInv'
<1> USE TableAssumption
<1> DEFINE row(i) == CHOOSE id \in rows : info[id] = i
           loaded == {info[id] : id \in rows}
<1>1. /\ info \in [rows -> Infos] /\ hex \in [rows -> HexIds]
      /\ \A id, jd \in rows : info[id] = info[jd] => id = jd
  BY DEF Injection, IsInjective
<1>2. \A id \in rows : row(info[id]) = id
  BY <1>1
<1>3. \A i \in loaded : row(i) \in rows /\ i \in Infos
  BY <1>1, <1>2
<1>4. /\ \A i \in loaded : hexId[i] = NoHex
      /\ servers' = [id \in Ids |-> IF id \in rows THEN info[id] ELSE servers[id]]
      /\ freeBitmap' = [w \in 0 .. 1 |->
                          freeBitmap[w] \ {Bit(id) : id \in {j \in rows : Word(j) = w}}]
      /\ infoId' = [i \in Infos |-> IF i \in loaded THEN row(i) ELSE infoId[i]]
      /\ hexId' = [i \in Infos |-> IF i \in loaded THEN hex[row(i)] ELSE hexId[i]]
  BY <1>1 DEF LoadFromDB
<1> HIDE DEF row
<1>5. TableTypeOK'
  <2>1. servers' \in [Ids -> Infos \cup {NoInfo}]
    BY <1>1, <1>4 DEF TableInv, TableTypeOK
  <2>2. freeBitmap' \in [0 .. 1 -> SUBSET (0 .. (WordBits - 1))]
    BY <1>4 DEF TableInv, TableTypeOK
  <2>3. infoId' \in [Infos -> Ids] /\ hexId' \in [Infos -> HexIds \cup {NoHex}]
    BY <1>1, <1>3, <1>4 DEF TableInv, TableTypeOK
  <2> QED
    BY <2>1, <2>2, <2>3 DEF TableTypeOK
<1>6. BitmapAgrees'
  <2> SUFFICES ASSUME NEW id \in 0 .. (2 * WordBits - 1)
               PROVE  IsFree(id)' <=> servers'[id] = NoInfo
    BY DEF BitmapAgrees
  <2>1. /\ Word(id) \in 0 .. 1 /\ id \in Ids
        /\ \A j \in rows : Word(j) = Word(id) /\ Bit(j) = Bit(id) => j = id
    BY DEF Word, Bit
  <2>2. IsFree(id)' <=> IsFree(id) /\ id \notin rows
    BY <1>4, <2>1 DEF IsFree
  <2>3. servers'[id] = NoInfo <=> servers[id] = NoInfo /\ id \notin rows
    BY <1>1, <1>4, <2>1
  <2> QED
    BY <2>2, <2>3 DEF TableInv, BitmapAgrees
<1>7. IdMatches' /\ SecretKnown'
  <2> SUFFICES ASSUME NEW id \in Ids, servers'[id] # NoInfo
               PROVE  infoId'[servers'[id]] = id /\ hexId'[servers'[id]] # NoHex
    BY DEF IdMatches, SecretKnown
  <2>1. CASE id \in rows
    BY <1>1, <1>2, <1>4, <2>1
  <2>2. CASE id \notin rows
    BY <1>4, <2>2 DEF TableInv, TableTypeOK, IdMatches, SecretKnown
  <2> QED
    BY <2>1, <2>2
<1> QED
  BY <1>5, <1>6, <1>7 DEF TableInv

LEMMA TableNextInv == TableInv /\ [TableNext]_tableVars => TableInv'
<1> SUFFICES ASSUME TableInv, [TableNext]_tableVars PROVE TableInv'
  OBVIOUS
<1>1. ASSUME NEW id \in Ids, NEW i \in Infos, NEW h \in HexIds, Register(id, i, h)
      PROVE  TableInv'
  BY <1>1, PutInv DEF Register
<1>2. ASSUME NEW maxID \in Ids, NEW i \in Infos, NEW h \in HexIds,
             RegisterWithFirstAvailableID(maxID, i, h)
      PROVE  TableInv'
  BY <1>2, FoundIsUnregistered, PutInv DEF RegisterWithFirstAvailableID
<1>3. ASSUME NEW id \in Ids, Remove(id) PROVE TableInv'
  BY <1>3, RemoveInv
<1>4. ASSUME NEW rows \in SUBSET Ids, NEW hex \in Injection(rows, HexIds),
             NEW info \in Injection(rows, Infos), LoadFromDB(info, hex)
      PROVE  TableInv'
  BY <1>4, LoadInv
<1>5. CASE UNCHANGED tableVars
  BY <1>5 DEF tableVars, TableInv, TableTypeOK, BitmapAgrees, IsFree, IdMatches, SecretKnown
<1> QED
  BY <1>1, <1>2, <1>3, <1>4, <1>5 DEF TableNext

\* The invariant of every sequence of calls of the table.
THEOREM TableInvariance == TableSpec => []TableInv
<1> QED
  BY TableInitInv, TableNextInv, PTL DEF TableSpec

\* The search answers what a walk over the map would, whenever the bitmap
\* agrees with the map.
LEMMA FirstFitHolds == TableInv => FirstFit
<1> SUFFICES ASSUME TableInv, NEW maxID \in 1 .. (2 * WordBits - 1)
             PROVE  LET id == FirstAvailableID(maxID)
                    IN  IF id = 0
                        THEN \A j \in 1 .. maxID : servers[j] # NoInfo
                        ELSE /\ id \in 1 .. maxID /\ servers[id] = NoInfo
                             /\ \A j \in 1 .. (id - 1) : servers[j] # NoInfo
  BY Zenon DEF FirstFit
<1>1. \A j \in 1 .. maxID : IsFree(j) <=> servers[j] = NoInfo
  BY TableAssumption DEF TableInv, BitmapAgrees
<1>2. CASE FirstAvailableID(maxID) = 0
  BY <1>1, <1>2, SearchResult, SearchedUpToMax, TableAssumption
<1>3. CASE FirstAvailableID(maxID) # 0
  <2> DEFINE id == FirstAvailableID(maxID)
  <2>1. /\ id \in 1 .. maxID /\ IsFree(id)
        /\ \A j \in 1 .. maxID : IsFree(j) => id <= j
    BY <1>3, SearchResult, SearchedUpToMax, TableAssumption
  <2> HIDE DEF id
  <2>2. \A j \in 1 .. (id - 1) : j \in 1 .. maxID /\ ~ (id <= j)
    BY <2>1
  <2>3. id \in 1 .. maxID /\ servers[id] = NoInfo /\ \A j \in 1 .. (id - 1) : servers[j] # NoInfo
    BY <1>1, <2>1, <2>2
  <2> QED
    BY <1>3, <2>3 DEF id
<1> QED
  BY <1>2, <1>3

\* The bitmap of table.go agrees with the map after any sequence of calls.
THEOREM BitmapTheorem == TableSpec => []BitmapAgrees
<1>1. TableInv => BitmapAgrees
  BY DEF TableInv
<1> QED
  BY <1>1, TableInvariance, PTL

\* firstAvailableID finds the least unregistered id of 1..maxID.
THEOREM FirstFitTheorem == TableSpec => []FirstFit
<1> QED
  BY FirstFitHolds, TableInvariance, PTL

\* A registered info knows the id it is registered under.
THEOREM IdTheorem == TableSpec => []IdMatches
<1>1. TableInv => IdMatches
  BY DEF TableInv
<1> QED
  BY <1>1, TableInvariance, PTL

-----------------------------------------------------------------------------
(* The listener.                                                            *)

\* Which connections hold an info, and with which secret.
HoldsOK ==
    \A g \in Conns :
        /\ gstep[g] \in {"register", "port", "authed"} =>
              gstate[g] = "BF_CONNECTED" /\ secret[g] \in HexIds
        /\ target[g] # NoInfo <=> gstep[g] \in {"port", "authed"} \/ gstate[g] = "AUTHED"
        /\ target[g] # NoInfo => secret[g] \in HexIds

\* The port is set before the flag, and only a rival's cleanup takes it back.
PortBeforeAuthed ==
    \A g \in Conns :
        gstep[g] = "authed" /\ target[g] \notin contested => reachable[target[g]]

GSInv ==
    /\ GSTypeOK
    /\ TableInv
    /\ HoldsOK
    /\ PortBeforeAuthed
    /\ OwnsItsId
    /\ SoleOwnerUnlessContested
    /\ UpWhileOwned
    /\ NoOrphanedServer
-----------------------------------------------------------------------------
LEMMA GSInitInv == GSInit => GSInv
<1> SUFFICES ASSUME GSInit PROVE GSInv
  OBVIOUS
<1> USE DEF GSInit
<1>1. TableInv
  BY TableInitInv
<1>2. GSTypeOK
  BY <1>1, TableAssumption DEF GSTypeOK, TableInv
<1>3. HoldsOK /\ PortBeforeAuthed /\ OwnsItsId /\ SoleOwnerUnlessContested
  BY DEF HoldsOK, PortBeforeAuthed, OwnsItsId, SoleOwnerUnlessContested
<1>4. UpWhileOwned /\ NoOrphanedServer
  BY DEF UpWhileOwned, NoOrphanedServer
<1> QED
  BY <1>1, <1>2, <1>3, <1>4 DEF GSInv

\* A fresh info h of connection g: registered under a free id and finalized.
LEMMA RegistrationInv ==
    ASSUME GSInv, NEW g \in Conns, NEW id \in Ids, NEW i \in Infos, NEW h \in HexIds,
           gstate[g] = "BF_CONNECTED", gstep[g] \in {"read", "register"},
           servers[id] = NoInfo, Put(id, i, h), Finalize(g, i),
           asked' \in [Conns -> Ids],
           secret' = [secret EXCEPT ![g] = h],
           UNCHANGED <<gstate, online, infoVars>>
    PROVE  GSInv'
<1> USE TableAssumption DEF GSInv, Finalize, infoVars
<1>1. TableInv'
  BY PutInv
<1>2. GSTypeOK'
  BY <1>1 DEF GSTypeOK, TableInv
<1>3. \A o \in Conns : target[o] # i
  BY DEF HoldsOK, OwnsItsId, Put, GSTypeOK
<1>4. /\ target[g] = NoInfo
      /\ i # NoInfo
      /\ target' = [target EXCEPT ![g] = i]
      /\ gstep' = [gstep EXCEPT ![g] = "port"]
      /\ contested' = contested
  BY <1>3 DEF HoldsOK
<1>5. HoldsOK'
  BY <1>4 DEF HoldsOK, GSTypeOK
<1>6. PortBeforeAuthed'
  BY <1>4 DEF PortBeforeAuthed, GSTypeOK
<1>7. OwnsItsId'
  BY <1>3, <1>4 DEF OwnsItsId, GSTypeOK, TableTypeOK, Put
<1>8. SoleOwnerUnlessContested'
  BY <1>3, <1>4 DEF SoleOwnerUnlessContested, GSTypeOK
<1>9. UpWhileOwned' /\ NoOrphanedServer'
  BY <1>4 DEF UpWhileOwned, NoOrphanedServer, GSTypeOK
<1> QED
  BY <1>1, <1>2, <1>5, <1>6, <1>7, <1>8, <1>9

\* A refused request, whatever secret it presented.
LEMMA RefusalInv ==
    ASSUME GSInv, NEW g \in Conns, NEW h \in HexIds,
           gstate[g] = "BF_CONNECTED", gstep[g] \in {"read", "register"},
           Refuse(g),
           asked' \in [Conns -> Ids],
           secret' = [secret EXCEPT ![g] = h],
           UNCHANGED <<tableVars, gstate, online, infoVars>>
    PROVE  GSInv'
<1> USE DEF GSInv, Refuse, infoVars, tableVars
<1>1. TableInv'
  BY DEF TableInv, TableTypeOK, BitmapAgrees, IsFree, IdMatches, SecretKnown
<1>2. GSTypeOK'
  BY <1>1 DEF GSTypeOK, TableInv
<1>3. target[g] = NoInfo
  BY DEF HoldsOK
<1>4. HoldsOK' /\ PortBeforeAuthed'
  BY <1>3 DEF HoldsOK, PortBeforeAuthed, GSTypeOK
<1>5. OwnsItsId' /\ SoleOwnerUnlessContested'
  BY <1>3 DEF OwnsItsId, SoleOwnerUnlessContested, GSTypeOK
<1>6. UpWhileOwned' /\ NoOrphanedServer'
  BY DEF UpWhileOwned, NoOrphanedServer
<1> QED
  BY <1>1, <1>2, <1>4, <1>5, <1>6

\* A connection with the right secret reclaims a server.
LEMMA ReclaimInv ==
    ASSUME GSInv, NEW g \in Conns, NEW id \in Ids, NEW h \in HexIds,
           Reads(g, "BF_CONNECTED"),
           servers[id] # NoInfo, hexId[servers[id]] = h,
           ~ authed[servers[id]],
           Finalize(g, servers[id]),
           secret' = [secret EXCEPT ![g] = h],
           UNCHANGED <<tableVars, gstate, asked, online, infoVars>>
    PROVE  GSInv'
<1> DEFINE i == servers[id]
<1> USE DEF GSInv, Finalize, infoVars, tableVars, Reads
<1>1. TableInv'
  BY DEF TableInv, TableTypeOK, BitmapAgrees, IsFree, IdMatches, SecretKnown
<1>2. i \in Infos
  BY DEF TableInv, TableTypeOK
<1>3. GSTypeOK'
  BY <1>1, <1>2 DEF GSTypeOK, TableInv
<1>4. target[g] = NoInfo /\ contested \subseteq contested'
  BY DEF HoldsOK
<1>5. \A o \in Conns : target[o] = i => i \in contested'
  BY <1>2, TableAssumption DEF HoldsOK, UpWhileOwned
<1> HIDE DEF Finalize
<1>6. target' = [target EXCEPT ![g] = i] /\ gstep' = [gstep EXCEPT ![g] = "port"]
  BY DEF Finalize
<1>7. HoldsOK'
  BY <1>2, <1>6, TableAssumption DEF HoldsOK, GSTypeOK
<1>8. PortBeforeAuthed'
  BY <1>4, <1>6 DEF PortBeforeAuthed, GSTypeOK
<1>9. OwnsItsId'
  BY <1>6 DEF OwnsItsId, GSTypeOK, TableInv, IdMatches
<1>10. SoleOwnerUnlessContested'
  BY <1>4, <1>5, <1>6 DEF SoleOwnerUnlessContested, GSTypeOK
<1>11. UpWhileOwned' /\ NoOrphanedServer'
  BY <1>4, <1>6 DEF UpWhileOwned, NoOrphanedServer, GSTypeOK
<1> QED
  BY <1>1, <1>3, <1>7, <1>8, <1>9, <1>10, <1>11

LEMMA GameServerAuthInv ==
    ASSUME GSInv, NEW g \in Conns, NEW id \in RequestIds, NEW h \in HexIds,
           NEW alt \in BOOLEAN, GameServerAuth(g, id, h, alt)
    PROVE  GSInv'
<1> DEFINE i == servers[id]
<1> USE ListenerAssumption, TableAssumption
<1>1. /\ Reads(g, "BF_CONNECTED") /\ id \in Ids
      /\ secret' = [secret EXCEPT ![g] = h]
      /\ UNCHANGED <<gstate, online, infoVars>>
      /\ asked \in [Conns -> Ids]
  BY DEF GameServerAuth, GSInv, GSTypeOK
<1>2. CASE i # NoInfo /\ hexId[i] = h /\ Reclaim(g, i) /\ UNCHANGED <<tableVars, asked>>
  BY <1>1, <1>2, ReclaimInv, RefusalInv DEF Reclaim, Reads
<1>3. CASE i # NoInfo /\ hexId[i] # h /\ Alternate(g, h, alt) /\ UNCHANGED asked
  <2>1. CASE \E n \in Infos : /\ RegisterWithFirstAvailableID(MaxAlternate, n, h)
                              /\ Finalize(g, n)
    <3>1. PICK n \in Infos : RegisterWithFirstAvailableID(MaxAlternate, n, h) /\ Finalize(g, n)
      BY <2>1
    <3>2. MaxAlternate \in Ids /\ TableInv
      BY DEF GSInv
    <3>3. PICK free \in Ids : servers[free] = NoInfo /\ Put(free, n, h)
      BY <3>1, <3>2, FoundIsUnregistered DEF RegisterWithFirstAvailableID
    <3> QED
      BY <1>1, <1>3, <3>1, <3>3, RegistrationInv DEF Reads
  <2>2. CASE Refuse(g) /\ UNCHANGED tableVars
    BY <1>1, <1>3, <2>2, RefusalInv DEF Reads
  <2> QED
    BY <1>3, <2>1, <2>2 DEF Alternate
<1>4. CASE /\ i = NoInfo
           /\ gstep' = [gstep EXCEPT ![g] = "register"]
           /\ asked' = [asked EXCEPT ![g] = id]
           /\ UNCHANGED <<tableVars, target, contested>>
  <2> USE <1>1, <1>4 DEF GSInv, Reads, infoVars, tableVars
  <2>1. TableInv'
    BY DEF TableInv, TableTypeOK, BitmapAgrees, IsFree, IdMatches, SecretKnown
  <2>2. GSTypeOK'
    BY <2>1 DEF GSTypeOK, TableInv
  <2>3. HoldsOK' /\ PortBeforeAuthed'
    BY DEF HoldsOK, PortBeforeAuthed, GSTypeOK
  <2>4. OwnsItsId' /\ SoleOwnerUnlessContested'
    BY DEF HoldsOK, OwnsItsId, SoleOwnerUnlessContested, GSTypeOK
  <2>5. UpWhileOwned' /\ NoOrphanedServer'
    BY DEF UpWhileOwned, NoOrphanedServer
  <2> QED
    BY <2>1, <2>2, <2>3, <2>4, <2>5
<1> QED
  BY <1>2, <1>3, <1>4 DEF GameServerAuth

LEMMA RegisterNewInv ==
    ASSUME GSInv, NEW g \in Conns, RegisterNew(g)
    PROVE  GSInv'
<1>1. /\ gstate[g] = "BF_CONNECTED" /\ gstep[g] = "register"
      /\ secret[g] \in HexIds /\ asked[g] \in Ids
      /\ secret' = [secret EXCEPT ![g] = secret[g]]
      /\ asked' \in [Conns -> Ids]
      /\ UNCHANGED <<gstate, online, infoVars>>
  BY TableAssumption DEF RegisterNew, GSInv, GSTypeOK, HoldsOK
<1>2. CASE \E i \in Infos : Register(asked[g], i, secret[g]) /\ Finalize(g, i)
  BY <1>1, <1>2, RegistrationInv DEF Register
<1>3. CASE servers[asked[g]] # NoInfo /\ Refuse(g) /\ UNCHANGED tableVars
  BY <1>1, <1>3, RefusalInv
<1> QED
  BY <1>2, <1>3 DEF RegisterNew

\* The steps that leave the table alone.
LEMMA SameTable == TableInv /\ UNCHANGED tableVars => TableInv'
BY DEF TableInv, TableTypeOK, BitmapAgrees, IsFree, IdMatches, SecretKnown, tableVars

LEMMA CleanupInv ==
    ASSUME GSInv, NEW g \in Conns, Cleanup(g)
    PROVE  GSInv'
<1> USE DEF GSInv, Cleanup, SetDown, infoVars
<1>1. TableInv'
  BY SameTable
<1>2. GSTypeOK'
  BY <1>1, TableAssumption DEF GSTypeOK, TableInv
<1>3. HoldsOK'
  BY DEF HoldsOK, GSTypeOK
<1>4. \A o \in Conns :
         o # g /\ target[o] # NoInfo /\ target[o] \notin contested => target[o] # target[g]
  BY DEF SoleOwnerUnlessContested
<1>5. PortBeforeAuthed'
  BY <1>4 DEF HoldsOK, PortBeforeAuthed, GSTypeOK
<1>6. OwnsItsId' /\ SoleOwnerUnlessContested'
  BY DEF OwnsItsId, SoleOwnerUnlessContested, GSTypeOK, tableVars
<1>7. UpWhileOwned'
  BY <1>4 DEF UpWhileOwned, HoldsOK, GSTypeOK
<1>8. NoOrphanedServer'
  <2> SUFFICES ASSUME NEW i \in Infos, authed'[i]
               PROVE  \E o \in Conns : gstate'[o] = "AUTHED" /\ target'[o] = i
    BY DEF NoOrphanedServer
  <2>1. authed[i] /\ target[g] # i
    BY TableAssumption DEF GSTypeOK
  <2>2. PICK o \in Conns : gstate[o] = "AUTHED" /\ target[o] = i
    BY <2>1 DEF NoOrphanedServer
  <2> QED
    BY <2>1, <2>2 DEF GSTypeOK
<1> QED
  BY <1>1, <1>2, <1>3, <1>5, <1>6, <1>7, <1>8

LEMMA FinalizePortInv ==
    ASSUME GSInv, NEW g \in Conns, FinalizePort(g)
    PROVE  GSInv'
<1> USE DEF GSInv, FinalizePort
<1>1. TableInv'
  BY SameTable
<1>2. GSTypeOK'
  BY <1>1 DEF GSTypeOK, TableInv
<1>3. HoldsOK'
  BY DEF HoldsOK, GSTypeOK
<1>4. PortBeforeAuthed'
  BY DEF HoldsOK, PortBeforeAuthed, GSTypeOK
<1>5. OwnsItsId' /\ SoleOwnerUnlessContested'
  BY DEF OwnsItsId, SoleOwnerUnlessContested, tableVars
<1>6. UpWhileOwned' /\ NoOrphanedServer'
  BY DEF UpWhileOwned, NoOrphanedServer, GSTypeOK
<1> QED
  BY <1>1, <1>2, <1>3, <1>4, <1>5, <1>6

LEMMA FinalizeAuthedInv ==
    ASSUME GSInv, NEW g \in Conns, FinalizeAuthed(g)
    PROVE  GSInv'
<1> USE DEF GSInv, FinalizeAuthed
<1>1. TableInv'
  BY SameTable
<1>2. target[g] \in Infos
  BY DEF HoldsOK, GSTypeOK
<1>3. GSTypeOK'
  BY <1>1, <1>2, TableAssumption DEF GSTypeOK, TableInv
<1>4. HoldsOK' /\ PortBeforeAuthed'
  BY DEF HoldsOK, PortBeforeAuthed, GSTypeOK
<1>5. OwnsItsId' /\ SoleOwnerUnlessContested'
  BY DEF OwnsItsId, SoleOwnerUnlessContested, tableVars
<1>6. UpWhileOwned'
  BY <1>2 DEF UpWhileOwned, PortBeforeAuthed, GSTypeOK
<1>7. NoOrphanedServer'
  BY DEF NoOrphanedServer, GSTypeOK
<1> QED
  BY <1>1, <1>3, <1>4, <1>5, <1>6, <1>7

\* Steps of one connection that touch neither the table nor who holds what.
LEMMA PacketInv ==
    ASSUME GSInv, NEW g \in Conns,
           \/ Connect(g) \/ BlowFishKey(g) \/ Drop(g)
           \/ \E players \in SUBSET Accounts : PlayerInGame(g, players)
           \/ \E a \in Accounts : PlayerLogout(g, a)
           \/ \E s \in {"auto", "down", "other"} : ServerStatus(g, s)
    PROVE  GSInv'
<1> USE DEF GSInv, Connect, BlowFishKey, Drop, PlayerInGame, PlayerLogout,
            ServerStatus, Reads, infoVars, connVars
<1>1. TableInv'
  BY SameTable
<1>2. GSTypeOK'
  BY <1>1 DEF GSTypeOK, TableInv
<1>3. HoldsOK'
  BY DEF HoldsOK, GSTypeOK
<1>4. PortBeforeAuthed'
  BY DEF PortBeforeAuthed, GSTypeOK
<1>5. OwnsItsId' /\ SoleOwnerUnlessContested'
  BY DEF OwnsItsId, SoleOwnerUnlessContested, tableVars
<1>6. UpWhileOwned'
  BY DEF UpWhileOwned, GSTypeOK
<1>7. NoOrphanedServer'
  BY DEF NoOrphanedServer, GSTypeOK, HoldsOK
<1> QED
  BY <1>1, <1>2, <1>3, <1>4, <1>5, <1>6, <1>7

LEMMA GSNextInv == GSInv /\ [GSNext]_gsVars => GSInv'
<1> SUFFICES ASSUME GSInv, [GSNext]_gsVars PROVE GSInv'
  OBVIOUS
<1>1. CASE UNCHANGED gsVars
  <2> USE <1>1 DEF GSInv, gsVars, connVars, infoVars
  <2>1. TableInv'
    BY SameTable
  <2>2. GSTypeOK'
    BY <2>1 DEF GSTypeOK, TableInv
  <2>3. HoldsOK' /\ PortBeforeAuthed'
    BY DEF HoldsOK, PortBeforeAuthed
  <2>4. OwnsItsId' /\ SoleOwnerUnlessContested' /\ UpWhileOwned' /\ NoOrphanedServer'
    BY DEF OwnsItsId, SoleOwnerUnlessContested, UpWhileOwned, NoOrphanedServer, tableVars
  <2> QED
    BY <2>1, <2>2, <2>3, <2>4
<1>2. ASSUME NEW g \in Conns, ConnNext(g) PROVE GSInv'
  BY <1>2, PacketInv, CleanupInv, GameServerAuthInv, RegisterNewInv,
     FinalizePortInv, FinalizeAuthedInv DEF ConnNext
<1> QED
  BY <1>1, <1>2 DEF GSNext
-----------------------------------------------------------------------------
\* The invariant of the listener.
THEOREM GSInvariance == GSSpec => []GSInv
<1> QED
  BY GSInitInv, GSNextInv, PTL DEF GSSpec

\* An authenticated connection holds the info registered under the id it was
\* told, and had presented that info's secret.
THEOREM OwnsItsIdTheorem == GSSpec => []OwnsItsId
<1>1. GSInv => OwnsItsId
  BY DEF GSInv
<1> QED
  BY <1>1, GSInvariance, PTL

\* A server has two connections only if both checked IsAuthed before either
\* of them had set it.
THEOREM SoleOwnerTheorem == GSSpec => []SoleOwnerUnlessContested
<1>1. GSInv => SoleOwnerUnlessContested
  BY DEF GSInv
<1> QED
  BY <1>1, GSInvariance, PTL

\* An uncontested server that is connected is marked so and has its port.
THEOREM UpWhileOwnedTheorem == GSSpec => []UpWhileOwned
<1>1. GSInv => UpWhileOwned
  BY DEF GSInv
<1> QED
  BY <1>1, GSInvariance, PTL

\* A server that is marked authenticated has a connection that will unmark it.
THEOREM NoOrphanTheorem == GSSpec => []NoOrphanedServer
<1>1. GSInv => NoOrphanedServer
  BY DEF GSInv
<1> QED
  BY <1>1, GSInvariance, PTL

LEMMA StepDisplacesNobody ==
    ASSUME GSInv, [GSNext]_gsVars
    PROVE  [\A id \in Ids : servers[id] # NoInfo => servers'[id] = servers[id]]_gsVars
<1> DEFINE Kept == \A id \in Ids : servers[id] # NoInfo => servers'[id] = servers[id]
<1>1. ASSUME NEW id \in Ids, NEW i \in Infos, NEW h \in HexIds,
             servers[id] = NoInfo, Put(id, i, h)
      PROVE  Kept
  BY <1>1 DEF Put, GSInv, TableInv, TableTypeOK
<1>2. ASSUME NEW g \in Conns, NEW id \in RequestIds, NEW h \in HexIds,
             NEW alt \in BOOLEAN, GameServerAuth(g, id, h, alt)
      PROVE  Kept
  <2>1. UNCHANGED servers \/ Alternate(g, h, alt)
    BY <1>2 DEF GameServerAuth, tableVars
  <2>2. ASSUME NEW n \in Infos, RegisterWithFirstAvailableID(MaxAlternate, n, h)
        PROVE  Kept
    <3>1. MaxAlternate \in Ids /\ TableInv
      BY ListenerAssumption, TableAssumption DEF GSInv
    <3> QED
      BY <1>1, <2>2, <3>1, FoundIsUnregistered DEF RegisterWithFirstAvailableID
  <2> QED
    BY <2>1, <2>2 DEF Alternate, tableVars
<1>3. ASSUME NEW g \in Conns, RegisterNew(g) PROVE Kept
  <2>1. asked[g] \in Ids /\ secret[g] \in HexIds
    BY <1>3 DEF RegisterNew, GSInv, GSTypeOK, HoldsOK
  <2> QED
    BY <1>1, <1>3, <2>1 DEF RegisterNew, Register, tableVars
<1>4. ASSUME NEW g \in Conns, ConnNext(g) PROVE Kept
  BY <1>2, <1>3, <1>4 DEF ConnNext, Connect, BlowFishKey, Drop, Cleanup, FinalizePort,
     FinalizeAuthed, PlayerInGame, PlayerLogout, ServerStatus, tableVars
<1> QED
  BY <1>4 DEF GSNext

\* No handler takes a registered id away from the info that has it.
THEOREM NeverDisplacedTheorem == GSSpec => NeverDisplaced
<1> QED
  BY GSInvariance, StepDisplacesNobody, PTL DEF GSSpec, NeverDisplaced
-----------------------------------------------------------------------------
(* The listener implements the registry of ids.                             *)

\* Infos that were raced for are registered ones.
RacedAreRegistered == \A i \in contested : hexId[i] # NoHex

LEMMA RacedInit == GSInit => RacedAreRegistered
BY DEF GSInit, RacedAreRegistered

\* An id put in the table goes to the secret it is put with.
LEMMA PutClaims ==
    ASSUME TableInv, NEW id \in Ids, NEW i \in Infos, NEW h \in HexIds,
           servers[id] = NoInfo, Put(id, i, h)
    PROVE  /\ Owner[id] = NoHex
           /\ Owner' = [Owner EXCEPT ![id] = h]
<1> USE TableAssumption DEF TableInv, TableTypeOK, Put
<1>1. Owner[id] = NoHex
  BY DEF Owner
<1>2. ASSUME NEW jd \in Ids PROVE Owner'[jd] = [Owner EXCEPT ![id] = h][jd]
  <2>1. CASE jd = id
    BY <2>1 DEF Owner
  <2>2. CASE jd # id
    <3>1. servers'[jd] = servers[jd]
      BY <2>2
    <3>2. servers[jd] # NoInfo => hexId'[servers[jd]] = hexId[servers[jd]]
      BY DEF SecretKnown
    <3> QED
      BY <2>2, <3>1, <3>2 DEF Owner
  <2> QED
    BY <2>1, <2>2
<1>3. Owner' = [jd \in Ids |-> Owner'[jd]]
  BY DEF Owner
<1>4. Owner' = [jd \in Ids |-> [Owner EXCEPT ![id] = h][jd]]
  BY <1>2, <1>3, Zenon
<1>5. Owner = [jd \in Ids |-> Owner[jd]]
  BY DEF Owner
<1> HIDE DEF Owner
<1> QED
  BY <1>1, <1>4, <1>5

\* Steps of a connection that has not been told its id change what no other
\* connection was told.
LEMMA UntoldStep ==
    ASSUME NEW g \in Conns, g \notin Told, gstate' = gstate,
           \A o \in Conns : o # g => target'[o] = target[o] /\ secret'[o] = secret[o],
           \A o \in Told : infoId'[target[o]] = infoId[target[o]]
    PROVE  UNCHANGED <<Serves, Shown>>
BY DEF Serves, Shown, Told

\* A connection that is let through to info i, whose id is id: a race, if
\* another one is on its way to the same info, and nothing otherwise.
LEMMA FinalizeRaces ==
    ASSUME GSInv, NEW g \in Conns, NEW id \in Ids, servers[id] # NoInfo,
           Finalize(g, servers[id]), UNCHANGED tableVars,
           UNCHANGED <<Serves, Shown>>
    PROVE  Registry!Race(id) \/ UNCHANGED Registry!vars
<1> USE TableAssumption DEF tableVars
<1>1. UNCHANGED Owner
  BY DEF Owner
<1>2. infoId[servers[id]] = id
  BY DEF GSInv, TableInv, IdMatches
<1>3. contested' = contested \cup {servers[id]} \/ contested' = contested
  BY DEF Finalize
<1>4. CASE contested' = contested \cup {servers[id]}
  <2>1. Raced' = Raced \cup {id}
    BY <1>2, <1>4 DEF Raced
  <2>2. Owner[id] # NoHex
    BY DEF Owner, GSInv, TableInv, SecretKnown
  <2> QED
    BY <1>1, <2>1, <2>2 DEF Registry!Race
<1>5. CASE contested' = contested
  <2>1. UNCHANGED Raced
    BY <1>5 DEF Raced
  <2> QED
    BY <1>1, <2>1 DEF Registry!vars
<1> QED
  BY <1>3, <1>4, <1>5

\* A fresh info of connection g: its id is claimed.
LEMMA RegistrationClaims ==
    ASSUME GSInv, RacedAreRegistered,
           NEW g \in Conns, NEW id \in Ids, NEW i \in Infos, NEW h \in HexIds,
           servers[id] = NoInfo, Put(id, i, h), Finalize(g, i),
           g \notin Told, gstate' = gstate,
           secret' = [secret EXCEPT ![g] = h]
    PROVE  Registry!Claim(id, h) /\ RacedAreRegistered'
<1> USE TableAssumption DEF GSInv
<1>1. \A o \in Conns : target[o] # i
  BY DEF HoldsOK, OwnsItsId, Put, GSTypeOK
<1>2. contested' = contested /\ i \notin contested
  BY <1>1 DEF Finalize, Put, RacedAreRegistered
<1>3. \A j \in Infos : j # i => infoId'[j] = infoId[j] /\ hexId'[j] = hexId[j]
  BY DEF Put, TableInv, TableTypeOK
<1>4. contested \subseteq Infos
  BY DEF GSTypeOK
<1>5. UNCHANGED Raced
  BY <1>2, <1>3, <1>4 DEF Raced
<1>6. RacedAreRegistered'
  BY <1>2, <1>3, <1>4 DEF RacedAreRegistered
<1>7. UNCHANGED <<Serves, Shown>>
  <2>1. \A o \in Told : target[o] \in Infos
    BY DEF Told, GSTypeOK
  <2>2. \A o \in Conns : o # g => target'[o] = target[o] /\ secret'[o] = secret[o]
    BY DEF Finalize, GSTypeOK
  <2>3. \A o \in Told : infoId'[target[o]] = infoId[target[o]]
    BY <1>1, <1>3, <2>1 DEF Told
  <2> QED
    BY <2>2, <2>3, UntoldStep
<1>8. Owner[id] = NoHex /\ Owner' = [Owner EXCEPT ![id] = h]
  BY PutClaims
<1> QED
  BY <1>5, <1>6, <1>7, <1>8 DEF Registry!Claim

\* The handler's decision about the id: a claim of a free alternate id, a
\* race, or nothing that the registry sees.
LEMMA GameServerAuthMaps ==
    ASSUME GSInv, RacedAreRegistered, NEW g \in Conns, NEW id \in RequestIds,
           NEW h \in HexIds, NEW alt \in BOOLEAN, GameServerAuth(g, id, h, alt)
    PROVE  [Registry!Next]_(Registry!vars) /\ RacedAreRegistered'
<1> USE TableAssumption, ListenerAssumption
<1>1. /\ id \in Ids /\ g \notin Told /\ gstate' = gstate
      /\ secret' = [secret EXCEPT ![g] = h]
  BY DEF GameServerAuth, Reads, Told
<1>2. ASSUME UNCHANGED tableVars,
             \A o \in Conns : o # g => target'[o] = target[o]
      PROVE  UNCHANGED <<Owner, Serves, Shown>>
  <2>1. \A o \in Conns : o # g => secret'[o] = secret[o]
    BY <1>1 DEF GSInv, GSTypeOK
  <2>2. UNCHANGED <<Serves, Shown>>
    BY <1>1, <1>2, <2>1, UntoldStep DEF tableVars
  <2> QED
    BY <1>2, <2>2 DEF Owner, tableVars
<1>3. ASSUME UNCHANGED tableVars, UNCHANGED <<target, contested>>
      PROVE  UNCHANGED Registry!vars /\ RacedAreRegistered'
  BY <1>2, <1>3 DEF Raced, Registry!vars, RacedAreRegistered, tableVars
<1>4. CASE /\ servers[id] # NoInfo /\ ~ authed[servers[id]]
           /\ Finalize(g, servers[id]) /\ UNCHANGED tableVars
  <2>1. UNCHANGED <<Serves, Shown>>
    BY <1>2, <1>4 DEF Finalize, GSInv, GSTypeOK
  <2>2. Registry!Race(id) \/ UNCHANGED Registry!vars
    BY <1>1, <1>4, <2>1, FinalizeRaces
  <2>3. RacedAreRegistered'
    BY <1>1, <1>4 DEF Finalize, RacedAreRegistered, GSInv, TableInv, SecretKnown, tableVars
  <2> QED
    BY <1>1, <2>2, <2>3 DEF Registry!Next
<1>5. ASSUME NEW n \in Infos, RegisterWithFirstAvailableID(MaxAlternate, n, h),
             Finalize(g, n)
      PROVE  Registry!Next /\ RacedAreRegistered'
  <2>1. MaxAlternate \in Ids /\ TableInv
    BY DEF GSInv
  <2>2. PICK free \in Ids : servers[free] = NoInfo /\ Put(free, n, h)
    BY <1>5, <2>1, FoundIsUnregistered DEF RegisterWithFirstAvailableID
  <2>3. Registry!Claim(free, h) /\ RacedAreRegistered'
    BY <1>1, <1>5, <2>2, RegistrationClaims
  <2> QED
    BY <2>3 DEF Registry!Next
<1> QED
  BY <1>3, <1>4, <1>5 DEF GameServerAuth, Reclaim, Alternate, Refuse

\* Register of an id that was free: a claim, unless somebody was faster.
LEMMA RegisterNewMaps ==
    ASSUME GSInv, RacedAreRegistered, NEW g \in Conns, RegisterNew(g)
    PROVE  [Registry!Next]_(Registry!vars) /\ RacedAreRegistered'
<1>1. /\ g \notin Told /\ gstate' = gstate /\ asked[g] \in Ids /\ secret[g] \in HexIds
      /\ secret' = secret /\ secret' = [secret EXCEPT ![g] = secret[g]]
  BY DEF RegisterNew, GSInv, GSTypeOK, HoldsOK, Told
<1>2. ASSUME NEW i \in Infos, Register(asked[g], i, secret[g]), Finalize(g, i)
      PROVE  Registry!Next /\ RacedAreRegistered'
  <2>1. Registry!Claim(asked[g], secret[g]) /\ RacedAreRegistered'
    BY <1>1, <1>2, RegistrationClaims DEF Register
  <2> QED
    BY <1>1, <2>1 DEF Registry!Next
<1>3. ASSUME Refuse(g), UNCHANGED tableVars
      PROVE  UNCHANGED Registry!vars /\ RacedAreRegistered'
  BY <1>1, <1>3 DEF Refuse, tableVars, Owner, Serves, Shown, Raced, Told, Registry!vars,
     RacedAreRegistered
<1> QED
  BY <1>2, <1>3 DEF RegisterNew

\* The connection is told its id: it is the only one, unless the id is raced for.
LEMMA FinalizeAuthedMaps ==
    ASSUME GSInv, RacedAreRegistered, NEW g \in Conns, FinalizeAuthed(g)
    PROVE  Registry!Next /\ RacedAreRegistered'
<1> USE TableAssumption DEF GSInv
<1> DEFINE i == target[g]
           id == infoId[i]
<1>1. g \notin Told /\ i \in Infos /\ i # NoInfo /\ id \in Ids /\ secret[g] \in HexIds
  BY DEF FinalizeAuthed, HoldsOK, Told, GSTypeOK, TableTypeOK
<1>2. Told' = Told \cup {g}
  BY DEF FinalizeAuthed, Told, GSTypeOK
<1>3. UNCHANGED <<Owner, Raced>> /\ RacedAreRegistered'
  BY DEF FinalizeAuthed, tableVars, Owner, Raced, RacedAreRegistered
<1>4. UNCHANGED <<infoId, target, secret>>
  BY DEF FinalizeAuthed, tableVars
<1>5. servers[id] = i /\ hexId[i] = secret[g]
  BY <1>1 DEF OwnsItsId
<1>6. Owner[id] = secret[g]
  BY <1>1, <1>5 DEF Owner
<1>7. id \notin Raced => \A d \in Conns : Serves[d] # id
  <2> SUFFICES ASSUME id \notin Raced, NEW d \in Conns, Serves[d] = id
               PROVE  FALSE
    OBVIOUS
  <2>1. i \notin contested
    BY DEF Raced
  <2>2. d \in Told /\ infoId[target[d]] = id
    BY <1>1 DEF Serves
  <2>3. target[d] = i
    BY <1>5, <2>2 DEF OwnsItsId, Told, GSTypeOK
  <2> QED
    BY <1>1, <2>1, <2>2, <2>3 DEF SoleOwnerUnlessContested
<1> HIDE DEF i, id
<1>8. Serves[g] = Registry!NoId
  BY <1>1 DEF Serves, Registry!NoId
<1>9. Serves' = [Serves EXCEPT ![g] = id]
  BY <1>2, <1>4 DEF Serves, i, id
<1>10. Shown' = [Shown EXCEPT ![g] = Owner[id]]
  BY <1>2, <1>4, <1>6 DEF Shown
<1>11. Owner[id] # NoHex
  BY <1>1, <1>6
<1>12. Registry!Admit(g, id)
  BY <1>3, <1>7, <1>8, <1>9, <1>10, <1>11 DEF Registry!Admit
<1> QED
  BY <1>1, <1>3, <1>12 DEF Registry!Next

\* cleanup: the connection leaves its id, which stays its server's.
LEMMA CleanupMaps ==
    ASSUME GSInv, RacedAreRegistered, NEW g \in Conns, Cleanup(g)
    PROVE  Registry!Next /\ RacedAreRegistered'
<1> USE DEF GSInv
<1>1. UNCHANGED <<Owner, Raced>> /\ RacedAreRegistered'
  BY DEF Cleanup, tableVars, Owner, Raced, RacedAreRegistered
<1>2. Told' = Told \ {g}
  BY DEF Cleanup, Told, GSTypeOK
<1>3. infoId' = infoId /\ \A o \in Conns : o # g => target'[o] = target[o] /\ secret'[o] = secret[o]
  BY DEF Cleanup, tableVars, GSTypeOK
<1>4. Serves' = [Serves EXCEPT ![g] = Registry!NoId]
  BY <1>2, <1>3 DEF Serves, Registry!NoId
<1>5. Shown' = [Shown EXCEPT ![g] = NoHex]
  BY <1>2, <1>3 DEF Shown
<1>6. Registry!Leave(g)
  BY <1>1, <1>4, <1>5 DEF Registry!Leave
<1> QED
  BY <1>1, <1>6 DEF Registry!Next

\* Packets change nothing that the registry sees.
LEMMA PacketMaps ==
    ASSUME GSInv, RacedAreRegistered, NEW g \in Conns,
           \/ Connect(g) \/ BlowFishKey(g) \/ Drop(g) \/ FinalizePort(g)
           \/ \E players \in SUBSET Accounts : PlayerInGame(g, players)
           \/ \E a \in Accounts : PlayerLogout(g, a)
           \/ \E s \in {"auto", "down", "other"} : ServerStatus(g, s)
    PROVE  UNCHANGED Registry!vars /\ RacedAreRegistered'
<1>1. UNCHANGED <<tableVars, secret, target, contested>>
  BY DEF Connect, BlowFishKey, Drop, FinalizePort, PlayerInGame, PlayerLogout,
         ServerStatus, connVars
<1>2. Told' = Told
  BY DEF Connect, BlowFishKey, Drop, FinalizePort, PlayerInGame, PlayerLogout,
         ServerStatus, connVars, Reads, Told, GSInv, GSTypeOK
<1> QED
  BY <1>1, <1>2 DEF tableVars, Owner, Serves, Shown, Raced, Registry!vars, RacedAreRegistered

LEMMA GSNextMaps ==
    ASSUME GSInv, RacedAreRegistered, [GSNext]_gsVars
    PROVE  [Registry!Next]_(Registry!vars) /\ RacedAreRegistered'
<1>1. CASE UNCHANGED gsVars
  BY <1>1 DEF gsVars, tableVars, connVars, Owner, Serves, Shown, Raced, Told, Registry!vars,
     RacedAreRegistered
<1>2. ASSUME NEW g \in Conns, ConnNext(g)
      PROVE  [Registry!Next]_(Registry!vars) /\ RacedAreRegistered'
  BY <1>2, GameServerAuthMaps, RegisterNewMaps, FinalizeAuthedMaps, CleanupMaps,
     PacketMaps DEF ConnNext
<1> QED
  BY <1>1, <1>2 DEF GSNext

LEMMA GSInitMaps == GSInit => Registry!Init
BY DEF GSInit, TableInit, Registry!Init, Registry!NoId, Owner, Serves, Shown, Raced, Told

\* The listener implements ServerRegistry: an id belongs to the secret that
\* claimed it first, for good, and a connection is told an id only after it
\* showed that secret, while no other serves the id or after a race for it.
THEOREM RegistryTheorem == GSSpec => RegistrySpec
<1>1. GSInit => GSInv /\ RacedAreRegistered /\ Registry!Init
  BY GSInitInv, RacedInit, GSInitMaps
<1>2. GSInv /\ RacedAreRegistered /\ [GSNext]_gsVars
        => /\ GSInv' /\ RacedAreRegistered'
           /\ [Registry!Next]_(Registry!vars)
  BY GSNextInv, GSNextMaps
<1> QED
  BY <1>1, <1>2, PTL DEF GSSpec, RegistrySpec, Registry!Spec
=============================================================================

------------------------------- MODULE MCParts -------------------------------
(***************************************************************************)
(* Nine models that share no state, checked in one run: the table of game   *)
(* servers (GameServerTable), values in packets (CodecStream), the packets  *)
(* of two conversations (Wire), their frames (Framing), the RSA blocks      *)
(* inside some of them (Rsa), characters and items and their rows           *)
(* (CharacterStore, ItemStore), the AI tick loop (AITick), and the          *)
(* visibility manager (Visibility).  The behaviours of PartsSpec are those  *)
(* of one of the nine, chosen at the start, while the others stay at one of *)
(* their initial states.                                                    *)
(***************************************************************************)
EXTENDS GameServerTable, MCCodec, MCWire, MCFraming, Rsa,
        CharacterStore, ItemStore, AITick, MCVisibility

VARIABLE part   \* the model that moves

Parts == {"table", "codec", "wire", "framing", "rsa", "store", "items", "ai", "sight"}

PartsInit ==
  /\ part \in Parts
  /\ TableInit
  /\ CodecInit
  /\ WireInit    /\ (part # "wire" => turn = "start")
  /\ FramingInit /\ (part # "framing" => proto = "gs" /\ spare[1] = 0)
  /\ RsaInit
  /\ StoreInit   /\ (part # "store" => player = NewPlayer(1, 10))
  /\ ItemInit
  /\ TickInit    /\ (part # "ai" => ticking = CHOOSE c \in Controllers : TRUE)
  /\ VisibilityInit /\ (part # "sight" => \A p \in Players : loc[p] = <<11, 7>>)

Moves(p) == part = p /\ UNCHANGED part

allVars == <<part, tableVars, codecVars, wireVars, framingVars,
             rsaVars, storeVars, itemVars, tickVars, visibilityVars>>

PartsNext ==
  \/ Moves("table") /\ TableNext
       /\ UNCHANGED <<codecVars, wireVars, framingVars, rsaVars, storeVars,
                      itemVars, tickVars, visibilityVars>>
  \/ Moves("codec") /\ CodecNext
       /\ UNCHANGED <<tableVars, wireVars, framingVars, rsaVars, storeVars,
                      itemVars, tickVars, visibilityVars>>
  \/ Moves("wire") /\ WireNext
       /\ UNCHANGED <<tableVars, codecVars, framingVars, rsaVars, storeVars,
                      itemVars, tickVars, visibilityVars>>
  \/ Moves("framing") /\ FramingNext
       /\ UNCHANGED <<tableVars, codecVars, wireVars, rsaVars, storeVars,
                      itemVars, tickVars, visibilityVars>>
  \/ Moves("rsa") /\ RsaNext
       /\ UNCHANGED <<tableVars, codecVars, wireVars, framingVars, storeVars,
                      itemVars, tickVars, visibilityVars>>
  \/ Moves("store") /\ StoreNext
       /\ UNCHANGED <<tableVars, codecVars, wireVars, framingVars, rsaVars,
                      itemVars, tickVars, visibilityVars>>
  \/ Moves("items") /\ ItemNext
       /\ UNCHANGED <<tableVars, codecVars, wireVars, framingVars, rsaVars,
                      storeVars, tickVars, visibilityVars>>
  \/ Moves("ai") /\ TickNext
       /\ UNCHANGED <<tableVars, codecVars, wireVars, framingVars, rsaVars,
                      storeVars, itemVars, visibilityVars>>
  \/ Moves("sight") /\ VisibilityNext
       /\ UNCHANGED <<tableVars, codecVars, wireVars, framingVars, rsaVars,
                      storeVars, itemVars, tickVars>>
  \* a connection, a decryption, or the calls that are bounded may be over
  \/ part \in {"framing", "rsa", "store", "items", "ai"} /\ UNCHANGED allVars

PartsSpec == PartsInit /\ [][PartsNext]_allVars

-----------------------------------------------------------------------------
(* RSA.                                                                     *)

\* Products of eight bits.
MCPrimes == {<<11, 13>>, <<13, 11>>, <<17, 11>>, <<13, 17>>, <<19, 13>>, <<11, 23>>}

-----------------------------------------------------------------------------
(* Characters and items.                                                    *)

\* Below zero, and above the maxima of a new player.
MCAmounts  == {-1, 2000}
\* A count past the largest, one that stays below it, and the smallest int32.
MCDeltas   == {1, 2, -4}
MCEnchants == {-1, 5}

=============================================================================

--------------------------- MODULE MCCritbitBits ---------------------------
(***************************************************************************)
(* Strings of up to two bytes around the boundaries of the bits, compared  *)
(* with each other and with every one-byte string.                         *)
(***************************************************************************)
EXTENDS CritbitBits

Edge == {1, 128, 255}

Short == {<<>>} \cup {<<a>> : a \in Edge} \cup {<<a, b>> : a, b \in Edge}

All == Short \cup {<<b>> : b \in 1 .. 255}

MCPairs == (All \X Short) \cup (Short \X All)

MCProbes == {<<>>, <<1>>, <<170>>, <<85, 170>>, <<255, 85>>, <<128, 255>>}
============================================================================

------------------------------- MODULE MCArt -------------------------------
(***************************************************************************)
(* ArtSpec with nodes of at most 3, 4, 5 and 12 children, paths of which 2 *)
(* bytes are stored, and 12 bytes, of which those from 6 on are negative.  *)
(***************************************************************************)
EXTENDS ArtSpec

CONSTANTS v1, v2

(* Keys for five children of one node, and three below its sixth child.    *)
(* As long as the five are not there, the path of the first two of these   *)
(* has a negative byte past what is stored (8).  It is cut in what is      *)
(* stored by the five, and past that by the third; the path of the third   *)
(* and one of the two, which is stored in full, is cut by the five.        *)
Wide == {<<1, c>> : c \in {1, 2, 3, 4, 5}}
Deep == {<<1, 9, 8, 1, 1, 1>>, <<1, 9, 8, 1, 1, 2>>, <<1, 9, 2>>}
Keys == Wide \cup Deep

(* Keys that are next to each other have different values. *)
Added == {<<k, IF Last(k) \in {1, 3, 5} THEN v1 ELSE v2>> : k \in Keys}

(* Beginnings of keys, one of which ends where it is misread, a key that   *)
(* goes on, and one that leaves a path and comes to what is below.         *)
Queries == Keys \cup {<<1>>, <<1, 9, 8>>, <<1, 9, 8, 1, 1, 1, 1>>, <<1, 2, 8, 1>>}
============================================================================

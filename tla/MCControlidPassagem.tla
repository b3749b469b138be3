------------------------- MODULE MCControlidPassagem -------------------------
(* Two passages within three seconds.  The arm turns and the dao comes in the *)
(* second of the entry or in the next one; the device repeats a catra_event.  *)
(* Whoever makes the second passage has a namesake in another institution: a  *)
(* row with the same PESIdExterno.                                            *)
EXTENDS ControlidPassagem, Integers

CONSTANTS p1, p2, a, b, c, id

MCIdExterno == [x \in Person |-> IF x = a THEN a ELSE id]
MCPasser == [p \in Passage |-> IF p = p1 THEN a ELSE b]

EnteredAt(s) == {[turned |-> s, told |-> s, entered |-> s], [turned |-> s, told |-> s + 1, entered |-> s],
                 [turned |-> s + 1, told |-> s + 1, entered |-> s]}
Behind(s) == [turned |-> s[p2].turned - s[p1].turned, told |-> s[p2].told - s[p1].told]

MCStamps == {s \in [Passage -> EnteredAt(1) \cup EnteredAt(2)] :
               /\ s[p1].entered = 1 /\ s[p2].entered = 2
               /\ Behind(s) \in {[turned |-> 0, told |-> 0], [turned |-> 1, told |-> 0], [turned |-> 1, told |-> 1]}}
MCCall == [kind : {"catra", "dao"}, of : Passage, attempt : {1}] \cup {[kind |-> "catra", of |-> p2, attempt |-> 2]}
=============================================================================

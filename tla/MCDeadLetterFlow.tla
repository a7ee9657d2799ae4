-------------------------- MODULE MCDeadLetterFlow --------------------------
(* An event, an announcement and a copy; one handler and two operators. *)
EXTENDS DeadLetterFlow
CONSTANTS e1, a1, h1, o1, o2, i1, i2, i3
OneEvent == {e1}
OneAnnouncement == {a1}
OneHandler == {h1}
TwoOperators == {o1, o2}
ThreeIds == {i1, i2, i3}
=============================================================================

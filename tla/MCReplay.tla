------------------------------ MODULE MCReplay ------------------------------
(***************************************************************************)
(* Model-checking instances of Replay.                                     *)
(***************************************************************************)
EXTENDS Replay, TLC

CONSTANTS r1, r2, s1, s2

Prose    == [from |-> "friend", is |-> "prose", of |-> 0, ts |-> 1]
Caption  == [Prose EXCEPT !.is = "caption"]
Verdict  == [Prose EXCEPT !.is = "verdict"]
Foreign  == [Prose EXCEPT !.from = "stranger"]
Sticker  == [Prose EXCEPT !.is = "other"]
Edit(t, n) == [Prose EXCEPT !.of = t, !.ts = n]
ForeignEdit(t) == [Foreign EXCEPT !.of = t]

\* Edits name an event before, at or after their own place, at the same time
\* as another one or by a clock that goes back.
Events == {Prose, Caption, Verdict, Foreign, Sticker}
          \cup {Edit(t, n) : t \in 1..3, n \in 1..2} \cup {ForeignEdit(1)}

\* More than the window, with and without something to skip; an edit that
\* the budget cuts off although its original was left out for it, edits of an
\* event before the window, a stranger's edit beside a caption that reads like
\* an answer. The second room is empty.
First == {<<Prose, Foreign, Verdict, Sticker>>,
          <<Prose, Prose, Prose, Edit(2, 1)>>,
          <<Edit(1, 1), Sticker, Edit(1, 1)>>,
          <<Prose, ForeignEdit(1), Caption>>}
Missed == {[r \in Room |-> IF r = r1 THEN tl ELSE <<>>] : tl \in First}

Sent == {Prose, Caption}
=============================================================================

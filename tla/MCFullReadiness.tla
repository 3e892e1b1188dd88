-------------------------- MODULE MCFullReadiness --------------------------
(***************************************************************************)
(* Three chunks of the plane: two neighbours and one at distance two from  *)
(* both.  The others of their squares are left out, as if always Full, and *)
(* the counts are reduced by them.  The levels are those of one ticket at  *)
(* the first chunk that comes, weakens, stops simulating and goes, or      *)
(* moves to the second.                                                    *)
(***************************************************************************)
EXTENDS FullReadiness

Here == <<0, 0>>
Beside == <<1, 0>>
Beyond == <<0, 2>>
Corner == {Here, Beside, Beyond}

Within(r) == [p \in Corner |-> {q \in Corner : \A i \in 1 .. 2 : q[i] - p[i] \in -r .. r}]
NearCorner == Within(1)
WideCorner == Within(2)

Map(loads, sims) ==
    [p \in Corner |-> LET i == IF p = Here THEN 1 ELSE IF p = Beside THEN 2 ELSE 3
                      IN  [load |-> loads[i], sim |-> sims[i]]]
OneTicket == {
    Map(<<NotLoaded, NotLoaded, NotLoaded>>, <<0, 0, 0>>),
    Map(<<EntityTicking, BlockTicking, IsFull>>, <<2, 1, 0>>),
    Map(<<EntityTicking, BlockTicking, IsFull>>, <<1, 0, 0>>),
    Map(<<BlockTicking, IsFull, Loads>>, <<1, 0, 0>>),
    Map(<<BlockTicking, EntityTicking, IsFull>>, <<1, 2, 0>>)}
OneReplaced == [p \in Corner |-> IF p = Here THEN 2 ELSE 1]
=============================================================================

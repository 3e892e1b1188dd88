----------------------------- MODULE TicketLog -----------------------------
(***************************************************************************)
(* What chunk scheduling promises the owners of tickets.  Submissions form *)
(* one sequence; each returns its number, the revision.  The levels the    *)
(* chunks are held at follow that sequence: they move, chunk by chunk,     *)
(* towards what the first `target` submissions ask for, and a revision     *)
(* counts as committed only once every chunk has what it asked for.        *)
(***************************************************************************)
EXTENDS Naturals, Sequences

CONSTANTS Positions, LevelMaps, NothingHeld

VARIABLES
    wanted,     \* wanted[r + 1]: the levels the first r submissions ask for
    target,     \* the revision the chunks are moving to
    held,       \* the levels the chunks are held at
    committed   \* the revision owners may rely on

vars == <<wanted, target, held, committed>>

Init ==
    /\ Len(wanted) = 1 /\ wanted[1] \in LevelMaps
    /\ target = 0 /\ committed = 0
    /\ held = NothingHeld

Submit ==
    /\ Len(wanted') = Len(wanted) + 1
    /\ wanted'[Len(wanted')] \in LevelMaps
    /\ wanted' = Append(wanted, wanted'[Len(wanted')])
    /\ UNCHANGED <<target, held, committed>>

Retarget ==
    /\ \E r \in target .. Len(wanted) - 1 : target' = r
    /\ UNCHANGED <<wanted, held, committed>>

Move(p) ==
    /\ held' = [held EXCEPT ![p] = wanted[target + 1][p]]
    /\ UNCHANGED <<wanted, target, committed>>

Publish ==
    /\ held = wanted[target + 1]
    /\ committed' = target
    /\ UNCHANGED <<wanted, target, held>>

Next == Submit \/ Retarget \/ (\E p \in Positions : Move(p)) \/ Publish

Spec == Init /\ [][Next]_vars
=============================================================================

---------------------------- MODULE TicketLevels ----------------------------
(***************************************************************************)
(* What the tickets ask of every chunk (chunk/chunk_ticket_manager.rs).    *)
(* A ticket has a load level and, when it also simulates, a simulation     *)
(* level; lower is stronger.  Levels weaken by one per chunk of distance:  *)
(* load levels down to MaxLevel, simulation levels only as far as blocks   *)
(* tick.  A chunk takes the strongest level any ticket gives it.           *)
(*                                                                         *)
(* Each pass of run_all_updates computes the levels afresh and hands its   *)
(* consumers only what changed since the pass before.                      *)
(***************************************************************************)
EXTENDS Integers, FiniteSetsExt

CONSTANTS
    Positions,      \* chunk positions
    Distance,       \* Distance[<<p, q>>]: chunks between two positions
    Tickets,        \* the ticket strengths in use: records [load, sim]
    BlockTicking,   \* BLOCK_TICKING_CHUNK
    MaxLevel        \* ChunkTicketLevel::MAX

(* No level: Option::None of a load or a simulation level.                 *)
NoLevel == MaxLevel + 1

ASSUME LevelsAssumption ==
    /\ MaxLevel \in Nat /\ BlockTicking \in 0 .. MaxLevel
    /\ Distance \in [Positions \X Positions -> Nat]
    /\ \A p \in Positions : Distance[<<p, p>>] = 0
    /\ Tickets \subseteq [load : 0 .. MaxLevel, sim : 0 .. NoLevel]

(* distance_to_block_ticking saturates at 0.                               *)
SimulationRadius(sim) == IF sim <= BlockTicking THEN BlockTicking - sim ELSE 0

(* No constructor of ChunkTicket makes a ticket that simulates farther     *)
(* than it loads.                                                          *)
ASSUME SimulatesWhatItLoads ==
    \A t \in Tickets : t.sim < NoLevel => t.load + SimulationRadius(t.sim) <= MaxLevel

-----------------------------------------------------------------------------
(* A ticket source, and how many tickets of each strength it holds.        *)
Sources == Positions \X Tickets
NoTickets == [s \in Sources |-> 0]

(* ChunkTicketManager::add_ticket stacks, remove_ticket takes one matching *)
(* ticket away if there is one.  The operations of one batch name          *)
(* different sources, so their order does not matter.                      *)
Apply(tickets, batch) ==
    [s \in Sources |-> IF s \in batch.add THEN tickets[s] + 1
                       ELSE IF s \in batch.remove /\ tickets[s] > 0 THEN tickets[s] - 1
                       ELSE tickets[s]]

(* The load and the simulation levels the tickets give a position.         *)
Held(tickets) == {s \in Sources : tickets[s] > 0}

LoadsAt(tickets, p) ==
    {s[2].load + Distance[<<s[1], p>>] : s \in Held(tickets)} \cap 0 .. MaxLevel

SimulationsAt(tickets, p) ==
    {s[2].sim + Distance[<<s[1], p>>] :
        s \in {t \in Held(tickets) : Distance[<<t[1], p>>] <= SimulationRadius(t[2].sim)}}
    \cap 0 .. MaxLevel

Strongest(levels) == IF levels = {} THEN NoLevel ELSE Min(levels)

Level == [load : 0 .. NoLevel, sim : 0 .. NoLevel]
Unloaded == [p \in Positions |-> [load |-> NoLevel, sim |-> NoLevel]]

Levels(tickets) ==
    [p \in Positions |-> [load |-> Strongest(LoadsAt(tickets, p)),
                          sim  |-> Strongest(SimulationsAt(tickets, p))]]

-----------------------------------------------------------------------------
(* Mutant of Changes: the pass records load changes only.                  *)
LoadChanges(old, new) ==
    {[pos |-> p, level |-> new[p]] : p \in {q \in Positions : new[q].load # old[q].load}}

(* The change list of run_all_updates: a position whose load level appears *)
(* or changes, with both levels; a position that loses its load level; and *)
(* record_simulation_only_changes.                                         *)
Changes(old, new) ==
    {[pos |-> p, level |-> new[p]] :
        p \in {q \in Positions : new[q].load # old[q].load /\ new[q].load # NoLevel}}
    \cup {[pos |-> p, level |-> [load |-> NoLevel, sim |-> NoLevel]] :
        p \in {q \in Positions : old[q].load # NoLevel /\ new[q].load = NoLevel}}
    \cup {[pos |-> p, level |-> new[p]] :
        p \in {q \in Positions : new[q].load = old[q].load /\ new[q].sim # old[q].sim}}
=============================================================================

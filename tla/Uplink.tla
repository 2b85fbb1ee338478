------------------------------- MODULE Uplink -------------------------------
(***************************************************************************)
(* The topology of an OLT's cards and uplink ports as GetUplinkTopology    *)
(* puts it together from eight walks of standard tables                    *)
(* (internal/usecase/uplink.go).                                           *)
(*                                                                         *)
(* "walk" holds what the tables delivered: kinds (interface index to       *)
(* "physical", "lag" or "other" by its name), oper (index to status, for   *)
(* the admin, oper and speed columns, which are joined alike), stack (the  *)
(* pairs of the interface stack in their order), class and position        *)
(* (entity index to value), and failed, the walks that ended in an error.  *)
(* A failed walk has delivered part of its rows.  Interfaces stand for     *)
(* their names.                                                            *)
(***************************************************************************)
EXTENDS Integers, Sequences, FiniteSets, SequencesExt

Uplinks(walk) == {i \in DOMAIN walk.kinds : walk.kinds[i] \in {"physical", "lag"}}

NoLag == 0

NoStack(walk) == [lag |-> [i \in Uplinks(walk) |-> NoLag], members |-> [i \in Uplinks(walk) |-> {}]]

\* Mutant: the pair is taken to be (LAG, member) whatever it names.
AttachLagMember_Unchecked(walk, stacked, pair) ==
  IF {pair[1], pair[2]} \subseteq Uplinks(walk)
  THEN [stacked EXCEPT !.members[pair[1]] = @ \cup {pair[2]}, !.lag[pair[2]] = pair[1]]
  ELSE stacked

\* Either side of a pair may be the LAG; the last LAG of a port wins, and the ones
\* before keep it as their member.
AttachLagMember(walk, stacked, pair) ==
  LET attach(lag, port) == [lag |-> [stacked.lag EXCEPT ![port] = lag],
                            members |-> [stacked.members EXCEPT ![lag] = @ \cup {port}]]
      h == pair[1]
      l == pair[2] IN
  IF ~({h, l} \subseteq Uplinks(walk)) \/ walk.kinds[h] = walk.kinds[l] THEN stacked
  ELSE IF walk.kinds[h] = "lag" THEN attach(h, l) ELSE attach(l, h)

Stacked(walk) ==
  FoldLeft(LAMBDA s, pair : AttachLagMember(walk, s, pair), NoStack(walk), walk.stack)

\* A status that was not delivered is 0.
PortStatus(walk, i) == IF i \in DOMAIN walk.oper THEN walk.oper[i] ELSE 0

\* Standard modules, and what one firmware reports as chassis or power supply with
\* "card" in its description.
IsCardEntity(class) == class \in {"module", "chassis card", "power card"}

CardSlot(walk, i) ==
  IF i \in DOMAIN walk.position /\ walk.position[i] >= 0
  THEN [slot |-> walk.position[i], source |-> "parent_relative_position"]
  ELSE [slot |-> (i \div 10) - 1, source |-> "index_heuristic"]

Tolerated == {"stack", "position"}

\* Every other failed walk fails the whole request.
GetUplinkTopology(walk) ==
  IF walk.failed \subseteq Tolerated
  THEN [ports |-> [i \in Uplinks(walk) |->
                     [kind |-> walk.kinds[i], status |-> PortStatus(walk, i),
                      lag |-> Stacked(walk).lag[i], members |-> Stacked(walk).members[i]]],
        cards |-> [i \in {e \in DOMAIN walk.class : IsCardEntity(walk.class[e])} |-> CardSlot(walk, i)]]
  ELSE [ports |-> <<>>, cards |-> <<>>]
=============================================================================

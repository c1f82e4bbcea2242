---------------------------- MODULE PacketChannel ----------------------------
(***************************************************************************)
(* What the receiving side of the transport promises for one Peer: in each *)
(* life of the Peer a packet for this node is handed up whole and once,    *)
(* and a packet that is relayed goes on fragment by fragment, the first    *)
(* before the last and each once.  Nothing is handed on while the Peer is  *)
(* being reset, or after it for a life that is over.                       *)
(***************************************************************************)
EXTENDS Integers

CONSTANTS
  Packets,   \* packets [local: BOOLEAN, parts: 1..2, ...]
  Frame(_, _)  \* the i-th frame of a packet

VARIABLES
  epoch,     \* the life of the Peer; odd while there is none
  got        \* what was handed on: a set of frames, the life and which copy it was

vars == <<epoch, got>>

Init == epoch = 0 /\ got = {}

Alive == epoch % 2 = 0 /\ epoch > 0
Whole(p) == {Frame(p, i) : i \in 1..p.parts}
\* The first copy of F in this life; there is no second.
Handed(F) == [frames |-> F, e |-> epoch, copy |-> 0]

Hand(F) == Handed(F) \notin got /\ got' = got \cup {Handed(F)} /\ UNCHANGED epoch

Deliver(p) == Alive /\ p.local /\ Hand(Whole(p))

Relay(p, i) ==
  /\ Alive /\ ~p.local
  /\ \A j \in 1..(i - 1) : Handed({Frame(p, j)}) \in got
  /\ Hand({Frame(p, i)})

Turn == epoch' > epoch /\ UNCHANGED got

Next == Turn \/ \E p \in Packets : Deliver(p) \/ \E i \in 1..p.parts : Relay(p, i)

Spec == Init /\ [][Next]_vars
=============================================================================

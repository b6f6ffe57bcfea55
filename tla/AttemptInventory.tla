--------------------------- MODULE AttemptInventory ---------------------------
(***************************************************************************)
(* What one attempt promises its readers, whatever processes, locks and    *)
(* crashes are behind it: an inventory to which entries are only added,    *)
(* that can be reserved for one terminal artifact, and that is final once  *)
(* it is sealed.                                                           *)
(***************************************************************************)
EXTENDS Integers, Sequences

CONSTANTS
    Artifacts,      \* artifact ids
    Entries,        \* what can be recorded
    PublicationOf,  \* the entry that publishes an artifact
    NoArtifact,     \* no reservation
    Unbound         \* reserved, but not yet known for whom

VARIABLES
    inventory,  \* the recorded entries, oldest first
    phase,      \* "open", "closing" (reserved) or "sealed"
    terminal    \* whom the closing inventory is reserved for

ivars == <<inventory, phase, terminal>>

IsRecorded(e) == \E i \in DOMAIN inventory : inventory[i] = e

EndsWith(e) == inventory # <<>> /\ inventory[Len(inventory)] = e

InventoryTypeOK ==
    /\ inventory \in Seq(Entries)
    /\ phase \in {"open", "closing", "sealed"}
    /\ terminal \in Artifacts \cup {NoArtifact, Unbound}

Init ==
    /\ inventory = <<>>
    /\ phase = "open"
    /\ terminal = NoArtifact

(* Anybody records anything while the inventory is open. *)
Record(e) ==
    /\ phase = "open"
    /\ inventory' = Append(inventory, e)
    /\ UNCHANGED <<phase, terminal>>

(* From here on only the terminal artifact may enter. *)
Reserve ==
    /\ phase = "open"
    /\ phase' = "closing"
    /\ terminal' = Unbound
    /\ UNCHANGED inventory

Bind(a) ==
    /\ phase = "closing"
    /\ terminal = Unbound
    /\ terminal' = a
    /\ UNCHANGED <<inventory, phase>>

(* The terminal artifact is published, once. *)
Conclude ==
    /\ phase = "closing"
    /\ terminal \in Artifacts
    /\ ~IsRecorded(PublicationOf[terminal])
    /\ inventory' = Append(inventory, PublicationOf[terminal])
    /\ UNCHANGED <<phase, terminal>>

(* A reserved inventory is sealed only when the artifact it was reserved    *)
(* for is its last entry; an open one may be sealed as it is.               *)
Seal ==
    /\ phase \in {"open", "closing"}
    /\ phase = "closing" => terminal \in Artifacts /\ EndsWith(PublicationOf[terminal])
    /\ phase' = "sealed"
    /\ terminal' = NoArtifact
    /\ UNCHANGED inventory

Next ==
    \/ \E e \in Entries : Record(e)
    \/ \E a \in Artifacts : Bind(a)
    \/ Reserve \/ Conclude \/ Seal

Spec == Init /\ [][Next]_ivars
=============================================================================

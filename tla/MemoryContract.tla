--------------------------- MODULE MemoryContract ---------------------------
(***************************************************************************)
(* What an agent's memory promises whoever writes to it, one memory at a   *)
(* time: its content never changes, it is live until a newer memory takes  *)
(* its place or it is archived, and it goes when somebody removes it.      *)
(* Logs, snapshots, restarts and compactions are not in it.                *)
(*                                                                         *)
(* One hole is the code's: the dream writes back what it had read, so a    *)
(* memory removed meanwhile comes back.                                    *)
(***************************************************************************)
CONSTANTS Ids, Facts, None

States == {"live", "superseded", "archived"}

Memory == [fact : Facts, state : States]

VARIABLES
    memory,     \* what is on record under each id
    removed     \* ids whose memory somebody had removed

Init == memory = [id \in Ids |-> None] /\ removed = {}

Kept(id) == memory'[id] = memory[id] /\ (id \in removed' <=> id \in removed)

Learned(id) ==
    /\ memory[id] = None /\ id \notin removed /\ id \notin removed'
    /\ memory'[id] # None /\ memory'[id].state = "live"

Retired(id) ==
    /\ memory[id] # None /\ memory'[id] # None
    /\ memory'[id].fact = memory[id].fact
    /\ memory[id].state = "live" /\ memory'[id].state # "live"
    /\ id \in removed' <=> id \in removed

Removed(id) == memory[id] # None /\ memory'[id] = None /\ id \in removed'

Revived(id) ==
    /\ id \in removed /\ id \in removed'
    /\ memory[id] = None /\ memory'[id] # None /\ memory'[id].state # "archived"

Next ==
    /\ memory' \in [Ids -> Memory \cup {None}] /\ removed' \subseteq Ids
    /\ \A id \in Ids :
        Kept(id) \/ Learned(id) \/ Retired(id) \/ Removed(id) \/ Revived(id)

Spec == Init /\ [][Next]_<<memory, removed>>
=============================================================================

---------------------------- MODULE ChunkLedger ----------------------------
(***************************************************************************)
(* What the metadata file promises the workers of a transfer: a ledger in  *)
(* which a worker takes a chunk, stores it and records it, each in one     *)
(* step and without disturbing any other chunk.  The code gets there by    *)
(* loading the whole file, changing its copy and writing the copy back     *)
(* under a semaphore; MhDownload is checked to implement this module.      *)
(***************************************************************************)
CONSTANT Chunk

VARIABLES
  recorded,   \* the chunks marked OK
  held,       \* the chunks that a worker is transferring
  lost,       \* the chunks that a worker took and did not live to record
  stored      \* the chunks whose data are in the local file

ledger == <<recorded, held, lost, stored>>

Init == recorded = {} /\ held = {} /\ lost = {} /\ stored = {}

Take(c) ==
    /\ c \notin recorded \cup held \cup lost
    /\ held' = held \cup {c}
    /\ UNCHANGED <<recorded, lost, stored>>

Store(c) ==
    /\ c \in held
    /\ stored' = stored \cup {c}
    /\ UNCHANGED <<recorded, held, lost>>

(* Only what is stored is ever recorded. *)
Record(c) ==
    /\ c \in held \cap stored
    /\ held' = held \ {c}
    /\ recorded' = recorded \cup {c}
    /\ UNCHANGED <<lost, stored>>

(* The connection broke: anyone may take the chunk again. *)
GiveBack(c) ==
    /\ c \in held
    /\ held' = held \ {c}
    /\ UNCHANGED <<recorded, lost, stored>>

(* Workers die with the chunks C in their hands. *)
Lose(C) ==
    /\ C \subseteq held
    /\ held' = held \ C
    /\ lost' = lost \cup C
    /\ UNCHANGED <<recorded, stored>>

(* Repair, by the interrupted client or by mhstatus: nobody is at work. *)
Recover ==
    /\ held = {}
    /\ lost' = {}
    /\ UNCHANGED <<recorded, held, stored>>

Reset ==
    /\ held = {}
    /\ recorded' = {}
    /\ lost' = {}
    /\ UNCHANGED <<held, stored>>

Next ==
    \/ \E c \in Chunk : Take(c) \/ Store(c) \/ Record(c) \/ GiveBack(c)
    \/ \E C \in SUBSET Chunk : Lose(C)
    \/ Recover
    \/ Reset

Spec == Init /\ [][Next]_ledger
=============================================================================

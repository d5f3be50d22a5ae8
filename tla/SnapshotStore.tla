--------------------------- MODULE SnapshotStore ---------------------------
(***************************************************************************)
(* What a chronotail file promises its users, without slots, objects or    *)
(* system calls: a log of snapshots that only grows, readers that hold one *)
(* snapshot of the log each and only move forward, and a power loss that   *)
(* cuts the log back no further than the last durable snapshot.            *)
(***************************************************************************)
EXTENDS Naturals, Sequences

CONSTANTS Readers, Contents   \* Contents: the values a snapshot may have

VARIABLES
    log,        \* the snapshots published, oldest first
    durable,    \* the length of the log that a power loss preserves
    view,       \* the position of each reader in the log; 0 holds nothing
    content     \* what each reader reads

storeVars == <<log, durable, view, content>>

Init ==
    /\ log = << >>
    /\ durable = 0
    /\ view = [r \in Readers |-> 0]
    /\ content = [r \in Readers |-> {}]

(* A snapshot contains everything its predecessor contained.               *)
Publish ==
    /\ Len(log') = Len(log) + 1
    /\ SubSeq(log', 1, Len(log)) = log
    /\ log'[Len(log')] \in Contents
    /\ Len(log) > 0 => log[Len(log)] \subseteq log'[Len(log')]
    /\ UNCHANGED <<durable, view, content>>

Acknowledge ==
    /\ durable' = Len(log)
    /\ UNCHANGED <<log, view, content>>

Look(r) ==
    /\ view'[r] \in 1 .. Len(log)
    /\ view'[r] >= view[r]
    /\ view' = [view EXCEPT ![r] = view'[r]]
    /\ content' = [content EXCEPT ![r] = log[view'[r]]]
    /\ UNCHANGED <<log, durable>>

Leave(r) ==
    /\ view' = [view EXCEPT ![r] = 0]
    /\ content' = [content EXCEPT ![r] = {}]
    /\ UNCHANGED <<log, durable>>

Lose ==
    /\ \E kept \in durable .. Len(log) : log' = SubSeq(log, 1, kept)
    /\ view' = [r \in Readers |-> 0]
    /\ content' = [r \in Readers |-> {}]
    /\ UNCHANGED durable

Next ==
    \/ Publish
    \/ Acknowledge
    \/ \E r \in Readers : Look(r) \/ Leave(r)
    \/ Lose

Spec == Init /\ [][Next]_storeVars

=============================================================================

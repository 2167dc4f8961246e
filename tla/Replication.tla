----------------------------- MODULE Replication -----------------------------
(***************************************************************************)
(* What an incremental endpoint promises: the destination follows the      *)
(* source without ever going back, and the committed watermark never       *)
(* claims a change that the destination has not received.                  *)
(*                                                                         *)
(* A source record is a key with a version number and the cursor value the *)
(* source stamped on that version (0 when the record is deleted).  Several *)
(* changes may carry the same cursor value.                                *)
(***************************************************************************)
EXTENDS Integers

CONSTANT Keys

VARIABLES
    ver,            \* ver[k]: how often the source changed record k
    cur,            \* cur[k]: cursor value of its current version, 0 if deleted
    clock,          \* the source's clock: the cursor value of the next change
    dest,           \* dest[k]: the version the destination holds, 0 if none
    watermark       \* the committed cursor, 0 if none

replVars == <<ver, cur, clock, dest, watermark>>

Init ==
    /\ ver = [k \in Keys |-> 0]
    /\ cur = [k \in Keys |-> 0]
    /\ clock = 1
    /\ dest = [k \in Keys |-> 0]
    /\ watermark = 0

\* Every change stamped before w has reached the destination.
CompleteBelow(w) == \A k \in Keys : cur[k] # 0 /\ cur[k] < w => dest[k] = ver[k]

Change(k) ==
    /\ ver' = [ver EXCEPT ![k] = @ + 1]
    /\ cur' = [cur EXCEPT ![k] = clock]
    /\ UNCHANGED <<clock, dest, watermark>>

Delete(k) ==
    /\ cur[k] # 0
    /\ cur' = [cur EXCEPT ![k] = 0]
    /\ UNCHANGED <<ver, clock, dest, watermark>>

Tick ==
    /\ clock' = clock + 1
    /\ UNCHANGED <<ver, cur, dest, watermark>>

\* A publication: no record goes back and none is invented.
Publish ==
    /\ dest' = [k \in Keys |-> dest'[k]]
    /\ \A k \in Keys : dest[k] <= dest'[k] /\ dest'[k] <= ver[k]
    /\ UNCHANGED <<ver, cur, clock, watermark>>

\* The watermark advances, to a point below which nothing is missing.
Advance ==
    /\ watermark <= watermark'
    /\ watermark' <= clock
    /\ CompleteBelow(watermark')
    /\ UNCHANGED <<ver, cur, clock, dest>>

Next ==
    \/ \E k \in Keys : Change(k) \/ Delete(k)
    \/ Tick
    \/ Publish
    \/ Advance

Spec == Init /\ [][Next]_replVars
=============================================================================

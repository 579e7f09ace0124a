----------------------------- MODULE DurableLog -----------------------------
(***************************************************************************)
(* What a workspace's event log promises its readers, whatever processes,  *)
(* locks, tails and power losses do underneath: a sequence that grows only *)
(* at its end, whose i-th entry carries lamport clock i, and of which a    *)
(* stable prefix, holding every acknowledged entry, is never taken back.   *)
(***************************************************************************)
EXTENDS Naturals, Sequences

CONSTANT Malformed      \* what is read in place of a damaged entry

VARIABLES
    entries,    \* the log as a reader finds it
    stable,     \* length of the prefix that can no longer be lost
    acked,      \* entries whose writer was told they are recorded
    damaged     \* positions the disk has damaged

vars == <<entries, stable, acked, damaged>>

Init ==
    /\ Len(entries) = 1
    /\ stable \in 0..1
    /\ acked \subseteq {entries[i] : i \in 1..stable}
    /\ damaged = {}

(* One entry is added at the end, with the next clock.                     *)
Extend ==
    /\ Len(entries') = Len(entries) + 1
    /\ entries'[Len(entries')].lamport = Len(entries')
    /\ \A i \in 1..Len(entries) : entries'[i] = entries[i]
    /\ UNCHANGED <<stable, acked, damaged>>

(* The stable prefix grows; only entries inside it are acknowledged.       *)
Settle ==
    /\ stable' \in stable..Len(entries)
    /\ acked \subseteq acked'
    /\ acked' \subseteq acked \cup {entries[i] : i \in 1..stable'}
    /\ UNCHANGED <<entries, damaged>>

(* Entries beyond the stable prefix are lost.                              *)
Lose ==
    /\ Len(entries') \in stable..Len(entries)
    /\ \A i \in 1..Len(entries') : entries'[i] = entries[i]
    /\ UNCHANGED <<stable, acked, damaged>>

Damage ==
    /\ Len(entries') = Len(entries)
    /\ \E i \in 1..stable :
        /\ damaged' = damaged \cup {i}
        /\ entries'[i] = Malformed
        /\ \A j \in 1..Len(entries) : j # i => entries'[j] = entries[j]
    /\ UNCHANGED <<stable, acked>>

Next == Extend \/ Settle \/ Lose \/ Damage

Spec == Init /\ [][Next]_vars
=============================================================================

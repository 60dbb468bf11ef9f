-------------------------- MODULE WatermarkIndex --------------------------
(***************************************************************************)
(* What the indexing pipeline promises to those who read its tables: a     *)
(* watermark and an index that is complete up to it.  Only two things      *)
(* happen to a reader: the watermark advances, together with everything it *)
(* passes, or it is rewound, together with everything above it.            *)
(***************************************************************************)
EXTENDS Integers

CONSTANTS Txs, BlockOf, Required, InitWatermark

VARIABLES stored, watermark

indexVars == <<stored, watermark>>

Complete(set, last) == \A s \in Required : BlockOf[s] <= last => s \in set

IndexInit == stored = {} /\ watermark = InitWatermark

\* Rows above the watermark may be there already: a later batch of the same
\* blocks will find them.
Advance ==
    /\ stored \subseteq stored' /\ stored' \subseteq Txs
    /\ watermark' >= watermark
    /\ Complete(stored', watermark')

Rewind ==
    /\ watermark' <= watermark
    /\ stored' = {s \in stored : BlockOf[s] <= watermark'}

IndexNext == Advance \/ Rewind

IndexSpec == IndexInit /\ [][IndexNext]_indexVars
=============================================================================

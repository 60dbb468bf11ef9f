------------------------ MODULE MCIndexingPipeline ------------------------
(***************************************************************************)
(* Small instances of IndexingPipeline.  A signature is <<block, index>>;  *)
(* signatures with index 3 are those of a second fork.                     *)
(***************************************************************************)
EXTENDS IndexingPipeline

CONSTANTS f1, f2, n1, n2

MCBlockOf == [s \in Sigs |-> s[1]]

\* Blocks 2 and 4 hold one transaction, block 3 two of which one cannot be
\* decoded.  With MCOpaque a batch of block 4 alone decodes to nothing.
MCSigs == {<<2, 1>>, <<3, 1>>, <<3, 2>>, <<4, 1>>}
MCUndecodable == {<<3, 2>>}
MCOpaque == {<<3, 2>>, <<4, 1>>}

\* Block 2 is split over two sub-batches when MaxBatchTxs is 1.
MCSplitSigs == {<<2, 1>>, <<2, 2>>, <<3, 1>>}

\* Blocks 2 and 3 exist on two forks.
MCForkSigs == {<<2, 1>>, <<3, 1>>, <<2, 3>>, <<3, 3>>}
MCForkChain == {<<2, 1>>, <<3, 1>>}
=============================================================================

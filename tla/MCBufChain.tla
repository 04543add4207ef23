----------------------------- MODULE MCBufChain -----------------------------
(* BufChain on small instances: see the cfg files.                         *)
EXTENDS BufChain

CONSTANTS p1, p2, k1

TwoProducers == {p1, p2}
OneConsumer == {k1}

\* One producer, as in receiveWindowQueue: rings of 1 and then 2 slots grow
\* and wrap.
OneProducer ==
    [producers |-> {p1}, initSize |-> 1, sizeLimit |-> 2, indexMod |-> 4, maxInside |-> 6]

\* Two producers, as in the write queue; never more elements inside than the
\* first ring has slots, so that none is added.
TwoOnARing ==
    [producers |-> TwoProducers, initSize |-> 4, sizeLimit |-> 4, indexMod |-> 8,
     maxInside |-> 3]

\* Two producers and a chain that grows.
TwoThatGrow == [OneProducer EXCEPT !.producers = TwoProducers, !.maxInside = 4]

Sound == {OneProducer, TwoOnARing}
Growing == {TwoThatGrow}

=============================================================================

------------------------ MODULE MCHelloWorldPipeline ------------------------
EXTENDS HelloWorldPipeline

\* Fewer elements than tiles, remainders of every kind, even shapes, and products
\* behind UintLimit.
MCShapes == {<<>>} \cup {<<n>> : n \in 0..17} \cup {<<n, m>> : n \in 2..8, m \in 3..9}
==============================================================================

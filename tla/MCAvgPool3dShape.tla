-------------------------- MODULE MCAvgPool3dShape --------------------------
EXTENDS AvgPool3dShape

\* Cubes with the same window everywhere: every boundary of the arithmetic.
Cubes ==
    [self : {<<1, n, n, n>> : n \in 0..6}, kernel_size : {<<k>> : k \in -1..6},
     stride : {<<>>} \cup {<<s>> : s \in -1..5}, padding : {<<p>> : p \in -1..3},
     ceil_mode : BOOLEAN]

\* Lists of every length, and shapes of every rank.
Lists ==
    [self : {<<2, 3, 4>>, <<1, 2, 3, 4>>, <<1, 1, 6, 5, 4>>},
     kernel_size : {<<>>, <<2>>, <<2, 3>>, <<2, 3, 4>>},
     stride : {<<>>, <<2>>, <<1, 2>>, <<1, 2, 3>>},
     padding : {<<0>>, <<1, 1>>, <<0, 1, 2>>},
     ceil_mode : BOOLEAN]

MCCalls == Cubes \cup Lists

MCJunk == {-1, 0, 2}
==============================================================================

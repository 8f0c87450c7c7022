------------------------------- MODULE MCPage -------------------------------
EXTENDS Page

boxA == Box(0, 3)
boxB == Box(8, 3)
rim == Ink(0, 3, TRUE, "boundary")
conn == [kind |-> "conn", from |-> 1, to |-> 4, fromAt |-> 3, toAt |-> 0, p |-> 3, q |-> 8,
         fromInk |-> << >>, toInk |-> <<[lo |-> -1, hi |-> 0]>>, last |-> 0]

Blank == [page |-> Empty, next |-> 1]
Joined ==
    [page |-> [node |-> <<boxA, rim, Ink(1, 2, FALSE, "content"), boxB, rim, conn,
                          Ink(3, 8, FALSE, "none")>>,
               kids |-> (Root :> <<1, 4, 6>>) @@ <<<<2, 3>>, << >>, << >>, <<5>>, << >>, <<7>>, << >> >>],
     next |-> 8]
Inner ==
    [page |-> [node |-> <<Box(1, 6), Ink(0, 6, TRUE, "boundary"), Box(1, 3), rim,
                          Ink(1, 2, FALSE, "content"), Ink(9, 10, FALSE, "none")>>,
               kids |-> (Root :> <<1, 6>>) @@ <<<<2, 3>>, << >>, <<4, 5>>, << >>, << >>, << >> >>],
     next |-> 7]
Arms ==
    [page |-> [node |-> <<boxA, rim, Ink(3, 5, FALSE, "none"), boxB, rim,
                          Ink(5, 6, FALSE, "none"), Ink(0, 6, TRUE, "none")>>,
               kids |-> (Root :> <<1, 4, 7, 3, 6>>) @@ <<<<2>>, << >>, << >>, <<5>>, << >>, << >>, << >> >>],
     next |-> 8]

AllPages == {Blank, Joined, Inner, Arms}

Stroke(lo, hi, loop, connector, inkBox) ==
    [lo |-> lo, hi |-> hi, loop |-> loop, neat |-> TRUE, connector |-> connector, inkBox |-> inkBox]
SomeStrokes ==
    {Stroke(1, 2, FALSE, FALSE, FALSE),   \* into box A
     Stroke(7, 9, FALSE, TRUE, TRUE),     \* at box B's edge: style ink
     Stroke(3, 8, FALSE, TRUE, FALSE),    \* from A to B
     Stroke(6, 8, FALSE, TRUE, TRUE),     \* the last arm
     Stroke(0, 4, TRUE, TRUE, TRUE),      \* around box A
     Stroke(0, 12, TRUE, FALSE, TRUE),    \* around everything
     Stroke(5, 6, TRUE, TRUE, TRUE)}      \* too small a box
SomeRegions == {0..4, 2..2, 0..12, 3..9, 7..11}
SomeMarquees == {0..12, 7..11}
SomePoints == {1, 3, 10}
SomeShifts == {-7, 2}
=============================================================================

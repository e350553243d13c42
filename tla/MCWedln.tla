------------------------------ MODULE MCWedln ------------------------------
EXTENDS Wedln

Texts == {<<1>>, <<2>>, <<1, 2>>}
Answer(comps, beg) == [comps |-> comps, beg |-> beg]
TheAnswers == {Answer(<<>>, <<>>), Answer(<<<<2>>>>, <<1>>),
               Answer(<<<<1, 2>>, <<1>>, <<1, 2>>>>, <<>>), Answer(<<<<2>>, <<1, 2>>, <<1>>>>, <<>>)}
TheSizes == {[w |-> 2, h |-> 1], [w |-> 3, h |-> 2], [w |-> 5, h |-> 3], [w |-> 5, h |-> 0]}
=============================================================================

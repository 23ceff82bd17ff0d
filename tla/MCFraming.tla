------------------------------ MODULE MCFraming ------------------------------
(* Values for Framing.                                                       *)
EXTENDS Framing

LOCAL INSTANCE Bitwise

\* Lengths below, at and above a block, the largest SendBuf admits and one more; contents
\* whose sums and sums with carry differ.
MCPayloads == {<<1>>, <<0, 1, 1>>, <<1, 0, 0, 1, 1>>, <<2, 1, 0, 3, 1, 2, 3, 0, 3, 2, 1, 1>>,
               [i \in 1..14 |-> (i * i + 1) % 4], [i \in 1..22 |-> (3 * i + i * i) % 4],
               [i \in 1..23 |-> 1]}
MCGreetings == {<<2, 1, 0, 3, 1, 2, 3, 0, 3, 2>>, <<0, 3, 3, 3, 3, 3, 3, 3>>}
MCXorKeys == {0, 77, 255}
MCXorOf(a, b) == a ^^ b

=============================================================================

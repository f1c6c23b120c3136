--------------------------- MODULE MCFrameParser ---------------------------
(* Lines of up to three pieces, each an intact or a damaged frame, ended   *)
(* by quiet bytes that let the parser finish whatever it waits for.        *)
EXTENDS FrameParser

Frame(type, data) ==
  LET s == <<85, 170, 0, type, 0, Len(data)>> \o data IN Append(s, get_check_sum(s))

Good    == {Frame(1, <<>>), Frame(2, <<85, 170>>)}
Cut     == {SubSeq(Frame(2, <<9>>), 1, n) : n \in 1 .. 7}
Damaged == {<<85, 170, 0, 1, 0, 0, 1>>, <<85, 170, 0, 1, 0, 3, 0>>,
            <<85, 170, 0, 1, 0, 100, 0>>, <<85, 85, 0, 1, 0, 0, 0>>}
Pieces  == Good \cup Cut \cup Damaged
Quiet   == [i \in 1 .. BufSize |-> 0]

Start(l, i) == FoldSet(LAMBDA k, n : n + Len(l[k]), 0, 1 .. i - 1)
LineOf(l) ==
  [bytes  |-> FlattenSeq(l) \o Quiet,
   intact |-> {Start(l, i) : i \in {i \in 2 .. Len(l) : l[i - 1] \in Good /\ l[i] \in Good}}]

MCStreams == {LineOf(l) : l \in [1 .. 3 -> Pieces]}

(* A damaged header whose length does not fit into 16 bits with the head.  *)
MCLongStreams == {LineOf(<<<<85, 170, 0, t, 255, n>>, g>>) :
                    t \in {0, 1}, n \in 250 .. 255, g \in Good}
=============================================================================

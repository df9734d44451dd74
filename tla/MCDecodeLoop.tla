----------------------------- MODULE MCDecodeLoop -----------------------------
(***************************************************************************)
(* An instance of DecodeLoop for TLC: two texts, the two bytes of a        *)
(* character, a special token and a terminal one, with scores that tie, in *)
(* tables of two or three rows a page and in one whose rows do not fit.    *)
(***************************************************************************)
EXTENDS DecodeLoop

Row(text, byte, special, terminal) ==
  [text |-> text, byte |-> byte, special |-> special, terminal |-> terminal]
MCDecoder ==
  [t \in 0 .. 4 |->
     CASE t = 0 -> Row("a", "none", FALSE, FALSE)
       [] t = 1 -> Row("<0xC3>", "lead", FALSE, FALSE)
       [] t = 2 -> Row("<0xA9>", "trail", FALSE, FALSE)
       [] t = 3 -> Row("<s>", "none", TRUE, FALSE)
       [] t = 4 -> Row("<eos>", "none", TRUE, TRUE)]

MCLayouts == {[width |-> 2, page |-> 4], [width |-> 2, page |-> 6], [width |-> 2, page |-> 5]}
MCPrompts == {<<>>, <<0>>, <<1, 3>>}
=============================================================================

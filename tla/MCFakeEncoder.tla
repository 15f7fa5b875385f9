---------------------------- MODULE MCFakeEncoder ----------------------------
(* FakeEncoder on a small instance: one stream, as the program configures,   *)
(* whose frames are large, too small when they pay a debt, always too small, *)
(* or empty.                                                                 *)
EXTENDS FakeEncoder

OneStream == {<<0>>, <<13>>, <<121>>, <<239>>}
Maxima == {-1, 9, 17}
==============================================================================

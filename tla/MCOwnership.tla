---------------------------- MODULE MCOwnership ----------------------------
(* Constants for checking Ownership.                                       *)
EXTENDS Ownership

(* : join p q  sc $ p $ q                                                  *)
MCCallee == Node("cat", 0, <<Node("borrow", 1, <<>>), Node("borrow", 0, <<>>)>>)

MCSizes        == <<6, 5>>
MCSizesTwo     == <<4, 4>>
MCSizesCapture == <<0, 0, 5>>

MCForms        == {"lit", "panic", "var", "move", "borrow", "str", "cat", "call", "trap", "seq", "let", "if"}
MCFormsCapture == {"lit", "move", "borrow", "trap", "seq"}

=============================================================================

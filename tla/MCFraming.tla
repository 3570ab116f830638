----------------------------- MODULE MCFraming -----------------------------
(* Lines for TLC: an empty one, two of the longest the programs send, one of
   telnet's that has to be cut, and one that overflows when it comes in small
   chunks. *)
EXTENDS Framing

SomeLines == {<<>>, <<"a", "b">>, <<"b", CR>>, <<"a", "b", "a", "b", CR>>,
              <<"a", "a", "b", "b", "a", "b", "a">>}
=============================================================================

----------------------------- MODULE MCCapture -----------------------------
(* Capture with short codes, for TLC. *)
EXTENDS Capture

\* Plain; with a byte that is escaped at the end, a per cent sign before digits,
\* a plus; a character of two bytes, which a short read may cut.
SomeCodes == {<<97, 65>>, <<97, 47>>, <<37, 52, 49>>, <<43, 32>>, <<195, 169>>}
=============================================================================

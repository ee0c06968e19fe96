------------------------------ MODULE MCBuffer ------------------------------
(* Buffer with a vector of a few bytes.                                    *)
EXTENDS Buffer

MCData == {<<>>, <<1>>, <<1, 2>>, <<2, 1, 2>>}
=============================================================================

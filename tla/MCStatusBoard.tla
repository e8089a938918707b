--------------------------- MODULE MCStatusBoard ---------------------------
(* An instance of StatusBoard for TLC: a plain job and a job of a matrix.  *)
EXTENDS StatusBoard, TLC

MCKeys == {<<"lint">>, <<"test (1.30", " amd64)">>}
=============================================================================

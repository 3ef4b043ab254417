------------------------------- MODULE MCGame -------------------------------
EXTENDS Game2048
Tables == {<<>>, <<12, 4>>}
=============================================================================

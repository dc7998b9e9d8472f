--------------------------- MODULE MCAsyncLogging ---------------------------
(* AsyncLogging on buffers of three bytes: a line of one byte shares a      *)
(* buffer, one of two bytes fills it, one of three fits in none.            *)
EXTENDS AsyncLogging

MCMessageLens == {1, 2, 3}
=============================================================================

-------------------------------- MODULE SLog --------------------------------
(***************************************************************************)
(* slog (slog/logging.h, logging.cc): which handler a message goes to, and *)
(* whether the program survives it.  A handler is Default                  *)
(* (DefaultLogHandler), Null (NullLogHandler), or a user's function, which *)
(* returns; NULL is the null pointer callers pass and get.                 *)
(***************************************************************************)
EXTENDS Naturals, Sequences

LOGLEVEL_INFO == 0
LOGLEVEL_WARNING == 1
LOGLEVEL_ERROR == 2
LOGLEVEL_FATAL == 3
LogLevels == LOGLEVEL_INFO .. LOGLEVEL_FATAL

\* What happens after a message of that level was handled.
DefaultLogHandler(level) ==
    IF level \in {LOGLEVEL_ERROR, LOGLEVEL_FATAL} THEN "exit" ELSE "returns"

\* LogMessage::Finish()
Finish(handler, level) ==
    CASE handler = "Default" /\ DefaultLogHandler(level) = "exit" -> "exit"
      [] handler # "Default" /\ level = LOGLEVEL_FATAL           -> "abort"
      [] OTHER                                                   -> "returns"

OldReadLate(handler, new_func) ==   \* (mutation: log_handler_ read after it is set)
    LET now == IF new_func = "NULL" THEN "Null" ELSE new_func
    IN  [log_handler_ |-> now, old |-> now]

SetLogHandler(handler, new_func) ==
    [log_handler_ |-> IF new_func = "NULL" THEN "Null" ELSE new_func,
     old |-> IF handler = "Null" THEN "NULL" ELSE handler]
=============================================================================

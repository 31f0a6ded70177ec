----------------------------- MODULE MCAsyncLog -----------------------------
(* Model-checking instances of AsyncLog.                                    *)
EXTENDS AsyncLog

MCReaders == {Flusher}

=============================================================================

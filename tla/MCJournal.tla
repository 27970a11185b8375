----------------------------- MODULE MCJournal -----------------------------
(* Journal on small instances.  The handlers are interchangeable.          *)
EXTENDS Journal, TLC

HandlerSymmetry == Permutations(Handlers)
=============================================================================

--------------------------- MODULE MCBudgetGuard ---------------------------
(***************************************************************************)
(* Small instances of BudgetGuard: the watcher and up to two threads that  *)
(* poll, and walks of up to two steps.                                     *)
(***************************************************************************)
EXTENDS BudgetGuard

AllPrograms == {"toolpath", "analysis", "cli"}
=============================================================================

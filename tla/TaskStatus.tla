----------------------------- MODULE TaskStatus -----------------------------
(***************************************************************************)
(* The pure status functions of the todo plugin                            *)
(* (src/todo/shared/machine.ts), shared by the engine and the page.        *)
(***************************************************************************)

Status == {"draft", "queued", "preparing", "running", "needs_attention",
           "awaiting_review", "needs_check", "failed", "canceling", "canceled",
           "merging", "merged", "merge_failed"}

TurnKind == {"completed", "failed", "canceled"}

\* These hold the repository's execution slot.
IsExecution(s) == s \in {"preparing", "running", "needs_attention", "canceling"}

CanEnqueue(s) == s = "draft"

CanCancel(s) == s \in Status \ {"canceled", "merging", "merged"}

CanDelete(s) == s \in Status /\ ~IsExecution(s) /\ s # "merging"

CanRetry(s) == s \in {"failed", "canceled", "needs_check", "merge_failed"}

CanContinue(s) == s \in {"awaiting_review", "needs_check", "failed", "merge_failed"}

\* What the end of a turn makes of a task, or "ignored".
ReduceTurn(s, kind) ==
    CASE s = "canceling" -> "canceled"
      [] s \in {"preparing", "running", "needs_attention"} ->
           IF kind = "completed" THEN "awaiting_review" ELSE kind
      [] OTHER -> "ignored"

ReducePermission(s, pending) ==
    CASE pending /\ s = "running" -> "needs_attention"
      [] ~pending /\ s = "needs_attention" -> "running"
      [] OTHER -> s

\* What a restart makes of a task in execution, from what its session looks like.
RecoverExecution(seen) ==
    CASE seen = "failed"                -> "unchanged"
      [] seen \in {"none", "gone"}      -> "needs_check"
      [] seen = "permission"            -> "needs_attention"
      [] seen = "busy"                  -> "running"
      [] seen = "idle"                  -> "needs_check"
=============================================================================

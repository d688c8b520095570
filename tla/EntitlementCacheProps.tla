------------------------- MODULE EntitlementCacheProps -------------------------
(* What a decision may assume of the grants it rests on. *)
EXTENDS EntitlementCache

GrantTypeOK ==
    /\ ticks \in 0..MaxTicks
    /\ lastHeld[account] = ticks /\ lastHeld[role] = ticks
    /\ remembered.until \in 0..(MaxTicks + Window)
    /\ \A s \in Asker : asker[s].at \in {"none", "account", "roles", "answered"}

Replies(s) == asker[s].at # "answered" /\ asker'[s].at = "answered"

(* An answer is what the subject held, claims and roles each, at a moment  *)
(* since it was asked; a remembered one, at a moment within the window:    *)
(* "a claim about the past, up to cache_window_seconds old"                *)
(* (security/entitlements.py:58-61), although lookups overlap, are slow,   *)
(* and overwrite what a later one has remembered.                          *)
RevocationIsSeen ==
    [][\A s \in Asker : Replies(s) =>
         LET answer == asker'[s]
             InTime(v) == IF answer.cached THEN lastHeld[v] + Window > ticks
                                           ELSE lastHeld[v] >= answer.since
         IN  InTime(answer.account) /\ (answer.account \notin Refused => InTime(answer.role))]_grantVars
=============================================================================

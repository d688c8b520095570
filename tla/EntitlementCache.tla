--------------------------- MODULE EntitlementCache ---------------------------
(***************************************************************************)
(* What a requester holds, as a process learns and remembers it:           *)
(* KeycloakEntitlementVerifier of security/entitlements.py for one         *)
(* subject.  verify takes the time, looks into the cache, and else asks    *)
(* the identity provider twice, first for the account with its scope, then *)
(* for the roles; requests overlap, and each writes what it learned into   *)
(* the cache when it comes back, however late.                             *)
(*                                                                         *)
(* Time is counted in ticks.  The token of the service account is left     *)
(* out: without one the lookup fails, as it does for other reasons.        *)
(***************************************************************************)
EXTENDS Naturals

CONSTANTS
    Asker,      \* calls of verify in flight
    Extent,     \* what an enabled account's claims may say
    Role,       \* what the role mappings may say
    Window,     \* cache_seconds
    MaxTicks,   \* bound on the clock
    MaxRegrants  \* bound on what changes at the identity provider

ASSUME TimeIsCounted == Window \in Nat \ {0} /\ MaxTicks \in Nat /\ MaxRegrants \in Nat

VARIABLES
    ticks,
    account,        \* at the identity provider: the claims, or not enabled
    role,
    lastHeld,       \* claim or role -> the last tick it was held in (history)
    remembered,     \* the cache's answer, and until when it counts
    asker,          \* asker -> where its call is
    regrants

grantVars == <<ticks, account, role, lastHeld, remembered, asker, regrants>>

Refused == {"disabled"}    \* or unknown, which is treated alike
NotAsking == [at |-> "none"]
Nothing == [until |-> 0]

(* Where nobody asks: a subject without grants.                            *)
NoGrants == account = "disabled" /\ role = "none"

GrantInit ==
    /\ ticks = 0
    /\ (account \in Extent /\ role \in Role) \/ NoGrants
    /\ lastHeld = [v \in {account, role} |-> 0]
    /\ remembered = Nothing
    /\ asker = [s \in Asker |-> NotAsking]
    /\ regrants = 0

Turn(s, call) == asker' = [asker EXCEPT ![s] = call]

(* verify with fresh, or with nothing that still counts in the cache.      *)
AskProvider(s, fresh) ==
    /\ asker[s] = NotAsking
    /\ fresh \/ remembered.until <= ticks
    /\ Turn(s, [at |-> "account", since |-> ticks])
    /\ UNCHANGED <<ticks, account, role, lastHeld, remembered, regrants>>

(* A remembered answer, a refusal too.                                     *)
AnswerFromCache(s) ==
    /\ asker[s] = NotAsking
    /\ remembered.until > ticks
    /\ Turn(s, [at |-> "answered", account |-> remembered.account, role |-> remembered.role,
                cached |-> TRUE, since |-> ticks])
    /\ UNCHANGED <<ticks, account, role, lastHeld, remembered, regrants>>

(* Mutant of Remember: the window starts when the answer comes. *)
RememberFromNow(s, learned, mapped) ==
    remembered' = [until |-> ticks + Window, account |-> learned, role |-> mapped]

(* The window starts when the question was asked.                          *)
Remember(s, learned, mapped) ==
    remembered' = [until |-> asker[s].since + Window, account |-> learned, role |-> mapped]

Informed(s, learned, mapped) ==
    Turn(s, [at |-> "answered", account |-> learned, role |-> mapped,
             cached |-> FALSE, since |-> asker[s].since])

(* _fetch: the account; one that is gone or disabled is an answer.         *)
LearnAccount(s) ==
    /\ asker[s].at = "account"
    /\ IF account \in Refused
         THEN /\ Informed(s, account, "none")
              /\ Remember(s, account, "none")
         ELSE /\ Turn(s, [at |-> "roles", since |-> asker[s].since, account |-> account])
              /\ UNCHANGED remembered
    /\ UNCHANGED <<ticks, account, role, lastHeld, regrants>>

LearnRoles(s) ==
    /\ asker[s].at = "roles"
    /\ Informed(s, asker[s].account, role)
    /\ Remember(s, asker[s].account, role)
    /\ UNCHANGED <<ticks, account, role, lastHeld, regrants>>

(* UNAVAILABLE is no answer and is not remembered.                         *)
LookupFails(s) ==
    /\ asker[s].at \in {"account", "roles"}
    /\ Turn(s, NotAsking)
    /\ UNCHANGED <<ticks, account, role, lastHeld, remembered, regrants>>

(* The caller has its answer and goes on.                                  *)
Decides(s) ==
    /\ asker[s].at = "answered"
    /\ Turn(s, NotAsking)
    /\ UNCHANGED <<ticks, account, role, lastHeld, remembered, regrants>>

(* The history: what is held now was last held now.                        *)
HeldNow(tick) ==
    [v \in DOMAIN lastHeld \cup {account', role'} |->
        IF v \in {account', role'} THEN tick ELSE lastHeld[v]]

(* The identity provider's operator acts whenever it likes.                *)
ChangeGrants ==
    /\ account' \in Extent \cup Refused
    /\ role' \in Role
    /\ <<account', role'>> # <<account, role>>
    /\ lastHeld' = HeldNow(ticks)
    /\ regrants < MaxRegrants
    /\ regrants' = regrants + 1
    /\ UNCHANGED <<ticks, remembered, asker>>

Tick ==
    /\ ticks < MaxTicks
    /\ ticks' = ticks + 1
    /\ UNCHANGED <<account, role>>
    /\ lastHeld' = HeldNow(ticks')
    /\ UNCHANGED <<regrants, remembered, asker>>

GrantNext ==
    \/ ChangeGrants \/ Tick
    \/ \E s \in Asker :
         \/ \E fresh \in BOOLEAN : AskProvider(s, fresh)
         \/ AnswerFromCache(s) \/ LearnAccount(s) \/ LearnRoles(s)
         \/ LookupFails(s) \/ Decides(s)

GrantSpec == GrantInit /\ [][GrantNext]_grantVars
=============================================================================

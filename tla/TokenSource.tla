----------------------------- MODULE TokenSource -----------------------------
(***************************************************************************)
(* The bearer token of the commit path (commit/auth.rs): one cached token, *)
(* renewed under a write lock that is held across the exchange, for as     *)
(* many commits as ask for it at once.  A dropped operation gives up its   *)
(* place, and the lock if it holds it.                                     *)
(***************************************************************************)
EXTENDS Integers

CONSTANTS
    Tasks,        \* what may ask for a token: one per table under maintenance
    Credentials,  \* the kinds of credential a deployment may configure
    Lifetimes,    \* lifetimes an exchange may grant
    Margin,       \* how long before its expiry a token is renewed
    Never,        \* the lifetime of a token whose server named none
    NoOne         \* what holds a free lock

VARIABLES
    now,         \* the clock
    credential,  \* the credential the deployment configured
    slot,        \* the cached token: when it was fetched, is renewed and expires
    holder,      \* who holds the write lock
    client       \* each task's place in a call to token()

tokenVars == <<now, credential, slot, holder, client>>

TokenSourceAssumption ==
    /\ Credentials \subseteq {"none", "static", "client"}
    /\ Margin \in Nat
    /\ Lifetimes \subseteq Nat \cup {Never}
    /\ Never \notin Nat
    /\ NoOne \notin Tasks
ASSUME TokenSourceAssumption

NoToken == [fetched |-> -1, renewAt |-> 0, expires |-> 0]
Unexpiring == [fetched |-> -1, renewAt |-> Never, expires |-> Never]

(* Mutant: a token is used until it expires. *)
NoMargin(lifetime) == lifetime

(* A life shorter than the margin is renewed halfway through. *)
RenewAhead(lifetime) == IF lifetime >= Margin THEN lifetime - Margin ELSE lifetime \div 2

Fetched(lifetime) ==
    IF lifetime = Never
    THEN [Unexpiring EXCEPT !.fetched = now]
    ELSE [fetched |-> now, renewAt |-> now + RenewAhead(lifetime), expires |-> now + lifetime]

IsDue(token) == IF token.renewAt = Never THEN FALSE ELSE now >= token.renewAt
Usable(token) == IF token.expires = Never THEN TRUE ELSE now < token.expires

Idle == [pc |-> "idle", token |-> NoToken, since |-> 0]

TokenInit ==
    /\ now = 0
    /\ credential \in Credentials
    /\ slot = NoToken
    /\ holder = NoOne
    /\ client = [t \in Tasks |-> Idle]

At(t, pc) == client' = [client EXCEPT ![t].pc = pc]

(* The call returns a token, which a request will carry. *)
Present(t, token) == client' = [client EXCEPT ![t] = [pc |-> "armed", token |-> token, since |-> now]]

-----------------------------------------------------------------------------

(* Without client credentials there is nothing to fetch. *)
Supplied(t) ==
    /\ client[t].pc = "asking"
    /\ credential # "client"
    /\ Present(t, Unexpiring)
    /\ UNCHANGED <<now, credential, slot, holder>>

(* The read lock: no one is exchanging. *)
ReadCached(t) ==
    /\ client[t].pc = "asking"
    /\ credential = "client"
    /\ holder = NoOne
    /\ IF IsDue(slot) THEN At(t, "queued") ELSE Present(t, slot)
    /\ UNCHANGED <<now, credential, slot, holder>>

(* Mutant: the token is not looked at again under the write lock. *)
Trusting(token) == TRUE
DueUnderLock(token) == IsDue(token)

(* The write lock: another may have renewed the token while this one queued. *)
Lock(t) ==
    /\ client[t].pc = "queued"
    /\ holder = NoOne
    /\ IF DueUnderLock(slot) THEN holder' = t /\ At(t, "exchanging")
       ELSE Present(t, slot) /\ UNCHANGED holder
    /\ UNCHANGED <<now, credential, slot>>

Exchanged(t) ==
    /\ client[t].pc = "exchanging"
    /\ \E lifetime \in Lifetimes :
        /\ slot' = Fetched(lifetime)
        /\ Present(t, Fetched(lifetime))
    /\ holder' = NoOne
    /\ UNCHANGED <<now, credential>>

(* The server refuses or does not answer: what was cached stays cached. *)
ExchangeFailed(t) ==
    /\ client[t].pc = "exchanging"
    /\ At(t, "failed")
    /\ holder' = NoOne
    /\ UNCHANGED <<now, credential, slot>>

TokenStep(t) == Supplied(t) \/ ReadCached(t) \/ Lock(t) \/ Exchanged(t) \/ ExchangeFailed(t)

LockAfter(t) == IF holder = t THEN NoOne ELSE holder

(* The call is over, or dropped at the await it had reached. *)
EndCall(t) ==
    /\ client' = [client EXCEPT ![t] = Idle]
    /\ holder' = LockAfter(t)
    /\ UNCHANGED <<now, credential, slot>>

-----------------------------------------------------------------------------
(* Properties *)

(* However many commits find the token due at once, one exchange serves them *)
(* all: nobody exchanges while the token in hand is good.                    *)
OneExchangeServesAll == \A t \in Tasks : client[t].pc = "exchanging" => IsDue(slot)

(* The margin covers the commit: a request that carries a token is answered  *)
(* before the token expires.                                                 *)
TokensOutliveRequests == \A t \in Tasks : client[t].pc = "armed" => Usable(client[t].token)
=============================================================================

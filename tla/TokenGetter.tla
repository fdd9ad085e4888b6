---------------------------- MODULE TokenGetter ----------------------------
(***************************************************************************)
(* The tokens with which requests are made as an extension's service       *)
(* account: a cache of one token per account, shared by all the clients of *)
(* the process, and the round tripper that drops a token the server         *)
(* refuses and tries once more.  The lock covers the single accesses to the *)
(* cache, not the request for a token between two of them.                  *)
(***************************************************************************)
EXTENDS Naturals

CONSTANTS
    Clients,        \* goroutines that make requests as the account
    Lifetime, Threshold,  \* expirationDuration, and the fraction of it that is too short
    MaxTime,        \* bound: the clock
    MaxRecreations  \* bound: deletions and creations of the account

ASSUME TokenAssumption ==
    /\ Lifetime \in Nat /\ Threshold \in 1..Lifetime
    /\ MaxTime \in Nat /\ MaxRecreations \in Nat

VARIABLES
    now,      \* the clock
    account,  \* the service account: its number, 0 while there is none
    numbers,  \* the accounts of this name there have been
    token,    \* the cached token
    client    \* the requests

tokenVars == <<now, account, numbers, token, client>>
NoToken == [of |-> 0, expires |-> 0]
NoRequest == [pc |-> "idle", try |-> 0, token |-> NoToken, readAt |-> 0, result |-> "none"]

TokenInit ==
    /\ now = 0 /\ account \in {0, 1} /\ numbers = account /\ token = NoToken
    /\ client = [c \in Clients |-> NoRequest]

At(c, pc) == client[c].pc = pc
UnchangedEnv == UNCHANGED <<now, account, numbers>>

StartRequest(c) ==
    /\ At(c, "idle")
    /\ client' = [client EXCEPT ![c] = [NoRequest EXCEPT !.pc = "get", !.try = 1]]
    /\ UNCHANGED token /\ UnchangedEnv
\* mutant: a token is good until it expires
ExpiringAtOnce(t) == t = NoToken \/ t.expires < now
\* A token that expires within the threshold is replaced.
Expiring(t) == t = NoToken \/ t.expires < now + Threshold
GetToken(c) ==
    /\ At(c, "get")
    /\ client' = [client EXCEPT ![c] =
         IF Expiring(token) THEN [@ EXCEPT !.pc = "create"]
         ELSE [@ EXCEPT !.pc = "send", !.token = token, !.readAt = now]]
    /\ UNCHANGED token /\ UnchangedEnv
\* getToken: without the account there is an error.
CreateToken(c) ==
    /\ At(c, "create")
    /\ client' = [client EXCEPT ![c] =
         IF account = 0 THEN [@ EXCEPT !.pc = "idle", !.result = "notfound"]
         ELSE [@ EXCEPT !.pc = "store", !.readAt = now,
                        !.token = [of |-> account, expires |-> now + Lifetime]]]
    /\ UNCHANGED token /\ UnchangedEnv
\* The token is cached, and tokens that have expired are deleted.
StoreToken(c) ==
    /\ At(c, "store")
    /\ token' = IF now > client[c].token.expires THEN NoToken ELSE client[c].token
    /\ client' = [client EXCEPT ![c].pc = "send"]
    /\ UnchangedEnv
Accepted(t) == account # 0 /\ t.of = account /\ now <= t.expires
\* mutant: a token that was refused stays cached
RoundTripKeeping(c) ==
    /\ At(c, "send")
    /\ client' = [client EXCEPT ![c] =
         CASE Accepted(@.token) -> [@ EXCEPT !.pc = "idle", !.result = "ok"]
           [] ~Accepted(@.token) /\ @.try = 1 -> [@ EXCEPT !.pc = "get", !.try = 2]
           [] OTHER -> [@ EXCEPT !.pc = "idle", !.result = "unauthorized"]]
    /\ UNCHANGED token /\ UnchangedEnv
\* RoundTrip: a refused token is deleted from the cache, whichever is there by now,
\* and the request is made a second time.
RoundTrip(c) ==
    /\ At(c, "send")
    /\ LET r == client[c] IN
       IF Accepted(r.token)
       THEN /\ client' = [client EXCEPT ![c] = [r EXCEPT !.pc = "idle", !.result = "ok"]]
            /\ UNCHANGED token
       ELSE IF r.try = 1
       THEN client' = [client EXCEPT ![c] = [r EXCEPT !.pc = "get", !.try = 2]] /\ token' = NoToken
       ELSE /\ client' = [client EXCEPT ![c] = [r EXCEPT !.pc = "idle", !.result = "unauthorized"]]
            /\ UNCHANGED token
    /\ UnchangedEnv
RequestStep(c) == StartRequest(c) \/ GetToken(c) \/ CreateToken(c) \/ StoreToken(c) \/ RoundTrip(c)

Tick == now < MaxTime /\ now' = now + 1 /\ UNCHANGED <<account, numbers, token, client>>
RecreateAccount ==
    /\ IF account = 0 THEN account' = numbers + 1 /\ numbers' = numbers + 1
       ELSE numbers <= MaxRecreations /\ account' = 0 /\ UNCHANGED numbers
    /\ UNCHANGED <<now, token, client>>
TokenNext == Tick \/ RecreateAccount \/ \E c \in Clients : RequestStep(c)
TokenSpec == TokenInit /\ [][TokenNext]_tokenVars
FairTokens == \A c \in Clients : WF_tokenVars(RequestStep(c))
FairTokenSpec == TokenSpec /\ FairTokens

-----------------------------------------------------------------------------
\* Every variable has its type.
TokenTypeOK ==
    LET Tokens == [of: 0..numbers, expires: 0..(MaxTime + Lifetime)] IN
    /\ now \in 0..MaxTime /\ numbers \in 0..(MaxRecreations + 1) /\ account \in {0, numbers}
    /\ token \in Tokens
    /\ client \in [Clients -> [pc: {"idle", "get", "create", "store", "send"}, try: 0..2,
                               token: Tokens, readAt: 0..MaxTime,
                               result: {"none", "ok", "notfound", "unauthorized"}]]

\* A request that is sent soon after its token was read carries a token that has not
\* expired, whoever replaced or deleted the cached one in the meantime.
TokenOutlivesRequest ==
    \A c \in Clients :
      (At(c, "send") /\ now <= client[c].readAt + Threshold) => now <= client[c].token.expires

\* Once the account stays, requests are accepted again and again: no refused token
\* stays in the cache, although an answer for an account that is gone may be
\* stored after the deletion.
RequestsRecover ==
    \A c \in Clients : <>[](account # 0) => []<>(client[c].result = "ok")
=============================================================================

----------------------------- MODULE OAuthCache -----------------------------
(***************************************************************************)
(* The shared cache of OAuth bearer tokens (mongocrypt-cache-oauth.c): a   *)
(* map from a KMS id to the last token put for it and the time from which  *)
(* it counts as expired.  Its mutex covers the whole of each operation.    *)
(*                                                                         *)
(* A token is identified by the time at which its response first reached   *)
(* the cache ("since"), which is what its reported lifetime counts from.   *)
(***************************************************************************)
EXTENDS Integers

CONSTANTS
    TokenLives,         \* the values of "expires_in" of OAuth responses, in seconds
    Second,             \* clock ticks in a second (1000 * 1000)
    MaxTime,            \* the largest 64-bit time in ticks (INT64_MAX)
    EvictionPeriod,     \* MONGOCRYPT_OAUTH_CACHE_EVICTION_PERIOD_US
    NoToken             \* a KMS id without an entry

ASSUME OAuthCacheAssumption ==
    /\ TokenLives \subseteq Int
    /\ Second \in Nat \ {0}
    /\ MaxTime \in Nat
    /\ EvictionPeriod \in Nat
    /\ NoToken \notin [since : Nat, expires : Int]

Token == [since : Nat, expires : Int]

\* mc_mapof_kmsid_to_token_get_token returns a token rather than NULL.
HasToken(oauth, kmsid, now) ==
    /\ oauth[kmsid] # NoToken
    /\ ~ (now >= oauth[kmsid].expires)

\* The lifetime in ticks.  "The overflow checks in this function don't consider
\* negative values": their product wraps around.
Lifetime(life) ==
    ((life * Second + MaxTime + 1) % (2 * (MaxTime + 1))) - (MaxTime + 1)

\* The assertions on the lifetime, which end the process when they do not hold
LifeFits(life, now) ==
    /\ life <= MaxTime \div Second
    /\ Lifetime(life) <= MaxTime - now
    /\ Lifetime(life) + now > EvictionPeriod

(***************************************************************************)
(* mc_mapof_kmsid_to_token_add_response, with a lifetime that passes its   *)
(* assertions: the expiry counts from the moment of the call, and an       *)
(* existing entry is overwritten.                                          *)
(***************************************************************************)
AddResponse(oauth, kmsid, since, life, now) ==
    [oauth EXCEPT ![kmsid] =
        [since |-> since, expires |-> now + Lifetime(life) - EvictionPeriod]]
=============================================================================

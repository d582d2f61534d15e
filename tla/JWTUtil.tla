------------------------------- MODULE JWTUtil -------------------------------
(***************************************************************************)
(* The tokens of utils/JWTUtil.cpp: the id claim, who signed it, and when  *)
(* it expires.  Time is in steps as long as the leeway of the verifier.    *)
(***************************************************************************)
EXTENDS Naturals

CONSTANTS
  ValidFor,  \* the lifetime handleLogin gives a token
  Secrets,   \* secrets tokens are signed with, by this server or another
  m_secret   \* the one of this server

ASSUME TokenAssumption == ValidFor \in Nat /\ m_secret \in Secrets

Leeway == 1

(* generateToken, called at time now. *)
GenerateToken(id, secret, now) ==
  [id |-> id, secret |-> secret, expires_at |-> now + ValidFor]

(* The tokens that may have been handed out until now. *)
TokensUntil(Ids, now) ==
  {GenerateToken(i, k, issued_at) : i \in Ids, k \in Secrets, issued_at \in 0 .. now}

(* jwt::verify with the key, the issuer and leeway(60): the token is not   *)
(* past its expiry, nor before the time it was issued, by more than that.  *)
VerifierAccepts(token, now) ==
  /\ token.secret = m_secret
  /\ now <= token.expires_at + Leeway
  /\ token.expires_at <= now + Leeway + ValidFor

(* Mutant: the expiry is left to the verifier. *)
NeverExpired(token, now) == FALSE

(* isTokenExpired *)
IsTokenExpired(token, now) == token.expires_at < now

(* A token of this server that has not expired. *)
Genuine(token, now) == token.secret = m_secret /\ now <= token.expires_at

(* A token of this server that expired no longer ago than the leeway. *)
WithinLeeway(token, now) == token.secret = m_secret /\ now <= token.expires_at + Leeway
=============================================================================

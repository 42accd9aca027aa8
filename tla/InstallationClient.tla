--------------------------- MODULE InstallationClient ---------------------------
(***************************************************************************)
(* The client of a single GitHub App installation (InstallationClient of   *)
(* pkg/github/installation.go): every call first gets a token from         *)
(* ghClient, which reads the cached one under a read lock and mints under  *)
(* a mutex of its own, reading the cache once more when it has the mutex.  *)
(* A token is a number, larger than those minted before it; the latest is  *)
(* fresh until five minutes before it expires.                             *)
(***************************************************************************)
EXTENDS Integers, FiniteSets

CONSTANTS
  Goroutines,  \* goroutines that call FetchUser, FetchSignals and so on
  MaxMints,    \* bound: tokens minted
  MaxExpiries  \* bound: times the cached token comes near its end

VARIABLES
  token,     \* InstallationClient.token, 0 the empty string
  fresh,     \* now + 5 min is before expiresAt
  mintMu,    \* who holds the mutex
  place,     \* where a goroutine is in ghClient
  using,     \* the token its API client was built with
  minted,    \* tokens GitHub has issued
  lost,      \* history: those of them whose answer did not arrive
  expiries

clientVars == <<token, fresh, mintMu, place, using, minted, lost, expiries>>

Nobody == "nobody"

ASSUME ClientAssumption ==
  Nobody \notin Goroutines /\ MaxMints \in Nat /\ MaxExpiries \in Nat

ClientInit ==
  /\ token = 0 /\ fresh = FALSE /\ mintMu = Nobody
  /\ place = [c \in Goroutines |-> "idle"] /\ using = [c \in Goroutines |-> 0]
  /\ minted = 0 /\ lost = 0 /\ expiries = 0

\* cachedTokenIfFresh.
CachedTokenIfFresh == token # 0 /\ fresh

\* buildClient: the call goes on with the token.
BuildClient(c, t) ==
  /\ place' = [place EXCEPT ![c] = "calls"] /\ using' = [using EXCEPT ![c] = t]

\* The first look, without the mutex.
Look(c) ==
  /\ place[c] = "idle"
  /\ IF CachedTokenIfFresh THEN BuildClient(c, token)
     ELSE place' = [place EXCEPT ![c] = "waits"] /\ UNCHANGED using
  /\ UNCHANGED <<token, fresh, mintMu, minted, lost, expiries>>

\* TakeMutex_Trusts is a seeded fault: the cache is not read a second time.
TakeMutex_Trusts(c) ==
  /\ place[c] = "waits" /\ mintMu = Nobody
  /\ place' = [place EXCEPT ![c] = "mints"] /\ mintMu' = c
  /\ UNCHANGED <<token, fresh, using, minted, lost, expiries>>
\* The mutex and the second look: whoever waited for a mint finds its token.
TakeMutex(c) ==
  /\ place[c] = "waits" /\ mintMu = Nobody
  /\ IF CachedTokenIfFresh
     THEN BuildClient(c, token) /\ UNCHANGED mintMu
     ELSE /\ place' = [place EXCEPT ![c] = "mints"] /\ mintMu' = c
          /\ UNCHANGED using
  /\ UNCHANGED <<token, fresh, minted, lost, expiries>>

\* MintInstallationToken answers: the token is stored and the mutex released.
Mint(c) ==
  /\ place[c] = "mints" /\ minted < MaxMints
  /\ minted' = minted + 1
  /\ token' = minted + 1 /\ fresh' = TRUE
  /\ BuildClient(c, minted + 1) /\ mintMu' = Nobody
  /\ UNCHANGED <<lost, expiries>>

\* It fails (no JWT, no answer within the timeout, a status that is not 201), which
\* does not say that GitHub issued no token: the caller gets the error and the next
\* in line tries for itself.
MintFails(c) ==
  /\ place[c] = "mints"
  /\ place' = [place EXCEPT ![c] = "idle"] /\ mintMu' = Nobody
  /\ \/ UNCHANGED <<minted, lost>>
     \/ minted < MaxMints /\ minted' = minted + 1 /\ lost' = lost + 1
  /\ UNCHANGED <<token, fresh, using, expiries>>

\* The API call made with the token ends.
CallEnds(c) ==
  /\ place[c] = "calls"
  /\ place' = [place EXCEPT ![c] = "idle"] /\ using' = [using EXCEPT ![c] = 0]
  /\ UNCHANGED <<token, fresh, mintMu, minted, lost, expiries>>

NearsExpiry ==
  /\ fresh /\ expiries < MaxExpiries
  /\ fresh' = FALSE /\ expiries' = expiries + 1
  /\ UNCHANGED <<token, mintMu, place, using, minted, lost>>

MintEnds(c) == Mint(c) \/ MintFails(c)

ClientNext ==
  \/ \E c \in Goroutines : Look(c) \/ TakeMutex(c) \/ MintEnds(c) \/ CallEnds(c)
  \/ NearsExpiry

ClientSpec == ClientInit /\ [][ClientNext]_clientVars

-----------------------------------------------------------------------------
\* The variables have their types; the mutex is nobody's or a caller's.
ClientTypeOK ==
  /\ token \in 0..MaxMints /\ fresh \in BOOLEAN /\ mintMu \in Goroutines \cup {Nobody}
  /\ place \in [Goroutines -> {"idle", "waits", "mints", "calls"}]
  /\ using \in [Goroutines -> 0..MaxMints]
  /\ minted \in 0..MaxMints /\ lost \in 0..minted /\ expiries \in 0..MaxExpiries

\* Callers that find a stale token together mint one between them: beyond those whose
\* answer was lost there is never more than one token per expiry, and no mint begins
\* while a fresh one is cached.
MintsOncePerExpiry ==
  /\ minted <= expiries + 1 + lost
  /\ \A c \in Goroutines : place[c] = "mints" => ~CachedTokenIfFresh /\ mintMu = c

=============================================================================

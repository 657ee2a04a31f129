# Formal models of spazzle-api

TLA+ models of the services in this repository, the TLC runs that check them on
small instances, and theorems about them that TLAPS proves for every value of
their constants. Source paths are relative to the repository's root, which is
`src/` in `PROJECT.json`.

## 1. Inventory

spazzle-api is two Go services behind gRPC and an HTTP gateway, with one
PostgreSQL database each and a shared Redis. The `auth` service logs wallets in
with Sign-In-With-Ethereum (SIWE) and issues PASETO tokens; the `users` service
has a store and a task processor without tasks, but no handler yet. `libs/common` holds what
they share.

| component | state | operations | what makes it hard |
|---|---|---|---|
| **Credential and session store** `services/auth/internal/db`, `api/handler/rpc_authenticate.go`, `session.go` | tables `credentials`, `sessions`; a pgx pool | `handleCredentialAndSession`, `CreateCredentialTx`, `execTx`, `NewSession` | racing registrations, a callback that leaves its transaction, pool exhaustion, lost answers, failing rollbacks, crashes |
| **SIWE messages** `services/auth/internal/siwe` | one cached message per normalised wallet address | `GenerateSIWEPayload`, `FetchSIWEMessage` | read and delete are two commands, resent commands, expiry counted from the store and printed from the build |
| **Cache** `libs/common/cache` | Redis keys with a time to live | `Set`, `Get`, `Del` | expiry, failing and unanswered commands |
| **Authenticate handler** `rpc_authenticate.go`, `libs/common/util/ethereum_wallet.go` | none of its own | validation, service authorisation, message, signature, session | the order of its steps, each of which can fail after it took effect |
| **Token handlers** `rpc_refresh_access_token.go`, `rpc_revoke_refresh_tokens.go`, `rpc_verify_access_token.go`, `api/middleware/token_authorization.go`, `token/` | rows of `sessions`; tokens in the hands of clients | `AuthorizeToken`, `RefreshAccessToken`, `RevokeRefreshTokens`, `VerifyAccessToken` | a token is valid whatever the tables say, `is_revoked` is read before it is used, racing revocations, clocks |
| **Service authentication** `libs/common/middleware/service_authentication.go`, `service_authorization.go` | signatures seen, in the cache; key lists | `authenticateService`, `GenerateServiceAuthenticationPayload` | look-up and store are two commands, two clocks, key rotation |
| **Rate limiter** `libs/common/middleware/rate_limiter.go` | table of limiters, counters in Redis | `InitializeLimiters`, the two middlewares | map iteration order, aliases, windows, gRPC and HTTP keys |
| **Servers and lifecycle** `libs/common/server`, `cmd/*` | an errgroup, two servers, pool, cache | start, serve, graceful stop | the order of shutdown, handlers that do not return |
| **Users store** `services/users/internal/db` | table `users` | `CreateUserTx`, `UpdateUser`, `ListUsers` | as for credentials; pages by offset |
| **Users worker** `services/users/internal/worker` | an asynq server | `Start`, `Shutdown`; no task type exists | it must be over before the cache is closed |
| **Metadata, service authorisation, logging** `libs/common/middleware` | none of their own | what enters the context, who may call, what the log tells | their place among the other middlewares |
| **Registration and gateway** `services/proto/auth/auth/v1/*_grpc.pb.go`, `*.pb.gw.go` | the methods and routes | decoding, calling a method | names that must agree with the configured limits |
| **Config, migrations runner, chain table** | read at start-up | | |
| **Messages, models, mocks, Swagger** `services/proto`, sqlc models | | | |

How they interact. `users` obtains a message for a wallet with `GetSIWEPayload`,
which stores it in the cache; the wallet signs it; `Authenticate`, which only an
authenticated service may call, takes the message out of the cache, recovers the
signer, then reads or creates the credential and opens a session. The tokens
that come with the session are presented to the token handlers, which read and
update `sessions`. Every request passes metadata extraction, service
authentication (cache), rate limiting (Redis) and logging first. Handlers run
concurrently, in one process or several, and share nothing but the pool, the
database and the cache.

What makes each part correct is stated by the properties of section 3; the
hazards they are for are listed, each at its line, in `PROJECT.json`.

## 2. Modules

| module | models | composes |
|---|---|---|
| `RedisCache` | the cache: `entries`, `now`, operations `Get`, `Set`, `Del`, expiry in `Tick`. State and operations, no next-state relation | |
| `SiweMessages` | `GenerateSIWEPayload` and `FetchSIWEMessage`, one cache command per step | `RedisCache` |
| `CredentialStore` | `handleCredentialAndSession` down to the tables and the pool, one database operation per step | |
| `CredentialRegistry` | what that handler promises: one step per call changes the tables, as it answers or after an error | |
| `Authenticate` | the handler beside `GetSIWEPayload` | instances of `SiweMessages` and `CredentialStore`, with their theorems |
| `TokenSessions` | the tokens of `NewSession` and the three token handlers, one statement per step | |
| `ServiceAuthentication` | the payload one service signs and the middleware that accepts it once, one cache command per step | `RedisCache` |
| `ServerLifecycle` | `main` of both services, `RunGRPCServer`, `RunGatewayServer` and `runTaskProcessor` from start to exit | |
| `RateLimiter` | `InitializeLimiters`, the gRPC and the HTTP middleware of several processes over shared windows | |
| `UsersStore` | `CreateUserTx` statement by statement, `CreateUser`, `UpdateUser`, a caller of `ListUsers` | |
| `UserRegistry` | what that store promises: a creation writes its user in one step, as it returns or after an error | |
| `AuthService` | a request's way through all middlewares to a method, over gRPC and over the gateway | extends `ServiceAuthentication` (with `RedisCache`); an instance of `RateLimiter`, with its theorems |
| `...Proofs` (of `CredentialStore`, `SiweMessages`, `Authenticate`, `TokenSessions`, `AuthService` with `ServiceAuthentication`, `ServerLifecycle`, `RateLimiter`, `UsersStore`) | theorems and proofs | |
| `MC...` | values of constants and symmetry for TLC | |

Definitions whose comment calls them a *variant* are plausible slips in the code
(a dropped check, a wrong argument). No specification uses them: putting one in
the place of the definition it precedes shows that a property would notice.

### CredentialStore

A call is one execution of `handleCredentialAndSession` with a user, an address
and the `AfterCreate` callback it passes. `pc[c]` names its next database
operation:

    idle -> lookup -> existing -> reply -> done                (registered wallet)
            lookup -> begin -> insert -> afterCreate -> commit -> reply -> done
                               any step of the transaction -> rollback -> reply

| action | code |
|---|---|
| `LookupMissing`, `LookupFound` | `GetCredentialByWalletAddress`, the branch on its result and `handleExistingCredential`'s comparison of users |
| `OpenSession` | `NewSession` for an existing credential |
| `BeginTx`, `CreateCredential`, `Commit`, `Rollback` | `execTx` and `CreateCredentialTx` |
| `AfterCreateNewSession`, `AfterCreateNoop` | the handler's callback; the callback of the store's own tests |
| `EndTxFails`, `QueryFails`, `TxStatementFails` | the error returns |
| `LateCommit`, `LateSession`, `AbortOrphan` | what the server does for a call that was told of an error: it carries out the operation that was sent, or drops the transaction |
| `Cancel`, `Crash` | a context that ends, a restart |

Decisions behind it:

- A statement outside a transaction acquires a connection, runs and releases it
  in one step. A transaction holds its connection from `BeginTx` to its end.
  Waiting for a connection is an action that is not enabled.
- `credentials` and `sessions` are committed rows; `inserted` are the calls with
  an uncommitted row. An insert that conflicts with an uncommitted row waits for
  it; one that conflicts with a committed row fails. The index on `user_id` is
  tested before the one on `wallet_address`, the order in which the table
  declares them.
- The foreign keys of `sessions` are two, tested apart, and see committed rows
  only: the callback's `CreateSession` runs on another connection than the
  transaction of the credential.
- An operation that fails, because its context ended or its connection broke,
  may be with the server already. For a COMMIT and for the INSERT of a session,
  which is a transaction of its own, the call is told of an error and `fault` is
  "unknown": from then on, before or after the call has returned, the server may
  carry the operation out (`LateCommit`, `LateSession`), once. A lost answer is
  the case in which it does so at once. The process may stop while an operation
  is under way, with the same outcome (`Interrupted`). A lost answer of an insert
  inside a transaction is the same as its failure: both are rolled back.
- When ending a transaction fails, pgx closes the connection, so its place in
  the pool is free again, while its row stays until the server is through with
  the transaction (`OrphanEnds`). After a ROLLBACK it can only drop it.
- The INSERT that the callback sends is assumed not to be carried out after the
  transaction it is nested in has ended. Until then it has nothing to refer to:
  its foreign keys see no row of that transaction.
- `id`, `role`, timestamps and tokens are abstracted; rows carry their creator
  instead, so that properties can relate a row to the answer of its call.

`CredentialRegistry` says what all this is for: a call decides its answer once
and, in the same step, adds the one row that belongs to the answer or nothing; a
first login would add credential and session together; an answer may be lost
after the fact. A call that was told of an error, or of nothing, may be left
`open`: its change is made in one step at a later time if the tables then allow
it (`Late`), or given up. A refusal is never open. `CredentialStore` implements
the registry (`ImplementsRegistry`) under the mapping that shows an answer when
the call has no operation left (`reply`), takes the calls whose `fault` is
"unknown" for the open ones, and shows committed rows only. Since the callback's
foreign keys never see the new credential, the store implements the registry
without ever taking the step in which the handler registers anybody: that it
should is the claim of `NewCredentialSucceeds`, which `store_first_login`
refutes.

### SiweMessages and RedisCache

A generator is one `GenerateSIWEPayload` (`Build`, then `Store`), a fetcher one
`FetchSIWEMessage` (`FetchBegin`, `FetchGet`, `FetchDel`). A message is its
generator: a nonce of eight digits together with the time is taken to be
unique. `Normal` maps spellings of addresses to cache keys as
`NormalizeHexString` does; the spelling for which the normalised address is no
hex address any more (`0X...`) maps to `NoKey`. go-redis sends a command again
when no answer came, so `StoreUnanswered` and `FetchDelUnanswered` apply the
command and leave the caller where it is. A command that was sent does not take
effect after its caller has moved on. The checks of domain, chain and URI are the
Boolean `accepted`: they read constants of the process and the request. The time
between the build of a message and the end of its store is at most `StoreLag`, a
bound the code does not state and `FetchedWithinLifetime` names.

### Authenticate

The handler's own control: `Refuse` (validation, service), `Accept` (the call of
`FetchSIWEMessage`), `FetchMessage` (its cache commands and then the check of the
signature), `HandleCredentialAndSession`. It conjoins the actions of the two
components with its `phase`, and names them `Store` and `Siwe`: instances of the
modules that hold their proofs, so that `Store!InductiveInvariant` is a theorem
of the composition as well. A signature is a pair of wallet and message; a
caller can only sign messages that had been handed out. `Crash` stops handlers,
fetches and transactions together.

### TokenSessions

A token is the record in its payload. `tokens` are those handed out, and any
caller may present any of them, or none. `Authorize` is `AuthorizeToken` with its
three tests. `ReadSession` and `IssueAccessToken` are separate steps, so that a
revocation can fall between them; `SelectSessions` and `RevokeSessions` are the
two halves of one `UPDATE` under READ COMMITTED. The clock advances between any
two steps. The wallet address and the role of a token are left out: nothing in
this service decides on them (a refreshed token takes its address from the
request, `rpc_refresh_access_token.go:56`, which is listed as a hazard). A
statement whose answer is lost (`CreateSessionLost`, `RevokeSessionsLost`) is
assumed to take effect while its call is under way, or not at all: unlike the two
stores, this module has no statement that outlasts its call. Its properties speak
of what calls that returned without error have done, and of tokens, which are
handed out with the answer.

### ServiceAuthentication

`Generate` is `GenerateServiceAuthenticationPayload` at the calling service; its
clock differs from the verifier's by a member of `Skews`. A request is one
`authenticateService`: `Begin` (everything up to the verdict on the signature),
`ReadCache`, `StoreSignature`. `Verified` is the loop over the public keys as it
is written: every PEM must parse and the last verdict counts. A header that is
missing, malformed or forged is `NoPayload`; ECDSA is perfect and a payload has
one encoding. The code returns the same context for every refusal; `refused` and
`failed` only tell whether a cache error explains it. The name of the service is
left out: payloads of one service are modelled, and the key lists are per service.

### ServerLifecycle

`main` and the goroutines of the group are program counters: four, and in the
`users` service a fifth that starts and shuts down the task processor
(`StartTaskProcessor`, `StopTaskProcessor`; the two initial states are the two
services). What gRPC and
`net/http` do at a shutdown is taken from their documented behaviour: a server
that is stopped before it serves returns at once, `Serve` returns after
`GracefulStop` and `ListenAndServe` before `Shutdown` does, both shutdowns serve
what arrives on open connections and wait for handlers without a deadline.
`NotifyContext` swallows signals until `stopInterruptCtx`, after which one kills
the process (`Signal` in `closing`). `SetupFails` is `log.Fatal` before `Wait`: it
cuts what the first server had taken, and `NoRequestCut` is not about it.

### RateLimiter

`Names` are the keys of the map of rates, endpoints and aliases alike.
`InitializeLimiters` chooses an order in which the two maps are read (`Orders`,
`Owners`); a later entry overwrites an earlier one (`ActiveRates`), and an
identifier gets the limiter of whichever rate is read first (`Limiters`). The
table is kept per process and made again when it restarts; the counters are in
Redis and stay. `Count` is one run of the store's script, which increments and
sets the expiry together (external); `CountUnanswered` is the same without an
answer, after which the client sends it again; `StoreFails` and
`SendHeaderFails` end a request that may have been counted. gRPC takes
`x-forwarded-for` whole and refuses a request without it, HTTP takes its first
address or else that of the connection (`ClientIP`). `AgreementAssumption`, that
names which share an identifier or an alias have the same rate, is what the
configuration of the handler satisfies and the code does not check; without it
`ConfiguredRateIsEnforced` would depend on the iteration order.

### UsersStore

A creation goes `idle -> insert -> afterCreate -> commit -> done`, or through
`rollback`; `gone` is a call that has returned while the server still has its
transaction, which it drops (`ServerAborts`). If the call failed at its commit,
or at the INSERT of `CreateUser`, the server may also have that: the call is at
`sent`, and `CommitLate` or `InsertLate` carries it out at any later time. A row
is dated by the start of its transaction, as `now()` dates it. `Waits` and
`Violates` are the unique indexes, tried in the order of their columns: an
insertion waits for an uncommitted row that conflicts and fails at a committed
one, and `Violation` tells which error the name of the constraint becomes.
`Direct` creators call `CreateUser` without a transaction. A pager calls
`ListUsers` with growing offsets until a page is not full; rows of one date have
no order, so `PagesAt` is the set of pages the query may return. The pool is
left out, since a transaction needs one connection and nothing else of it. No
handler calls this store yet: the callers are those its interface allows. An
update may fail whatever it waits for or would find (`UpdateFails`), and then be
carried out later (`UpdateLate`). `InsertLate` dates its row anywhere between
the call and its own step, since the statement may have begun at any time.
`GetUserById` and `GetTotalUserCount` are single reads without an effect.

`UserRegistry` says what is left of all this for a caller: a creation asks for a
user, is announced by its task, and then in one step returns and writes its user
if nothing there is in its way, or is refused for a conflict that is there, the
wallet's before the tag's, or fails; an answer that has not been delivered may
still be replaced by an error. A creation whose last statement failed is `open`
after its return: it writes its user in one step at a later time, if nothing is
in its way by then (`Late`), or never does. Nothing follows a refusal or the
failure of a step before the last. `UsersStore` implements the registry
(`ImplementsRegistry`) under a mapping that hides uncommitted rows, counts a call
whose transaction the server still has among those that have returned, and takes
the calls at `sent` for the open ones.

### AuthService

One request: `Receive` (metadata, the first part of `authenticateService`),
`CheckService`, `RateLimit`, then `Serve`, `Deny`, `NoRoute` or
`Undecodable`. The order is that of the interceptors (`server.go:129-143`) and of
the handlers of the gateway (`server.go:241-247`); the logger is innermost, so
`Refuse` writes nothing. Decisions behind it:

- gRPC decodes a request before the interceptors (`RejectGrpc`), the gateway
  after its middlewares (`Undecodable`), and it calls the methods in the process,
  past the interceptors.
- `Routes`, `GrpcEndpoint` and `Aliases` are read from the generated code and from
  `handler.go`; that they agree is what `MethodsKeepTheirLimits` checks.
- The gateway serves a GET route to a posted form (`AsForm`, external). It is
  counted under the default limit, and the property says so.
- A failing HTTP store is a panic in the library's handler that ends the
  connection; it is modelled as a refusal like that of gRPC (`Internal`).
- The payloads of all services are checked against one list of keys here; each
  belongs to an allowed service or to another one (`OfAllowed`).
- The module extends `ServiceAuthentication`, whose `Init`, `Next` and `Spec` are
  those of that middleware alone; the whole has `ServiceInit`, `ServiceNext` and
  `ServiceSpec`. `Limiter` is an instance of `RateLimiterProofs`.
- What a method does is in the other modules; here it returns `OK` or `Error`.
  The answer to a CORS preflight and the Swagger documents change nothing.

## 3. Runs

| run | instance | shows |
|---|---|---|
| `store_safety` | 3 calls, 2 users, 2 addresses, pool of 2, one credential registered, both callbacks, all contexts cancellable | sessions name the halves of one credential; no two credentials share a user or wallet; failure leaves nothing; AlreadyExists is true; the only total stall is the nested acquisition; the store implements `CredentialRegistry` |
| `store_live` | 2 calls, pool of 2, one with a deadline | every call returns although the pool can be exhausted; a registered pair is never refused |
| `store_first_login` | 2 calls, pool of 4, no credential, the handler's callback | **violated**: the first login of a wallet ends with Internal |
| `siwe` | 2 generators, 2 fetchers, 4 spellings of 2 wallets, lifetime 2, lag 1, clock to 4 | spent messages stay spent; newest wins; a message lives as printed and not longer than its store allows |
| `authenticate` | 2 calls, 2 messages, 2 wallets of which one is registered, 3 spellings, 1 connection, lifetime 1 | a message presented once never authenticates a later call; every session is backed by its wallet's signature; no registration is begun without one, and the proof is spent even if the registration is rolled back |
| `tokens` | any 4 of 2 logins, 1 refresh, 2 revocations and 1 verification, 2 users, clock to 4 | tokens descend from logins; dead sessions are not refreshed; a revocation reaches every session its user had, each counted once; access tokens run out after a revocation; nothing is accepted longer than AccessDuration |
| `service_authentication` | 2 payloads, 2 requests, clocks that differ by -1, 0 or 1, 4 key lists, duration 1, clock to 4 | a signature is used twice in sequence only as late as its entry allows; good payloads are not turned down for a use that did not happen |
| `lifecycle` | 3 requests, 2 servers, both services, fair goroutines | a process that ends by itself has answered everything and closes the cache last; status 0 is never a broken server; a signal or a broken server ends the process |
| `rate_limiter` | 3 requests, 2 processes, 2 identifiers, 1 alias of two methods, windows of 2, clock to 4, 1 lost answer | the configured rate is enforced whatever the order of the maps; no window is overrun, and a burst around its end is at most twofold; a refusal is earned |
| `users_store` | 3 creations, one of them direct, 1 update, 2 wallets, 1 tag, fair transactions | users are unique; answers are true; task and user agree; the store implements `UserRegistry`; every creation ends |
| `users_pages` | 2 creations beside 1 listing by pages of one, clock to 2 | a listing skips only users that share a date, and repeats one only if another came in or shares its date |
| `auth_service` | 1 gRPC and 1 HTTP request, 5 endpoints, a payload of an allowed or of another service, limits of 1, clock to 1 | what passes on trust is vouched for; services are let through whatever the traffic; a method keeps its limit over both its ways |

`SecondUseIsLate` deserves a remark. A signature can be accepted twice in three
ways, all of which the run reaches: by requests that overlap (look-up and store
are two commands), when the signer's clock is ahead (the payload outlives its
entry), and when a request checks the timestamp just before it expires and asks
the cache just after the entry has. The property names the last two exactly and
excludes every other one.

Why the bounds are enough. Two calls race for a row, and the third meets what
they leave; a pool of two is exhausted by two registrations while a third call
waits. Two messages of a wallet and two fetches are what replacement and double
use need, and a clock that runs past lifetime and lag lets each expire. In
`tokens` the refresh token expires at 3 and the clock passes it; two
revocations are what counting twice needs. A limit of one and three requests
overrun a window, or two windows around their end. Two rows and a third that is
dated before and committed late shift the pages of a listing. One request of a
service and one of another caller are what a misplaced exemption needs, and a
method that has two ways is overrun by one request on each.

Three runs have a named constraint, to keep actors that do not meet out of each
other's product: in `authenticate` a user asks for the wallet that is registered
to it or that nobody has (`OwnAddresses`; taking another's wallet is what
`store_safety` is about), in `tokens` four of the six calls are made
(`FourCalls`), and in `auth_service` one service calls at a time and answers of
the store are lost only when none does (`OneService`).

The constants are small because the theorems of section 5 cover the rest: every
safety property a run checks, of the components and of their compositions, is
proved for all values, and so are the type invariants, which the runs therefore
do not repeat (but for that of `auth_service`, which says that no request
leaves the middlewares without an answer).
Symmetry is used in safety runs only, over constants no definition distinguishes.

`CHECK_DEADLOCK` is on everywhere: a finished instance stutters in `Terminated`
and any other stop is reported. That is why `store_safety` can show the stall
rather than hide it: a stalled call is never without a step as long as contexts
may be cancelled, and `WedgeIsNestedAcquire` says when nothing but that helps.

### The finding

`createCredentialAndSession` passes a callback to `CreateCredentialTx` that opens
the session through `h.store`, on another pooled connection. The credential it
refers to is not committed, so both foreign keys of `sessions` fail, the callback
returns an error and the transaction is rolled back: with the schema of migration
000001 no wallet can log in for the first time (`store_first_login`,
`HandlerNeverRegisters`). The tests of the handler use a mocked store and expect
success. The same nesting makes registrations hold one connection while they wait
for another (`WedgeIsNestedAcquire`).

## 4. Fairness

The liveness runs alone assume any. `CredentialStore!Fairness` is, for each
call: weak fairness of `Progress` (goroutines are scheduled, PostgreSQL answers;
a queue for connections or rows serves a waiter that stays), of a failure once
the context is done (pgx watches the context), of `Cancel` (a deadline fires;
only for calls in `Impatient`) and of `OrphanEnds` (the server notices a closed
connection and ends its transaction, by commit or abort). Nothing is assumed to
fail. The code sets no deadline itself: `rpc_authenticate.go` uses the context
of the request, so `store_live` is about a caller that sets one. With no
deadline at all two registrations hold each other up for ever, which is what
`WedgeIsNestedAcquire` describes.

`ServerLifecycle!Fairness` is weak fairness of `main`, of the goroutines (the
task processor's included) and of
`Answer`: a handler returns. It does when its database calls do, which for a pool
that registrations can exhaust needs deadlines (`store_live`); a handler that
hangs holds up the shutdown, which has no deadline of its own.

`UsersStore!Fairness` is weak fairness of each creation's next step,
`ServerEnds` included: goroutines run, PostgreSQL answers, notices closed
connections and is through, one way or the other, with what came over them. The
beginning of a creation, failures, updates and pages are not fair.

## 5. Proofs

Each proof follows one pattern: an invariant `IndInv` in the component's module
is shown to hold initially and to be preserved by each action
(one lemma per conjunct and action, or per action), and the properties follow.

- `CredentialStoreProofs`. `PoolInv` equates held connections with transactions
  in progress, `RowInv` keeps uncommitted rows free of conflicts (that is what
  makes a commit safe), `CredInv` says what a call knows of its credential and
  `EffectInv` that nothing of a call is in the tables before it answers.
  Theorems: `InductiveInvariant`, `TypeCorrectness`, `SessionSafety`,
  `CredentialUniqueness`, `AnswersAreTrue` (it adds that OK is
  durable), `FailureAtomicity`, `WedgeCause`
  (uses finiteness of the set of calls), `RefusalsAreTrue`,
  `NoRefusalOfRegisteredPair` (a temporal
  property, from a step lemma), `HandlerNeverRegisters` (assuming that no call
  passes the other callback) and `RegistryImplemented`: a step that returns is one
  of the registry's (`DecisiveStep`, where `IndInv` supplies that a committed row
  has no rival and a refusal its reason), `Reply` and `Crash` are its `Deliver` and
  `Interrupt`, what the server does afterwards is its `Late` or `Abandon`
  (`LateStep`), and all others change nothing a caller can see (`HiddenStep`).
  `LateInv` says of a call left open that it has returned an error and what its
  last operation was: a row of its own that is still inserted, or a session for
  the credential it read.
- `SiweMessagesProofs`. `EntryInv` relates a cache entry to the build time of its
  message, `FetchInv` a fetcher to the key it asked for. Theorems:
  `InductiveInvariant`, `TypeCorrectness`, `SingleUse`, `NewestWins`, `Lifetime`,
  `FetchLifetime`.
- `TokenSessionsProofs`. `HolderInv` says that a call past its authorisation has
  a token that was valid then, `RefreshInv` relates a refresh to revocations
  before and during it, `RevokeInv` what a revocation has selected to what it
  must reach. Theorems: `InductiveInvariant`, `TypeCorrectness`, `TokenOrigin`,
  `NoRefreshOfDeadSession`, `AccessRunsOut`, `RevocationIsComplete`,
  `VerificationIsShort`, `RevocationsCountOnce`.
- `AuthenticateProofs`. `ComponentsKeepTheirSpecs`: each step of the handler is a
  step of the store or a stutter for it, and the same for the messages, so the
  theorems of both hold in the composition, `RegistryImplemented` among them.
  `PhaseInv` says which of the two a call is in; `ProofInv` that it asks for the
  message of its own address, that it is signed over a message it had been
  handed, and that it works in the store only with a valid signature over the
  message it fetched; `BurnInv` that a call does not read what an earlier one
  has deleted, which rests on `SpentStaysSpent` of the messages. Theorems:
  `InductiveInvariant`, `TypeCorrectness`, `SingleUse`, `WalletControl`,
  `SpentRegistrations`, `ComponentsKeepTheirSpecs`, `RegistryImplemented`.
- `AuthServiceProofs`, first part: service authentication alone. `StoredInv` keeps
  the signature of an authenticated request in the cache for `Duration` after its
  store, `ReadInv` says that a later request that found none asked after that.
  With the check of the timestamp (`FreshInv`) the bound of `SecondUseIsLate` is
  arithmetic. Theorems: `InductiveInvariant`, `SingleUseOfSignatures`,
  `HonestRequestsPass`. Second part: the service. A step is one of each
  middleware or a stutter for it (`PartsMove`), hence
  `MiddlewaresKeepTheirSpecs` and `MiddlewaresKeepTheirPromises`, which carries
  the properties of both over. `StageInv` relates the stage of a request to what
  each middleware has done with it, `TrustInv` says that the authenticated
  ones, and no others, are exempt, `CountInv` that its hit is of the counter of its method, `AnswerInv`
  what its answer says. That a method has one limit over both its ways is a lemma
  about the table of rates and the routes, which must agree in their names.
  Theorems: `ServiceInductiveInvariant`, `ServiceTypeCorrectness`,
  `TrustIsEarned`, `ServicesPass`, `LimitsFitRoutes`.
- `ServerLifecycleProofs`. `ServerInv`: a returned shutdown has no handlers and a
  broken server is an error of the group. Theorems: `InductiveInvariant`,
  `GracefulShutdown`, `TrueExitStatus`.
- `RateLimiterProofs`. The tables of a running process equal the configuration,
  whatever the order (`OneRateOfIdentifier`, from `AgreementAssumption`).
  `WindowInv`: windows of a counter do not overlap; `NumberInv`: the hits of a
  window are numbered from 1 without gaps. So the requests let in by a window map
  one to one into `1..limit`, those of a period, which meets two windows, into
  `1..2*limit`, and a refusal implies that the numbers up to the limit are taken.
  Theorems: `InductiveInvariant`, `TypeCorrectness`, `ConfigurationIsEnforced`,
  `WindowLimit`, `BurstLimit`, `EarnedRefusals`.
- `UsersStoreProofs`. `ClashInv` keeps inserted rows apart from each other and
  from the committed ones, which makes a commit safe; `StepInv` says what each
  step of a creation has done. Theorems: `InductiveInvariant`, `TypeCorrectness`,
  `UserUniqueness`, `TruthfulAnswers`, `TasksMatchUsers` and
  `RegistryImplemented`: a commit is the registry's `Create`, since by `ClashInv`
  the row still has no rival, a violation its `Refuse`, a commit or an insertion
  that comes later its `Late` (`LateCreates`), the abort of what may have been sent
  its `Abandon`, and the insertion and the abort of other orphans are not seen.
  `FaithfulListings` has an invariant of its own:
  `PagerInv` follows each user of a listing by its `Place`, the number of rows
  listed before it. A row that has its date alone is on the page that its place
  falls in, whatever PostgreSQL does with the others (`PageOfPlace`); a row that
  comes in can only raise a place, and an update leaves it (`GrowthStep`,
  `ReplacedRow`). So such a row has been shown, or lies ahead.

Assumptions are the `ASSUME`s of the modules: disjoint kinds of calls, positive
pool size, provisioned rows that respect the unique columns, rates of shared
identifiers and aliases that agree, durations in `Nat`. Nothing else is assumed of the
constants; what is taken for granted of the environment is said in section 2.

Model-checked only: liveness (`EveryCallReturns`, `EveryShutdownEnds`,
`CreationsEnd`), which rests on fairness and `ENABLED`, outside of what the proof
system handles; and the violated property.

## 6. What is not modelled, and the plan

Modelled: everything in the two services that keeps state or decides about a
request, and the life of their processes. What could still be stated:

1. An abstraction of `TokenSessions` like the two registries: an `UPDATE` that
   revokes in one step, and tokens that are refreshed only before it.
2. A composition of `ServerLifecycle` with a component that a shutdown cuts, when
   the users service has handlers and task types.

Left out for good: configuration, the runner of the migrations and the table of
chains (read once at the start); the messages of the generated code and its
client half, which this system does not run; the handlers' mocks; Swagger and
CORS, which change nothing; and the arithmetic of signatures and encryption,
which the models take as perfect.

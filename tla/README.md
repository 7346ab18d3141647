# TLA+ specifications of reisearch-mcp

The server under `src/` is an MCP server in Go: it lets an assistant (ChatGPT,
Claude) call the ReiSearch API as *tools*, and it stands between the assistant
and Cognito as an OAuth authorization server. This directory holds TLA+ modules
of its parts that keep state or depend on the order of events, TLC
configurations that check them on small instances, and proofs checked by TLAPS.

    tlc -workers 2 -config token_proxy.cfg MCTokenProxy.tla   # one run
    tlapm TokenProxyProofs.tla                                # the proofs of one
                                                              # of eight modules

`PROJECT.json` lists the components, the runs, for each definition the lines of
code it models (`map`), for each property a mutation of the code's model that
breaks it (`mutants`), the hazards, the findings and the theorems.

## 1. Inventory

| Component | Source | State | Operations | Where |
|---|---|---|---|---|
| Token proxy | `internal/oauth/token.go` | one mutex; map code -> first 200 response | POST /token | `TokenProxy` |
| Authorize proxy, redirect store, callback relay | `oauth/authorize.go`, `oauth/relay.go` | map state -> client's redirect_uri, under a mutex | /authorize saves, /callback takes | `RedirectRelay` |
| Test login | `oauth/diag.go` | map state -> PKCE verifier, under a mutex | /testlogin saves; /callback takes, redeems twice through /token | `RedirectRelay`, `OAuthLogin` |
| HTTP server | `cmd/reisearch-http/main.go` | none of its own; makes the stores at start | one goroutine per request | `OAuthLogin` |
| Metadata, registration | `oauth/metadata.go`, `oauth/register.go` | none | constant documents, JWKS pass-through | not modelled |
| Bearer middleware | `oauth/middleware.go`, `tools/tools.go` | none | verifies a token, puts it in the context | not modelled |
| Underwriting tools and client | `tools/underwriting.go`, `reisearch/underwriting.go` | none in the server; named versions at the backend | 11 tools | `UnderwritingVersions` |
| Renovation tools and client | `tools/renovation.go`, `reisearch/renovation.go` | same versions; images and a ledger at the backend | 5 tools | `Uploads`; the version a submission goes to: `UnderwritingVersions` |
| Property update | `tools/property_update.go`, `reisearch/property_update.go` | property with a version at the backend | update with `If-Match` | `PropertyUpdate` |
| REST client | `reisearch/client.go` | none; one `http.Client` with a timeout of 15 s | about 60 requests, through eight ways to read a response | `Responses`, `Tools` |
| Property, CRM, team and buy-box tools | `tools/property.go` | at the backend | about 45 tools: notes, shares, comps, CRM, folders, buyers, buy boxes | `Tools`, `ToolCalls` |
| Presentation tools | `tools/property.go` | presentations, share links and export jobs at the backend | update, publish, unpublish, export, status | `Presentations` |
| Document and media tools | `tools/documents.go`, `tools/media.go`, `reisearch/documents.go`, `reisearch/media.go` | at the backend and in S3 | upload URL, PUT by the agent, confirmation; photos by URL | `Uploads` |
| Invitations | `tools/invitations.go`, `reisearch/invitations.go` | at the backend | one request for several people | `Tools`, `ToolCalls` |
| Live tests | `tools/*_live_test.go` | - | scripts against a deployment | read as documentation |

**Interaction.** A login goes: client -> /authorize (saves the client's
redirect_uri under `state`, sends the browser to Cognito with our own
/callback) -> Cognito -> /callback (a test login is completed there; otherwise
the redirect_uri is taken and the browser sent on) -> client -> /token (the
code is redeemed with Cognito, the response cached). Afterwards the assistant
calls tools through /mcp, each call in a goroutine, and each tool makes one or
a few HTTP requests to the backend with the caller's token. The OAuth stores
are the only state the process keeps; the tools share state only through the
backend, which other users and other conversations write to as well.

**What is hard**, and what makes each part correct:

* *Token proxy.* Clients redeem a code more than once, at the same time or
  after giving up. All goroutines queue on one mutex that is held across a call
  to Cognito. Cognito redeems a code once, perhaps after the proxy's request
  was cancelled. Correct: one code, one response; tokens go to the code they
  belong to; nobody waits for ever.
* *Relay.* `state` is chosen by the client; pages are reloaded; two callbacks
  with one state run at the same time; the two maps are looked up in two
  critical sections; everything is lost in a restart. Correct: a callback goes
  to a redirect_uri saved for its state, an entry is used once, a login that is
  not disturbed reaches its client.
* *Underwriting.* A request can be applied and its reply lost, answered with a
  5xx, or applied after the 15 s the tool waits; the assistant decides from the
  text of an error whether to call again. Correct: following the hints makes no
  second version, what a tool says is true, a write goes to the version named.
* *Property update.* Optimistic concurrency: a list is read, changed and
  written back whole under `If-Match`. Correct: no update of a careful agent
  loses another's.
* *The login as a whole.* The handler of a test login waits for two requests to
  its own process; client and test logins share the stores, the cache and the
  mutex. Correct: neither part loses what it promises alone, the second
  redemption of a test login replays the first, and every login ends.
* *Tool calls.* The client reads responses in eight ways; some look at the
  status only, some at the envelope only, and a gateway may answer in the API's
  place. Creates can succeed in part, and an error can leave an effect behind.
  Correct: what a tool returns says what happened, and an agent that follows the
  descriptions makes nothing twice.
* *Presentations.* Conflicts are told by 409, exports are jobs to be polled, and
  publishing replaces the whole share configuration. Correct: no export is
  started in vain, the link is shared as the agent was last told, and following
  the descriptions comes to an end.
* *Uploads.* Three steps on two servers with a URL that expires; adding a photo
  is not idempotent, removing photos is all or nothing, and hints decide what
  the agent does next; the success of a submission says nothing of the ledger.
  Correct: what is told done is done, nothing is recorded
  twice knowingly, and no hint sends an agent round for ever.

## 2. What is modelled

### TokenProxy (with TokenResponse, SingleUseExchange, MCTokenProxy, TokenProxyProofs)

`TokenProxy` is the handler of POST /token. `pc[r]` is the position of the
handler of request `r`: `idle` before the form is read, `waiting` at
`mu.Lock()`, `locked` inside, `exchanging` in `http.DefaultClient.Do`,
`reading` between `Do` and the end of the body, then `answered` (or `dropped`,
when a restart ended it). `mu` and `cache` are the variables of the closure;
`wire[r]` and `spent` are what Cognito has been sent and has redeemed; `gone`
are the requests whose client closed its connection, which cancels their
context. The actions and the code:

| Action | Code |
|---|---|
| `Arrive`, `BodyUnreadable` | the form is read, or 400 (token.go:37-59) |
| `Lock` | `mu.Lock()`; the deferred unlock is part of every `Finish` (63-64) |
| `Replay` | a cached response is written (66-73) |
| `Forward`, `ForwardCancelled` | the exchange is sent, or its context is already cancelled (77-98) |
| `ExchangeFails` | `Do` returns an error: 502 (94-98) |
| `ReplyBegins`, `ReplyEnds` | status and headers are there; the body is read, complete or not, a 200 is cached, and the response is written (94-114) |
| `CognitoGrants`, `CognitoRefuses`, `Disconnect` | outside: Cognito and the client |
| `Restart` | a new process: new mutex, new cache, requests dropped |

What is forwarded is the form with `resource` removed, `redirect_uri` pinned and
the secret added; none of it depends on the state, so it is "the grant of r".
The 500 of `NewRequestWithContext` needs an unparsable token endpoint, which is
fixed at start, and is left out.

`SingleUseExchange` is the abstract specification, what the comment of
`NewTokenProxyHandler` promises: a code's first success is kept and answers
every later redemption, until a restart; each request is answered in one step,
without mutex, exchange or connection. `KeepsPromise` says that `TokenProxy`
implements it under the mapping `phase <- Phase, kept <- cache` (the other
variables have the same names).

### RedirectRelay (with MCRedirectRelay, RedirectRelayProofs)

A *flow* is one login round trip of a browser, begun by a client or at
/testlogin (through our /authorize or directly). `reached[f]` are the pages its
browser has been sent to and may load, any of them again (`loads` counts, up to
`MaxLoads`). `store` is `RedirectStore.m`, `diag` the keys of
`DiagFlows.flows`. /callback is two actions because the code uses two critical
sections: `TryCallback` (diag.go:118-159) and, for a state that is not a test
login's, `Relay` or `UnknownState` (relay.go:59-69), run by one of `Handlers`
goroutines; `serving` is the callback between them. `saves`, `relays`,
`relayed` and `completed` record what happened, for the properties. A client's
state is arbitrary, and may be one that is in use; a test login's is random, so
new. `diag` is never nil here (ENABLE_TESTLOGIN=1); with it off, the server is
this one without `TestLogin`.

### OAuthLogin (with MCOAuthLogin, OAuthLoginProofs)

`RedirectRelay` and `TokenProxy` in one process (`Relay` and `Token`, each by
INSTANCE), as `main.go` puts them together. A flow names its state and its
code, and `<<f, 1>>` and `<<f, 2>>` are the two requests that redeem it. A
client redeems the code once it was relayed to it (`ClientRedeems`); the
/callback handler of a test login posts its two redemptions one after the other
(`Post`, `PostReturns`, `PostFails`, the loop of `TryCallback`, diag.go:150-159;
`attempt` is the loop's counter). `Serve` is a step of /token or of Cognito.
`Restart` loses the stores, the cache, the mutex and everything being served,
in one step, the loop of `TryCallback` with it.

### UnderwritingVersions (with MCUnderwritingVersions, UnderwritingVersionsProofs)

Agents - conversations of one user - have one intention each (`input`), and may
call their tool twice: `Calls == Agents \X {1, 2}`. A call is checked, sends its
request (rename lists first), and returns. `wire[c]` is the request at the
backend: `sent`, `done`, or refused for a reason; `versions` are the versions
at the backend, each with its strategy, name and the cells it holds.

| Definition | Code |
|---|---|
| one action per tool handler | `tools/underwriting.go`, same names; `SubmitPropertyRenovation` in `tools/renovation.go` |
| `...Request` | the client's methods, `reisearch/underwriting.go` |
| `ValidSelection` | `validateVersionSelection`; the checks of fields that are not modelled are `complete` |
| `Answer`, `ServerError`, `NoAnswer` | the ways out of `apiDoWithHeaders`: 2xx and API errors, 5xx, and errors without an API answer (timeout, transport, unreadable body) |
| `PlainError`, `ApiError`, `MustList` | `nonIdempotentError`, `uwError`, and `renoDo`, which returns no `APIError` |
| `RenameListed`, `RenameUnlisted` | rename after its list succeeded or failed |
| `Refused`, `Changed`, `Started`, `Apply` | the API, from how the client describes it: 404, 409, "name unchanged", the newest version by default |
| `MayCall`, `ListUnderwritingVersions` | the assistant: after an error that does not say why nothing was done it calls again, and lists first if the error or the description asks for it |

What a 5xx leaves behind is not known, and a request whose call has returned
may still be applied (`late`). Left out: the contents of cells, other users'
versions (403), the two reads.

### PropertyUpdate (with SharedList, MCPropertyUpdate, PropertyUpdateProofs)

Agents each add an item to one list of one property. A list replaces the stored
one whole (`updatePropertyDescription`), so an agent reads the property
(`GetPropertyDetails`), sends the list it read with its item
(`UpdateProperty`), and gets an answer (`Receive`) or none (`NoAnswer`).
`flight` holds the requests the backend has not served; a call that gave up
leaves its request there, to be served late or never. A *careful* agent passes
the version it read, which goes in `If-Match` (`IfMatch`); a careless one
leaves `expectedVersion` out, which is 0 and sends no header. After a lost
reply an agent may repeat its call as it was, or read again; after 412 it is
told to read again. `Serve` and `Refuse` are the backend. `updatedAt` is a time
in ms; it is taken to differ between any two saved updates, which the backend
has to ensure. The checks of fields before anything is sent are left out.

`SharedList` is what the description promises: an item is added to the list as
it is, in one step; only callers that pass no version can remove what others
added; whoever is told that its item was saved can rely on it; a dry run saves
nothing. `KeepsPromise` says that `PropertyUpdate` implements it.

### Responses and Tools

`Responses` says how an HTTP response becomes what a tool returns, one operator
for each way the code has:

| Definition | Code (`reisearch/client.go`) |
|---|---|
| `OfStatus`, `OfCRM` | methods that want one status and then decode; `crmGet`, `presDo` |
| `OfEnvelope`, `EnvelopeError` | `tsGet`, `tsWrite`: the status is not looked at, `success` is |
| `OfBuyBoxes` | `createBuyBoxes`: an error only if no location is listed as failed; the errors of decoding its two lists are dropped |
| `OfRunComps`, `OfPush`, `OfRemoval` | `RunComps`, `PushToCRM`, `RemoveSharedUser`, which make statuses of error codes |
| `OfInvite`, `inviteUsersError` | `InviteUsers` over `apiDo`: any 2xx; of a 502 "none could be queued", of a 429 "wait a minute" (`tools/invitations.go`) |

A `Reply` has only what these look at. Its `items` stand for whatever data the
envelope holds, its `body` for what can be decoded: "drifted" is an envelope
with data or an error of another shape than the method expects. `Tools` is the table of the
client's methods, each with its helper, the status it wants and the kind of
effect its request has, and of the tools' handlers, each with its method and the
fields it refuses to go without; both in the order of the files.

### ToolCalls (with MCToolCalls, ToolCallsProofs)

Agents of one user call the tools of that table. `Call` is a handler up to the
request (or its refusal, "invalid"), `Receive`, `NoAnswer` and `GatewayError`
are the ways it returns, `Serve` is the backend, which may serve a request after
its call has given up (`late`). `there` counts what is at the backend, `made[c]`
is what serving call `c` changed or, for a read, showed. What an agent calls
next is in `NextCalls`, translated from the descriptions (property.go:1134-1192,
each a phrase such as "Check list_buyers first", `LookFirst`; `RetryOpportunity`
is property.go:1151) and from the errors of invite_users (`Again`). Which tools
are reads, and which of them shows what a write made (`ShownBy`), is the agent's
own judgement.
The arguments and results of the tools are abstracted to the set of things a
call is about. `ScenariosAssumption` keeps out intents that make no sense: a push
is of a contact, with an opportunity or without, comps are run for comps, and
only a tool that sets a value is given a zero one.

An API that answers 500 may have done all of the request, part of it or nothing
(`Broken`), as in `UnderwritingVersions`; `Boxes` may answer with lists that
cannot be decoded. `OutcomeIsTruthful` says of every other outcome that it is
true. It leaves out two that tell as little as an error without an answer, the
`internal_error` that PushToCRM makes of a 500 and the "none could be queued" of
invite_users, and two successes that claim too much, that of a list that could
not be decoded and that of an update to a zero value. The last three are faults of the
code, not of the model: `inviteUsersError` takes a gateway's 502 for the API's, and
tells the agent that it is safe to retry (invitations.go:33-34); `createBuyBoxes`
drops the errors of decoding its lists, against its own comment that it surfaces
failures (client.go:1864-1874); `omitempty` drops a value that is to become 0,
empty or false, although the description allows any subset of the fields
(client.go:1664-1692, property.go:1171).

### Presentations (with MCPresentations, PresentationsProofs)

The tools on one presentation, for agents with lists of wishes. `Call`,
`Receive` (over `OfStatus`, what `presDo` does) and `NoAnswer` are the tool;
`NextCall` and `Ends` the agent, from property.go:1184-1189: refetch and reapply
once after a conflict, poll a job until it is ready or failed, start a new export
only if the last failed, and at most `MaxStarts` for one wish. A wish is a `Task`,
what the inputs of the four tools that write allow. `Update` to `Status` are the
backend. `Body` is what
`omitempty` and the pointer flags of `UpdatePresentationRequest` and its
neighbours leave of a wish. `told` is the last publish or unpublish reported to
an agent as successful, until one of the two is called again; `ghosts` are
requests whose call has given up.

### Uploads (with MCUploads, UploadsProofs)

Documents, photos and renders. `documentError`, `mediaError`, `apiDo`, `renoDo`
and `UploadPropertyImage` are the code's, as functions of the reply; `Given` the
checks of the handlers; `Document`, `Photo`, `Removal` and `Render` the agent,
who does what the descriptions and the hints say (documents.go:138-144,
media.go:99-105, renovation.go:167-173); the `...Served` actions the backend and
S3. `key` is the s3_key an agent works with, `expired` the upload URLs that no
longer work, `overtaken` the agents a late request of their own has overtaken.
A file can be recorded twice: a confirmation that was given up is served late,
after the agent went on to a new upload URL. `AttachedOnce` says that this is
the only way.

A submission that succeeds "confirms the underwriting room only; the ledger
update is best-effort" (renovation.go:171): `SubmitServed` has the ledger
updated, `SubmitUnrecorded` has not. So a submission's success is not an end
(`Last`): the agent reads the ledger, submits again what is not there, to the
version it has, and says that its render is done when the ledger shows it. The
renders that miss the ledger are counted with the faults.

## 3. Runs

| Run | Instance | What it shows |
|---|---|---|
| `token_proxy` | 3 requests, 2 codes, 1 restart, symmetric | the safety properties of the token proxy and its refinement of `SingleUseExchange` |
| `token_proxy_retry` | 2 requests | *violated*: a retry after a cut-off redemption gets invalid_grant |
| `token_proxy_partial` | 2 requests | *violated*: an incomplete body is cached |
| `token_proxy_hung` | 2 requests, one exchange unanswered | *violated*: another code waits for it |
| `redirect_relay` | 2 flows, 2 states, 2 callback goroutines, 2 loads of each page, 1 restart | where callbacks go, single use, and logins that arrive |
| `oauth_login` | a client and a test login, 1 restart | the second attempt replays the first, waiting at the mutex ends, logins end |
| `underwriting` | 2 agents with two calls each, 17 intentions, 2 initial versions | duplicates, truthful answers, rename, where writes go |
| `underwriting_unwarned` | same | *violated*: a 5xx on create carries no warning |
| `property_update` | a careful and a careless agent, 2 requests in flight each, 1 repeated call, 5 versions | the refinement of `SharedList` |
| `api_calls` | every tool by one agent, with and without its required fields, and six pairs of agents; up to 3 calls each | outcomes are true, nothing is made twice knowingly |
| `presentations` | 2 agents that export, share, withdraw or update, 2 faults | exports, share configuration, and that every wish ends |
| `uploads` | 2 agents, 2 photos, 2 categories and a wrong one, 1 expiry, 2 faults | single recording, truthful endings, and that every wish ends |

The violated properties state what a comment or a description in the
repository says; `findings` in `PROJECT.json` quotes each and gives the line
that does otherwise.

**Bounds.** Three requests let a duplicate, the original and a request of
another code meet at the mutex, or three duplicates; the mutex makes a fourth
wait like the third. One restart separates requests before and after. The
grants without a code (`NoCode`) are among the codes a request may bring. Two
flows can collide in one state or not, and each page can be loaded twice, so
each entry can be saved again after it was taken; two goroutines are enough for
two callbacks to overlap. Two agents with two calls each let a first attempt, its
retry and a stranger's call interleave; `MaxVersions = 6` is the two initial
versions plus one for each call, so the bound is never hit. The intentions in `MCInputs` cover
every tool, both ways to select a version, the wrong strategy, missing fields,
and a version that does not exist yet when the run begins.

For a property update, two agents are enough for a
stale version, and two tags for a request that is late beside its repetition;
`MaxVersion = 5` leaves room for each agent's item to be saved and overwritten twice.

In `oauth_login` three requests
contend for the mutex: the client's and the two of the test login, whose first
may be abandoned and still wait. Each page is loaded once there; what reloading
does is `redirect_relay`'s question, and a second redemption by the client
`token_proxy`'s. `MaxCalls = 3` in `api_calls` is a look, a write and what its
outcome asks for, or a write, a look and a retry. In `presentations`,
`MaxStarts = 2` lets an agent start one export after another for a wish; an agent
with two such wishes starts four at most, and there is a job for each; `MaxFaults = 2` lets two calls go unanswered (or be refused), and each
can be served late. `MaxKeys = 7` in `uploads` is the two photos and one key for
each upload that the two faults and the one expiry can cause, so it is never hit.

**Fairness.** `TokenProxy!Fairness(Served)`: a goroutine that can run does
(`Lock`, the handler's own steps; Go's mutex hands over to a waiter that
starves, so that a weak fairness of `Lock` understates it but suffices here,
each request locking once), `Do` returns when its context is cancelled, and
Cognito answers the requests in `Served`. `ExchangeFails` for a client that is
still there, `Disconnect` and `Restart` are never owed. `token_proxy_hung`
takes `Served` without one request, because nothing in the code bounds an
exchange. In `RedirectRelay`, browsers follow redirects, users log in, and a
callback that began goes on. `OAuthLogin!FairSpec` puts the two together: a
client redeems the code it is given, the loop of `TryCallback` goes on, and
Cognito answers; `PostFails`, `Disconnect` and `Restart` are not owed. In
`Presentations` and `Uploads` agents go on, the client returns what it receives,
the servers serve what they are sent, and a job ends; unanswered calls, refusals,
expiry and late requests are not owed, and are bounded by `MaxFaults` and
`MaxExpired`: an agent that is refused or unanswered for ever has no end to come
to. Deadlock is checked for the token proxy, presentations and uploads, whose
`Idle` step says when they may stop; browsers may stop at any page, and the other
agents may have nothing left to call, so it is not for the others.

## 4. Proofs

`TokenProxyProofs` proves, for any sets of requests and codes and any bound on
restarts, under the three assumptions of `TokenProxy` (`NoCode` is not a code,
`None` is not a request, `MaxRestarts` is a number):

* `TypeCorrect`: `Spec => []TypeOK`
* `NoStaleLookup`: `Spec => []NoExchangeOfCachedCode`
* `Agreement`: `Spec => []ReplayAgreement`
* `TokensOfOwnCode`: `Spec => []OwnTokens`
* `Implements`: `Spec => KeepsPromise`

They follow from one inductive invariant, `IInv` (theorem `Inductive`). The
properties are not inductive: `ReplayAgreement` alone does not exclude a second
success of a code. `IInv` adds that only the holder of the mutex is inside
(`MutexInv`), that Cognito has granted a code to at most one exchange
(`GrantInv`, with `WireInv` on what an exchange in each position can have
seen), where every success and every cached response comes from (`AnswerInv`,
`SourceInv`, `CacheInv`), and that a request inside found nothing cached. Agreement then follows:
a code is granted once, to one exchange, which wrote one response, and every other success
is a copy of it. There is one lemma per action, or per group of actions that
touch the same variables; `Implements` maps each step to a step of
`SingleUseExchange` or to a stutter, using `IInv` to know that an exchange that
ends has nothing kept for its code.

`PropertyUpdateProofs` proves, for any agents, careful or not, any tags and
bounds (the assumptions say that the careless are agents, that `None` is
neither a tag nor a reply, and that the bounds are numbers):

* `TypeCorrect`: `Spec => []TypeOK`
* `Implements`: `Spec => KeepsPromise`

The invariant (`IInv`, theorem `Inductive`) says that what was read or sent
with the version of the moment is, or extends, the list of the moment
(`ReadInv`, `FlightInv`), that the list holds nothing that was not saved, and
that an "ok" to a call that was no dry run means that its item was
(`SavedInv`). For the last, `FlightInv` relates a request to the call that waits
for it, by its tag. It rests on versions that grow by one: a backend that gave
two updates the same `updatedAt` would break it.

`RedirectRelayProofs` proves, for any flows, states, handlers and bounds, under
the three assumptions of `RedirectRelay` (`Self` is no flow, `None` is neither a
flow nor a state, and the bounds are numbers):

* `TypeCorrect`: `Spec => []TypeOK`
* `Home`: `Spec => []RelayedHome`
* `UsedOnce`: `Spec => []EntryUsedOnce`
* `Completion`: `Spec => []CompletedOnce`

`RelayedHome` is not inductive: it speaks of what was relayed, not of what the
store holds. `IInv` adds that the store holds redirects of flows that chose the
state (`StoreInv`), that only flows that have begun are served (`ServingInv`,
`BegunInv`), and that the states of test logins belong to test logins only
(`DiagInv`): a client's state is never one that was drawn at /testlogin.
`EntryUsedOnce` counts: a save adds one to its right side and at most one to its
left, a relay moves one from the store to `relays` - in one step, as the critical
section of `take` does.

`UnderwritingVersionsProofs` proves, for any agents, inputs, strategies, names
and initial versions, under the assumptions of `UnderwritingVersions` (inputs
have their fields, only the tools that can make a version are asked to, an update
of a section gives no name; the initial versions are versions; `None` is no value):

* `TypeCorrect`: `Spec => []TypeOK`
* `Truthful`: `Spec => []AnswerIsTruthful`
* `NoBlindDuplicate`: `Spec => []DuplicateOnlyIfUnknowable`
* `UnchangedByRace`: `Spec => []UnchangedOnlyByRace`
* `RightVersion`: `Spec => WritesWhereAsked`

`IInv` says that a request carries over what the input says (`RequestInv`), how
the position, the wire and the result of a call fit (`CallInv`), that ids are
issued in order (`IdsInv`), that a name that was listed changes only through
another rename (`ListedInv`, `RaceInv`), that what an agent created is there
under its name unless a rename or a deletion hides it (`MadeInv`), so that an
agent that looked and found nothing knows that its request was not yet applied
(`CheckedInv`), and that a retry is only made when its hints allow
(`RetryInv`). The steps of all nine tools are first reduced to three
(`Moves`: a call sends a request, returns, or begins to list), then `IInv` is
preserved by those, by the list, and by the API's `Apply` and `Refuse`.

`OAuthLoginProofs` proves, for any flows, test logins, goroutines and bounds,
under the assumptions of `OAuthLogin` (the test logins are flows; `Self`, `None`
and `NoCode` are none, nor is `None` a request; the bounds are numbers: what
`RedirectRelay` and `TokenProxy` assume of the same constants):

* `RelayInside`: `Spec => Relay!Spec`
* `TokenInside`: `Spec => Token!Spec`
* `TypeCorrect`: `Spec => []TypeOK`
* `Replays`: `Spec => []SecondAttemptReplays`

The first two say that a login takes nothing away from its parts: each of its
steps is a step of `RedirectRelay`, or leaves the relay alone, and likewise for
`TokenProxy`. What the other modules prove of `RedirectRelay!Spec` and
`TokenProxy!Spec` thus holds here: a code is relayed to a redirect saved for its
state (`RelayedHome`), tokens go to requests with their code (`OwnTokens`).
`tlapm` cannot cite those theorems through an `INSTANCE`, so the other two have an
invariant of their own, `LoginInv`.
`HomeInv` says that a request carries the code of its own flow, which has come
home, that what is cached under a code came from a request with that code
(`TokenInv`), that whether a flow is a test login shows in everything kept for it
(`RelayInv`: its kind, the redirect saved for it, `DiagFlows`, its redemptions),
and that a callback is only served for a browser that was sent there
(`ServingInv`). For the second attempt, `ProxyInv` says that what is answered is
what Cognito replied, that only successes are cached and that Cognito refuses a
code as spent only after it granted it to a request with that code; `AttemptInv`,
that the handler of a test login posts the second time when the first is done with
for good (`TurnInv`: a login is completed once, and nobody else redeems its code),
and that tokens the first attempt was given are in the cache until the second is
answered with them, so that it is never with Cognito (`KeptInv`). A second
invalid_grant then means that the code was granted to the first request, which
can only have been abandoned or answered 502. The mutex of /token is not needed:
the handler's own order keeps its two requests apart.

`PresentationsProofs` proves, for any agents, wishes, settings and bounds, under
the assumptions of `Presentations` (wishes are tasks, `None` is no value, job ids
are finitely many and no words of a reply, an export may be started at least once):

* `TypeCorrect`: `Spec => []TypeOK`
* `Link`: `Spec => []SharedAsTold`
* `NoneIdle`: `Spec => []NoIdleExport`

For `Link`, the invariant (`IInv`, theorem `Inductive`) says that the link is what the last
publish or unpublish that was served asked for (`LinkInv`), that an agent asks
for its wish (`AskedInv`), that a success on its way to an agent is that of its
own call, or was overtaken (`ServedInv`), and that an agent that was told of a
success has asked for nothing else since (`ToldInv`). It rests on the methods
that publish wanting a 200 and nothing else: a refusal is never read as success.

The other two have `ExportInv` (theorem `ExportInductive`). A call is for the
wish, or for what comes next in it (`WishInv`), its reply is one the backend can
give to it (`ReplyInv`), an agent comes back to an export only below `MaxStarts`
and when the job it follows failed (`StartInv`), and that job is one it started
(`FollowInv`). `NoIdleExport` counts the jobs that have not failed; what does not
grow without a reason is that number, plus the starts that may still be served
(`Late`), plus one if the wish calls for a start (`Due`): `CountInv` bounds it by
the exports begun and the starts not heard of. A start served turns what is due or
late into a job, a lost reply makes one more due and counts as not heard of, a job
that fails gives its place back. `AgentKept` shows that all of it holds for every
agent that a step is not of, so each action is proved for its own agent. It rests
on the method wanting a 202 and on a 202 naming the job.

`UploadsProofs` proves, for any agents, wishes, categories, keys and bounds, under
the assumptions of `Uploads` (the property's first photos are among the keys,
wishes are wishes, `None` is no value):

* `TypeCorrect`: `Spec => []TypeOK`
* `RecordedOnce`: `Spec => []AttachedOnce`
* `ToldIsDone`: `Spec => []DoneIsDone`
* `TwiceOnlyIfOvertaken`: `Spec => []CopyOnlyIfOvertaken`

The invariant (`Inv`, theorem `Invariance`) says of each agent that its call, and
each request of its that may still be served, fits its wish (`Fitting`), that an
answer on its way to it is true and stays true (`Truth`), that a document of its
is recorded only under the key it holds, and that no hint sends it back to the
upload after that (`OneDocument`), that it uploads a photo only when none of its
is there and none on its way, or a late list has overtaken it (`OnePhoto`), and
that what it told its user holds (`Told`). All other agents, and its own late
requests, only move the property in certain ways (`Moves`): keys keep their
owner, documents stay, photos disappear by removals only and come back never.
`Undisturbed` shows that such moves keep all of the above, so each action is
proved for its own agent alone. It rests on a key being issued to one agent, and
on `confirm` being refused for a key that is recorded.

`ToolCallsProofs` proves, for any agents, intents, things and bounds, under the
assumptions of `ToolCalls` (intents make sense, the things named in it are things,
`None` is no value):

* `TypeCorrect`: `Spec => []TypeOK`
* `Truthful`: `Spec => []OutcomeIsTruthful`
* `NoneTwice`: `Spec => NoDuplicates`

The first half is about values, not states: for each method of the client and each
way the backend can serve its request, a failure of its own that leaves an effect
included, the helper that reads the reply says what was done, or one of the things
that `OutcomeIsTruthful` leaves out (`Answers`, from a lemma for each kind of
request: `ReadIs`, `PlainIs`, `RemovalIs`, `PushIs`, `RunIs`, `BoxesIs`,
`InvitationsIs`, `RefusedIs`, `BrokenIs`); a gateway's answer is never taken for a
claim (`GatewayOf`). The lemmas about the table (`ReaderCalls`, `WriterCalls`,
`LookOf`) go through the tools one by one: a read wants a 200, a read that shows
what a tool made returns its cursor. The invariant (`Inv`, theorem `Invariance`)
then says that of each call (`CallInv`), that an agent's calls come one after the
other and fit its intent (`OrderInv`, `Fitting`), and that, as long as nobody
has changed its things since it looked, the request an agent is about to add with
is for nothing that is there, and a read without a cursor has shown it all
(`LookedInv`).

Only model-checked: liveness, which is out of the prover's reach, and that the
violated properties are violated.

## 5. Plan

1. In `PropertyUpdate`, the fields that merge, and a second update with the
   version the first returned.
2. The two reads of the underwriting tools, and the newest version they default
   to.
3. In `TokenProxy`, a cache with a key for requests without a code, which nothing
   but the two tests `code != ""` keeps apart from one another.

Runs are kept few; a later violated run may replace one of the above where it
says more about the code.

## 6. Not modelled

* *Metadata, registration* (`oauth/metadata.go`, `oauth/register.go`): constant
  documents, a pass-through, and an answer that depends on its request only.
* *Middleware* (`oauth/middleware.go`): it keeps no state; whether a token is
  valid is decided by the OIDC library.
* *Registration of the tools*: static tables. The descriptions are quoted where
  what an agent does is modelled from them.
* *Live tests*: scripts against a deployed backend, read as documentation.
* *Formatting*: names, units, file types, URLs and the text of results.

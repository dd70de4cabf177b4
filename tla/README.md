# Formal verification of the API Firewall

The repository holds the documentation site of Wallarm. Most of its files are
pages; the program of substance in it is the **API Firewall**, a reverse proxy
written in Go that checks requests and responses against an OpenAPI 3
specification (`src/docs/latest-ja/api-firewall/api-firewall/`, below `AF/`).
The site itself brings a few scripts (`src/stylesheets/`, `src/pdf/`).

This directory holds TLA+ modules that model the firewall's components, TLC
configurations that check them on small instances, and proofs of their main
invariants for every instance, checked by TLAPS. `PROJECT.json` maps every
definition to the lines of code it stands for.

## 1. Inventory

| Component | Source | State it keeps | Operations |
|---|---|---|---|
| Client pool | `AF/internal/platform/proxy/chainpool.go` | the channel field `reverseProxyChan`, its buffer of clients, the mutex | `NewChanPool`, `Get`, `Put`, `Close`, `Len` |
| Request handler | `AF/cmd/api-firewall/internal/handlers/openapi.go` | none of its own; `ctx.Response`, the leased client | `openapiWafHandler`, `performProxy`, `getValidationHeader` |
| Router and middlewares | `AF/internal/platform/web/`, `AF/internal/mid/`, `AF/.../handlers/routes.go` | `ctx` | `SetDefaultBehavior`, `Handle`, `Logger`, `Errors`, `Panics`, `Proxy`, `Denylist` |
| Shadow API check | `AF/internal/platform/shadowAPI/` | the exclude list | `Check` |
| Validator | `AF/internal/platform/validator/validate_*.go` | the converted request it rewrites, the parser pool | `ValidateRequest`, `ValidateResponse` |
| Decoders | `AF/.../validator/req_resp_decoder.go`, `internal.go` | the read buffer of archives | parameters by place, style and type; bodies by media type |
| OAuth introspection | `AF/internal/platform/oauth2/introspection.go` | a cache of token metadata | `Validate`, `getTokenMetaInfo` |
| OAuth JWT | `AF/internal/platform/oauth2/jwt.go` | the key | `Validate` |
| Denylist | `AF/internal/platform/denylist/`, `AF/internal/mid/denylist.go` | a cache of tokens | `New`, the lookup |
| Process | `AF/cmd/api-firewall/main.go`, `AF/internal/config/` | the configuration, two servers, the channels `shutdown` and `serverErrors` | `run`, from its arguments to its return |
| Health checks | `AF/.../handlers/check.go` | none | `Readiness` (leases a client), `Liveness` |
| Route table | `AF/internal/platform/router/` | read once | constructor |
| Navigation of the site | `src/stylesheets/supported-platforms.js` | the path of open cards, in memory and in `localStorage` | open, close, restore, reset |
| Page behaviour, PDF build | `src/stylesheets/extra.js`, `src/pdf/` | DOM | event handlers, a script |

**How they interact.** `run` checks the configuration and builds the pool, the
denylist, the handlers and two servers, in this order. Each request runs in a goroutine of `fasthttp.Server`: the router either
answers itself (unknown route in BLOCK mode) or calls the chain
`Logger(Errors(Panics(Proxy(Denylist(handler)))))`. The handler leases a client
from the pool shared by all requests, converts and validates the request (the
validator decodes parameters and body, and calls back into the OAuth validator, which
shares a cache and may call the provider), sends it upstream, validates the response and, deferred, gives
the client back. `Errors` and `Panics` turn what comes up into responses. On a
signal `run` shuts the API server down, which waits for the requests in flight,
and then closes the pool.

**What is hard.**

* *Concurrency*: the pool reads its channel field without the mutex while `Close`
  clears it and closes the channel after unlocking; handlers overwrite one
  another's cached token metadata; two listener goroutines and `main` talk over
  channels with one slot.
* *Failure*: a backend that fails is reported as success with a made-up status;
  panics and errors leave the handler at a dozen places and still have to return
  the client and produce a response with no hop-by-hop header.
* *Ordering*: the route test is made in the router and again in the handler, under
  two modes; security requirements are alternatives of conjunctions; shutdown
  must answer requests before it closes the pool.
* *Staleness*: an expired item of the introspection cache is still used.
* *Staleness of the site's state*: each tab writes its whole navigation state over
  what other tabs stored since it was loaded, and versions of a page differ.
* *Boundaries*: a pool that is empty or full, capacities around 100, a denylist of
  fewer than ten entries, found, nil and typed nil values of parameters, empty items,
  numbers with an exponent.
* *Two meanings of one text*: a parameter is decoded by tables of prefixes and
  delimiters, one set for each place, and compared with its schema as decoded. What
  was compared has to be what was sent.

The full list, each at its line, is under `hazards` in `PROJECT.json`.

**What makes each component correct.** The pool never panics, never shares a
client, grants nothing once closed, and neither `Close` nor `Get` waits for ever.
The chain forwards only what the modes allow, lets out only responses that were
checked, answers every request and returns every client. Shutdown cuts no request
off and the process ends. Introspection grants only what the provider reported.
The denylist blocks exactly the listed tokens. The validator accepts exactly the
requests that satisfy their declaration, and names the first part that does not; and
what it compares is what the request means. On the site, titles and stored paths
always lead to the grid that is shown.

## 2. Modules

| Module | Models | Composed with |
|---|---|---|
| `LeasePool` | what the pool promises: leases, abstractly | used by `Gateway` |
| `ChanPool` | the pool, one action per access to shared memory | |
| `ChanPoolLease` | the refinement mapping, `ChanPool` => `LeasePool` | both |
| `Gateway` | router, middlewares, handler, proxying, shadow API check | `INSTANCE LeasePool` |
| `Firewall` | what the firewall promises of a request, as a black box | |
| `GatewayFirewall` | the refinement mapping, `Gateway` => `Firewall` | both |
| `Lifecycle` | `run`: startup, goroutines, channels, connections, probes, shutdown | |
| `Introspection` | OAuth introspection and its cache | |
| `JwtValidation` | the other OAuth validator, a decision without state | |
| `OAuthValidators` | the scopes a handler requires, put to either validator | `Introspection` with `JwtValidation` |
| `Denylist` | loading and lookup of the denylist | |
| `RequestValidation` | `ValidateRequest` | |
| `ParameterDecoding`, `BodyDecoding` | the decoders, as operators | |
| `Serialization` | how OpenAPI writes the value of a parameter, the reference for its decoders | `ParameterDecoding` |
| `BodyMeaning` | what a document, an archive and a form say, the reference for `BodyDecoding` | `BodyDecoding`, `Serialization` |
| `DecodedParameters`, `DecodedBodies` | requests as they are sent, decoded and validated | `RequestValidation` with the decoders |
| `ResponseValidation` | `ValidateResponse` | |
| `Navigation` | the site's deployment options: cards, titles, storage, tabs | |
| `MC*` | constants and symmetry sets for TLC | |
| `ChanPoolProofs`, `GatewayProofs`, `LifecycleProofs`, `IntrospectionProofs`, `DenylistProofs`, `RequestValidationProofs`, `ResponseValidationProofs`, `NavigationProofs` | theorems, section 4 | the module they are named for |

Definitions keep the names of the code. Definitions named `X_Y` after a mapped
definition `X`, under a comment that begins with "Mutant", are faulty variants of
`X`; substituting one for `X` must break the property listed with it in
`PROJECT.json`. No specification uses them.

**ChanPool.** `field` is `p.reverseProxyChan`, `buf` and `closed` the channel,
`pc`, `chan` and `held` the position, loaded operand and client of each goroutine,
`cpc` each closer's position. `Get` is `GetCheck` (line 157), `GetLoad` (164, the
second unlocked read), then `GetReceive`, `GetDrained` or `GetFactory`; `Put` takes
the read lock (`PutRLock`), tests, and sends or drops; `Close` announces itself as
a writer, waits for readers, clears the field (`CloseSwap`), and after unlocking
closes the channel (`CloseChan`). The RWMutex has Go's rule: a waiting writer
keeps new readers out. A send on or a second close of a closed channel is an action
that reaches a panic, which `NoPanic` excludes.

**LeasePool / ChanPoolLease.** `LeasePool` has a call that is granted a client
nobody holds, or refused, and a `Shut`, after which a call made is refused. The
mapping takes a `Get` between its first read and its end for an undecided call.

**Gateway.** A request moves through labels that follow the chain; `err` is the Go
error (or panic) on its way up, `resp` is `ctx.Response` reduced to its status,
its origin, whether it carries hop-by-hop headers and whether it names a reason.
What a request carries and what the backend answers are chosen from `Inputs` and
`Outcomes`; the modes and the denylist settings from `Configs`. The validator and
the decompression appear by their outcomes, among them a panic. `up`, `sent` and
`log` are history.

**Firewall / GatewayFirewall.** Of a request `Firewall` sees that it is received,
forwarded at most once and answered, and it computes the answer and the log at once from
the configuration, what the request carries and what came of forwarding it. The mapping
takes a request for forwarded when `performProxy` starts, and shows response and log
when the chain has been left. What it hides is where the difficulty is: early returns,
deferred calls, errors and panics that pass through five middlewares, each of which may
replace the response.

**Lifecycle.** `main` walks through the stages of `run`: the tags of the
configuration's fields and the status lists, the log level, the specification, the
backend's address, the pool with its two capacities, the denylist. What is read from
outside succeeds or fails. Then `main`'s select, the two listener goroutines, the
channels of capacity 1, connection slots of the API server, and probes of readiness,
which lease a client. `fasthttp.Server` is external: `Shutdown` closes the listener
and waits for open connections, or returns at once if there is no listener yet.

**Introspection, JwtValidation.** Handlers interleave at their accesses to the cache and at the
provider, which may change its mind (`Change`); the cache may evict, and items
age (`Tick`). `reported` is history: all the provider ever said of a token. The JWT
validator keeps nothing between calls, so it is a decision: what `Validate` returns
for a configured key and a token, with the library's parsing and signatures external.
`OAuthValidators` asks it of every kind of token for the scopes that a handler requires;
the spellings of a scope and the folding of letters are constants.

**Denylist.** Both passes over the file, line by line, with read errors and keys
the cache refuses, then the middleware's lookup under every setting.

**RequestValidation.** One action per step of the loops: a scheme asked, a
requirement met, a parameter checked, and one action per return of
`ValidateRequestBody`. What decoding and the test against a schema give are facts of the
request: for a parameter the pair (value, found) the decoder returns, with a nil
slice or map told apart from nil, because the code does. `written` and `body` are
what the code writes into the converted request. Decoding may panic, of a parameter or of
the body, which ends the validation as a result of its own (`DecodingPanics`).

**The decoders.** `ParameterDecoding` and `BodyDecoding` compute those facts. A text
is a sequence of tokens (delimiters, names, words); what `strconv`, JSON and YAML
read of a text are constants. What a decoder gives is a value, an error or a panic; of a
form whose properties give an error and a panic it is either, since the code takes them
in the order of a map (`Either`), so `Judged` is a set of outcomes and each is a request of the
run. `ParameterDecoding` has the decoders of the four
places with their styles, arrays, objects and composed schemas, and the decoder of
parameters with content; `BodyDecoding` the conversion of JSON numbers, forms,
multipart bodies, archives with the buffer they are read into, CSV and text. A document
is nested to at most `MaxDepth`, and `Docs` has the documents of each depth, so that
their conversion is a recursive function; `DecodeBody`, whose parts are bodies, is
RECURSIVE and stands in `DecodedBodies`.
`DecodedParameters` and `DecodedBodies` make operations of `RequestValidation` from a
schema and what is sent. Against the decoders they set a reference that does not use
them: the serializations of OpenAPI (`Serialization`), and what a body of a media type
means (`BodyMeaning`). These two translate no code, so `PROJECT.json` maps none of them;
they have also what the theorems of section 4 say.

**ResponseValidation.** The tests of method and status, the choice of the declared
response, its headers one by one, and the returns of the body's part, with the
body taken from the input and put back. A header or the body may make the decoder
panic (`HeaderPanics`, `DecodingPanics`); in `Gateway` that is the verdict "panic", also on the
response that stands in for a backend that failed.

**Navigation.** A page has sections with a grid of cards each, grids nested below
cards, one of them shown. `state` is a tab's `state`, `storage` the entry of
`localStorage` that all tabs share, `current` the grids marked by `data-current`,
`title` the parts a title shows. A script runs to its end before the next event, so a
click on a card, a title's part or a back button, and a load with its restoring of
stored paths, are one step each. Heights and animation are left out.

## 3. Runs, bounds and fairness

| Run | Shows | Bounds |
|---|---|---|
| `ChanPoolCalls` | no panic, exclusive leases, a late `Get` refused, the channel only drains after `Close`; refinement of `LeasePool`; `Close` and `Get` end | 2 handlers, 2 closers, capacity 1, 3 clients (20 thousand states) |
| `GatewayPolicy` | what is forwarded, delivered, logged; refinement of `Firewall` | 1 request, 1 client, pool closed at any time; all modes, inputs, outcomes, denylists (1 million states) |
| `GatewayLeases` | leases across the handler's exits, every request answered | 2 requests, capacity 1, pool closed at any time |
| `LifecycleShutdown` | a validated configuration is not refused later; the pool outlives the handlers, nil means it is closed, a late probe is not ready; a signal or a failed listener ends the process | 2 connections, 1 probe, 15 configurations, capacities around 0 and 100 |
| `IntrospectionSafety` | scopes granted and cached only as reported; a JWT passes exactly if it is authentic | 2 handlers, 1 token, 2 scopes; every kind of JWT and key |
| `DenylistLookup` | blocked exactly when listed | files of up to 3 lines, 2 tokens, 2 progress steps |
| `RequestValidation` | accepts only what the declaration allows, refuses by the first failing part, asks only schemes that can decide, fills only gaps by defaults; what is accepted means what was compared, and what is written as it should be and fits is accepted | 2 requirements of 2 schemes; 2 parameters; every body; a mixture; each place and style with 18 schemas and texts of up to 3 parts; bodies of each media type |
| `ResponseValidation` | passes exactly what is exempt or conforms; the body is blamed last | 3 headers; every declared response, 2 defaults, every body |
| `NavigationTabs` | titles and state lead to the grid that is shown, a reload shows it again, paths of other versions are kept | 2 tabs, 2 versions that differ in a section and a card, grids nested three deep |
| `IntrospectionRefresh`, `DenylistSmall`, `RequestDefaults` | disagreements between code and documentation, section 5 | |

Type invariants are in the runs of `Navigation` and `ResponseValidation`, where they say
more than types; every module's is a theorem named `TypeCorrect`.

*Why the bounds are enough.* A hazard of the pool involves at most one reader or
writer of each kind and a second closer; two of each over one slot
show every order of their accesses, an empty and a full channel, and a client
that is dropped. A request of the gateway meets others only in the pool, so one
request suffices for policies and two for leases. For introspection two handlers are
the least that can overwrite each other, and tokens do not interact. For these, for
`Lifecycle`, `Denylist`, `Navigation` and the two validation loops, the proofs remove the bounds of the
safety properties, and for the decoders of parameters, documents, archives and forms
those of texts, depths and schemas.
`Interval = 0` in `IntrospectionSafety` keeps the ages small: no action tests an age.
The denylist's `Parts` replaces the code's constant 10 so that a file of
few lines can be loaded at all; `DenylistSmall` uses 10. In the validator the
parts meet only in their order, so each is enumerated alone in full, and together
(`Mixed`) with one requirement, one parameter and every body.

For multipart bodies, CSV, the content of parameters and the test against a schema
nothing is proved, so their bounds matter; for styled parameters, documents, archives
and forms section 4 has theorems without. Documents are nested once (`MaxDepth`). Arrays have up to two items, which is enough for one item that ends the loop and one before or after it;
objects two properties and an undeclared one, in up to three pairs, enough for each
order and for a name that comes again. The words are one that two types read, one
that only strings do, and one for booleans; numbers are written plainly, with a
fraction and with an exponent. `BufferSize` is 2 for the code's 256 bytes: files of one and
two tokens fill a read in part and in full. Schemas are nested one level, multipart
bodies have two parts. In `Navigation` two tabs are the least of which one can be old;
the versions share, lack and add a grid.

*Fairness.* Each goroutine of the pool proceeds and the mutex is not unfair to a
waiting writer (Go's RWMutex); no fairness is assumed of `Put` as a whole, and
nothing makes workers call. For `Gateway`, every step of a request that has arrived: the
client has dial, read and write timeouts, so an exchange ends; that the validator
ends is an assumption, since introspection has no timeout of its own. For
`Lifecycle`, `main` and the goroutines proceed, and connections end by their client or the read
timeout; signals and failures of listeners are never forced. Nothing is fair in
`Navigation`, readers need not click. Symmetry is used only in runs without temporal properties.

*Deadlock* is checked except where the program ends (`Lifecycle`), or its
run does (`Denylist` after a failed load, the validation modules after a verdict).

## 4. Proofs

TLAPS checks these for every value of the constants under the named assumptions. The
assumptions are evaluated by the runs of the modules that state them. Each proof module
has the layout: named parts of an invariant, one lemma that the initial state satisfies
it, lemmas for the actions, a lemma `Inductive == Spec => []IInv` (or `IndInv`), and a
short theorem per property.

* `ChanPoolProofs` (assumptions `CapacityAssumption`, from the tests of
  `NewChanPool`; `NilAssumption`; `EnoughClients`, the factory always has a client
  that is not in use): `TypeCorrect`, `PoolNeverPanics`, `LeaseIsExclusive`,
  `LateGetIsRefused`, `NothingParkedAfterClose`. None is inductive alone. `IndInv`
  adds the mutex (`LockInv`: one writer, and no reader with it), the order of
  clearing and closing (`ChanInv`: the channel is closed only after the field is
  cleared, by the one closer that cleared it, and while a `Put` is about to send
  the field is not cleared), the positions at which a client is held (`HoldInv`)
  and of late calls (`LateInv`). The reason for `NoPanic` is that `Put` sends inside
  the read lock and `Close` closes only after it held the write lock.
  `PoolImplementsLeases` is the property `ImplementsLeasePool` of the run. The initial states map to initial states, and each action, under `IndInv`,
  to a call, a grant, a refusal, a return or a shut of `LeasePool`, or to nothing.
  That a client received from the channel is nobody's is `ExclusiveLease`; that a
  late call is never granted is `LateInv`; `SameCardinality` identifies the two
  instances of the cardinality operator.
* `GatewayProofs` (`ConfigAssumption`, `InputAssumption`, `OutcomeAssumption`: the
  fields of what is enumerated; `ClientAssumption`): `TypeCorrect` and a theorem for
  each safety property. They speak of a request's end, so the invariant follows it
  through the labels: before it is sent, nothing is sent and the checks behind it
  have passed (`BeforeSending`); what is sent is allowed (`Sending`); the response is
  what came of the outcome, and is accepted if it leaves (`Answering`); the same for
  two DISABLE modes (`Bare`) and for the log (`Logging`). `Leasing` ties the labels to
  the pool's leases. But for the leases, a step of one request leaves the others' state alone
  (`OthersStay`, `Frame`). `RouterShields` is a consequence that no run states: the
  handler's own answer to an unknown route under BLOCK is never reached.
  `ChainImplementsFirewall` is the refinement of `Firewall`. Its invariant adds `Told`:
  while a request is inside the chain, the part of the policy that its label has passed
  holds of it (not barred, examined, passes), and once the handler has returned, what
  the middlewares will make of `resp`, `err` and `log` is what the policy says. So the
  only steps to be seen are the two ends of the chain and `Send` (`EndsAreSeen`); all
  others map to nothing (`MiddleIsUnseen`). Closing the pool is seen, since it is a reason to
  refuse, and `Told` survives it because the pool is not opened again.
* `LifecycleProofs` (`ConfigAssumption`): `TypeCorrect`, `PoolOutlivesEveryHandler`,
  `NilMeansClosed`, `NoValidatedIsRefused`, `LateIsNotReady`. `Draining` says that
  connections are open after Shutdown began only while `main` drains; `Reports` that
  nil is in `serverErrors` only when `main` has left its select for good;
  `Configured` that later stages run with valid fields; `Probing` that a late probe
  found the pool closed.
* `IntrospectionProofs` (`IntervalAssumption`, `SpellingsAssumption`): `TypeCorrect`, `NothingBeyondReported`
  and `CacheIsReported`. The invariant is that what is cached, and what a handler has
  in hand between reading and using it, was reported for that very token; an
  overwritten cache item is replaced by a reported one, and ageing keeps scopes.
  `JwtIsJudgedRight` is the decision of the JWT validator, by the four keys it may end with
  (`KeyOfBoth`): for any scopes and any way to fold letters, what passes is authentic and
  claims every scope. `JwtsAreJudgedRight` is the property of the run that rests on it.
* `DenylistProofs` (`DenylistAssumption`): `TypeCorrect`, `ListedAreBlocked`,
  `OthersAreNotBlocked`. `Counted` and `Loaded` relate both passes: the second has
  loaded, or the cache refused, every entry it is past, and has not counted more than
  the first.
* `RequestValidationProofs`, on validation (`OperationAssumption`: the types of a
  declaration, and no two parameters of one place and name in one list, which
  `doc.Validate` at `router.go:28` ensures): `TypeCorrect`, `AcceptsTheAllowed`, its
  converse `AllowedIsAccepted`, `FirstFailureRefuses`, `AskedIfItDecides`,
  `DefaultsOnlyFillGaps`. The properties compare the result with the whole declaration;
  the invariant says how far each loop has come (`Securing`, `InOrder`) and what each
  result means (`Justified`).
* `RequestValidationProofs`, on the decoders of styled parameters (`SchemasAssumption`:
  parts of schemas are schemas, and none is composed of itself, or the code would not
  return; `LexicalAssumption`: the types of lists, objects and strings are not among
  those that `strconv` reads):
  * `WrittenIsDecoded`: what OpenAPI writes for a value is decoded to that value, in
    every place and style that the decoders support. It joins `WrittenPrimitiveIsDecoded`,
    `WrittenArrayIsDecoded` and `WrittenObjectIsDecoded`, for texts of any length, lists of
    any length and objects of any number of properties written in any order. Its
    hypotheses, `IsPlainValue`, ask of a value what the syntax needs for it to be told
    apart: no item, name or text has the delimiter, and none is empty.
  * `DecodedIsWhole`: conversely, what is decoded is nothing, or a value that accounts for
    the whole of what the request carries, for any request and any schema, composed to
    any depth. The definitions `IsWhole...` say where "whole" has limits, which are those
    of the code: of several texts of a name the first counts (but for exploded arrays of
    a query), of repeated pairs the last, properties the schema does not declare are
    dropped, and a key of `deepObject` may have tokens around its pattern. An object
    has its properties from some declared schema, since an alternative may give it.
  * `AcceptedIsWhole` and `WrittenIsAccepted` put both into the validation: of a request that
    passes, each parameter fits its schema with all that it carries, or is missing or nil
    where that is allowed; and a request that carries values as OpenAPI writes them is not
    refused for its parameters. They are the counterparts, for all texts and
    schemas, of the two properties of the run that are about parameters and bodies,
    `AcceptedIsMeant` and `WrittenPasses`. Whether a value fits is a hypothesis of them
    (`fits`): the test is the library's.
  * They rest on two lemmas about the operators for texts, `SplitOfJoin` and `JoinOfSplit`: `Split`
    and `Join` undo each other, the first if no part has the token its delimiter begins with.

  `Split`, `Join`, `ParseValue` and `DecodeValue` are recursive functions. That they satisfy the
  equations they are written by is proved before it is used: for texts by induction
  over positions from the end, stated of sets of numbers; for schemas by the induction
  that `SchemasAssumption` gives, also of sets. Either way a set that has each element of which
  it has all that the recursion asks is everything (`Unrolls`, `DownInduction`, `CompositionInduction`).
* `RequestValidationProofs`, on the decoders of bodies (`DocsAssumption`: what is inside of a
  document is less deep than it; `BufferAssumption`: the buffer of archives is not empty):
  * `PlainNumbersAreKept`: what `convertToMap` makes of a JSON document of any depth is what
    the YAML library reads in it, if no whole number is written with a fraction or an
    exponent (`HasPlainNumbers`). Without that it is false, which section 5 reports.
    `AcceptedDocumentIsMeant` says what follows for the requests that pass.
  * `ArchiveIsInBlocks`: the text that is compared has a block of `BufferSize` tokens for each
    read, which begins with what was read: nothing of the files is lost, and it is only
    the rest of a block that is not theirs.
  * `WrittenFormIsDecoded` and `DecodedFormIsWhole`, for forms what the two theorems above are for
    parameters, from these, since `urlencodedBodyDecoder` decodes a property as a parameter
    of a query; `WrittenFormIsAccepted` and `AcceptedFormIsWhole` put them into the validation.
    The first asks that all properties are shown: a form without an optional one is refused
    (section 5).

  The conversion of documents is a recursive function over `Docs`, which satisfies its
  equation (`ConvertedEquation`) by induction over the depth, and the text of an archive one
  over the reads (`ReadingEquation`).
* `ResponseValidationProofs` (`DeclarationAssumption`): `TypeCorrect`,
  `PassesExactlyIfItConforms`, `BlamesBodyLast`, by what each phase has established.
* `NavigationProofs` (`PagesAssumption`: cards, sections and nested grids of a page form a
  forest below its sections, said as an induction principle over sets of grids;
  `VersionsAssumption`: a grid that two versions share has the same path in both, as
  the site builds versions of a page from one source): `TypeCorrect`,
  `TitlesLeadToCurrent`, `StatesLeadToCurrent`, and the action properties
  `ReloadsRestore` and `OthersAreKept`, for pages of any size and depth and any number of
  versions and tabs. `Path` is a recursive function; that it satisfies its equation is
  proved (`PathProperties`) by the induction principle, from functions that solve it on
  sets of grids closed under parents (`SolutionsAgree`, `SolutionsCover`). None of the
  properties is inductive alone: `NavigationKeeps` needs that stored entries are paths of
  their section (`TypeOK`), and the two about titles and state need each other.

Only model-checked: liveness (`CloseEnds`, `RequestEnds`, `RequestAnswered`,
`SignalEnds`, `FailureEnds`), which is under fairness and out of the prover's reach; and
`AcceptedIsMeant` and `WrittenPasses` as they stand. They are about all decoders at once, with
multipart bodies (`DecodeBody`) and the test against a schema (`Conforms`), which are declared
RECURSIVE over bodies and values, where the prover has no SMT backend: those are
evaluated over the enumerated inputs, and the share of styled parameters, documents,
archives and forms in them is what the theorems above prove.

## 5. Where code and documentation disagree

Shown by a run (`findings` in `PROJECT.json`):

* `IntrospectionRefresh`: cached metadata is used at any age.
* `DenylistSmall`: a denylist of fewer than ten entries divides by zero at start.
* `RequestDefaults`: a fitting form or YAML body that omits a property with a
  default is refused.

Read in the code, without a run.

*Pool and process.* A `Get` that overlaps `Close` may hand out a client, against the
comment at `chainpool.go:153` (the client is valid, so the effect is a request that is
still served). Clients are made without limit when the channel is empty
(`docker-container.md:235` speaks of a maximum). The channel for server errors has one
slot for two goroutines, against its comment (`main.go:255`). A listener that
`Shutdown` closed returns nil into it, and only because `main` never returns to its select
is that not taken for an error. Readiness stays ok while the API server drains and no
longer accepts. `SignalShutdown` (`web.go:111`) is for an error that the `Errors`
middleware lets through only if it is a shutdown error, and nothing makes one.

*Chain.* With response validation in BLOCK mode the status made up for a backend that
does not answer is validated as its response, and an undeclared one is blocked. The
shadow API check also runs with one mode LOG_ONLY and the other DISABLE (`:95` says
both). LOG_ONLY still ends a request that cannot be converted or decompressed
(`:88`). The router's and the denylist's block answers carry no reason header (`:92`).

*Denylist.* A line of spaces blocks requests without a token (`denylist.go:83`). A file
without entries gives a cache of size zero, which the library refuses, and the process
does not start. The default of `APIFW_DENYLIST_TOKENS_TRIM_BEARER_PREFIX` is
true in `config.go:37`, false in the documentation.

*JWT.* Only the family of the algorithm is compared: an RS512 token passes
under RS256. A configured `rs256` loads the key and refuses every token. RSA without a
certificate file panics on RSA tokens, which is answered 502, and an unreadable file
leaves the handler without a validator.

*Parameters.* Of several texts of a name only the first is decoded, but for exploded
arrays of a query. The pattern of `deepObject` is not anchored. An exploded array with
one empty item is nil as a whole, so with `allowEmptyValue` the other items are not
compared. A nil slice or map of an alternative that failed counts as a match of
`anyOf` and `oneOf`. "1" is an integer and a boolean, so a `oneOf` of both refuses it.
An `allOf` with a part that has no type is nil. An array whose items are composed or have no
type panics outside of the query. An optional cookie declared by content is refused when it
is absent: `err` keeps `http.ErrNoCookie` (`req_resp_decoder.go:136`). An object without an optional property is refused,
and so is an absent optional exploded object next to other parameters. A free-form
exploded object is never found. A repeated property takes its last value. An
array's default is not applied when the request shows other query parameters, since the
decoder's nil slice is not nil (`validate_request.go:145`).

*Bodies.* `1e1` and `10.0` are compared, and with defaults written back, as 0
(`internal.go:45`). Text of an archive is padded by what the read buffer held before.
Parts of one name after the first are decoded and dropped unless the property is an
array, and a part that is not declared is looked up among the properties of the
schema of `additionalProperties`, not as that schema. A text part never fits an
integer. A form without an optional property is refused. One with a property whose schema
is composed of an array whose items have no type panics: the test of the properties'
types (`req_resp_decoder.go:1060`) does not look into it. So does the header of a response
that is declared by content, whose schema is nil (`validate_response.go:173`).

*Site.* A click in a tab older than the storage takes back what other tabs stored, or
brings back what they removed. `ReloadRestores` and `OtherVersionsKept` say
what holds while no tab is older.

## 6. Not modelled, and why

The route table (a sequential copy of the specification's paths into a list);
`extra.js` (handlers that set styles or the address, without state that outlives
the page); the PDF build (sequential I/O); lightbox, mocks, demos, deployment
scripts and the pages (third-party, generated, or no program). Of modelled components:
the functions that change the tables of decoders and encoders, which only tests call;
the parsing of arguments; `Len` of the pool, which nobody calls; the wording and paths of errors.

Libraries are external: fasthttp's server and client by the contract their callers use;
kin-openapi's schema test by `Conforms`, over the schemas the decoders tell apart; the
policies of the cache libraries (ristretto may refuse or evict a key, ccache returns
expired items) by what their callers rely on; cryptography by who signed a token.

Hazards without a property are listed in `PROJECT.json` with the reason. The code does nothing
against four of them, so no property could say that it does: clients alive without
a bound, a signal that comes before there is a listener (`PoolOutlivesHandlers` is about graceful
shutdowns, which have one), an older answer of a provider that replaces a newer one in
the cache, and a provider that never answers. Two are of data the modules do not have: the cost
of the keys in the denylist's cache, and a response header that comes several times.

## 7. Plan, and what is left

Done: the pool, its abstraction and the refinement; the chain and its refinement of a
black box; startup and shutdown; both OAuth validators; the denylist; request and
response validation; the decoders of styled parameters; the navigation of the site:
each with proofs; the decoders of documents, archives and forms, proved as well. The decoders of
multipart bodies, CSV and parameters with content, checked.

Left, in order of worth:

1. Multipart bodies, and the content of parameters, in the form that documents have: parts by
   how deep they are nested, and a theorem that each value is that of a part of its name.
2. The composition of `Gateway` with `Lifecycle`: requests in flight and the pool are in
   both, the drain as a bound on the first.
3. Deeper schemas in the decoders: objects in objects, encodings of parts.

# TLA+ models of litellm-mcp

`litellm-mcp` is an MCP server in front of a LiteLLM proxy. An agent calls a
handful of meta-tools (`litellm_read`, `litellm_write`, ...); the server looks
the operation up in the group's table, validates its parameters and performs one
HTTP request against the proxy's management API. Most operations are generated
from the proxy's OpenAPI snapshot. This directory holds TLA+ models of that
code, the TLC runs that check them, and proofs checked by TLAPS.

Paths are relative to the repository root; `server.py`, `client.py`,
`config.py`, `registry.py` and `tools/` are those of `src/litellm_mcp/`.

## 1. Inventory

| Part | Source | State it keeps | Operations | What makes it correct |
|---|---|---|---|---|
| Settings | `config.py` | `_settings`, the environment | `get_settings` | read once, and never half-filled |
| Client resolution | `tools/helpers.py`, `client.py` | `_client`, `client_var` | `get_client`, `LiteLLMClient.__init__` | never returns `None`; a bound client is never mixed with the process's own |
| Startup | `server.py: main` | the process | resolve, `check()`, serve | nothing is served before the proxy accepted the credential |
| HTTP exchange | `client.py: _request` | none | one request, one classified answer | an answer that is no success is not taken for one |
| SSE | `client.py: post_sse`, `tools/overrides.py: test_prompt` | the open response, the text so far | open, read a line, leave | what is cut off is marked; the response is closed on every way out |
| Registration | `server.py: _register_tools`, `registry.py`, `tools/groups.py` | `_group_ops`, `_all_grouped`, the MCP tools | the walk at import | every tagged function can be called; a redirect leads where the operation is |
| Dispatch | `server.py: _dispatch, _run_op, _coerce_call, _safe_tool` | calls in flight: event loop, executor queue, workers; the headers of each client | help, schema, run, answer, withdraw | at most one handled request per call, under the right credential; only a handled request is "ok", and an error tells what it can |
| Help, schema | `server.py: _build_help, _build_schema` | the tables of registration | search, describe | what a search names can be called, and it hides nothing |
| Parameter models | `server.py: _build_params_model, _coerce_string_bool` | none | coerce, validate, dump | an operation gets values of its annotations, and what was omitted stays omitted |
| Partial updates | `tools/_generated_write.py` | the proxy's row | create, update | null clears, an omitted field stays; updates of two agents compose |
| Write verification | `tools/helpers.py: verify_response` | none | pure, recursive | an echo that passes holds what was sent |
| List slimming | `tools/helpers.py: slim_list`, `tools/overrides.py: model_cost_map` | none | pure | a cut is marked and counted, after the filter |
| Agent invocation | `tools/overrides.py: invoke_agent, _bound_a2a` | none | check, send, bound the result | nothing is left out silently |
| Other hand-written operations | the rest of `tools/overrides.py` | none | one request each | as the generated ones |
| Generated operations | `tools/_generated_*.py` | none | one request each, from one template | arguments arrive where the endpoint wants them |
| Code generator | `codegen/generate.py` with its data | the generated files | collect, emit, write | refuses what it cannot express |
| Gate | `codegen/check.py` | none | five checks | a tree that passes serves each operation once and nothing else |
| Release pipeline | `.github/workflows/ci.yml` | tags, releases, package index | check, tag, release, index | versions follow pushes; what a listing that broke off took out of the index comes back with the next whole one |
| Serialisation, error texts | `server.py: _compact, _format_validation_error, _redact_error_text` | none | formatting | (text; not modelled) |

How they interact. The SDK's event loop calls a meta-tool. The tool's coroutine
answers help, schema and misaddressed operations itself and hands any other
operation to `asyncio.to_thread`, which copies the context, so `client_var`
follows. In the worker thread the parameters are validated, the client is
resolved through two module globals, and the operation blocks on HTTP. What it
raises goes through `_safe_tool`. The tables of the dispatch are filled at
import from functions that the generator emitted, and the gate compares these
with the generator's data before a commit reaches the release pipeline.

What is hard here:

* two unlocked, lazily filled globals that worker threads race for;
* calls withdrawn while they are queued or while a worker blocks on HTTP;
* requests that time out and are handled afterwards, so that most errors leave
  open whether the call had an effect;
* one client that is shared by threads and once sends another key;
* answers between success and refusal: redirects, empty bodies, bodies that do
  not decode, echoes that miss keys or hold old ones;
* streams that end early, never end, or end exactly at the cap;
* two dictionaries keyed by the same names with last-one-wins semantics, and a
  search that combines them;
* strings that mean booleans in some fields and themselves in others;
* a cap on rows on top of the proxy's own pages;
* hand-edited and generated files that must agree whatever was edited last;
* runs of the release workflow that replace, follow and outlive each other, and
  a request of theirs whose failure the step does not notice.

`PROJECT.json` lists these hazards one by one at the lines where they bite, with
the properties that cover each, or the reason why none does.

## 2. Modules

```
HttpExchange        what _request makes of one answer (no state)
  ClientResolution    globals, startup probe              + ClientResolutionProofs
  ToolCalls           loop, queue, workers, proxy         + ToolCallsProofs
    CallContract        what a tool call promises (ToolCalls implements it)
  PromptStream        post_sse under test_prompt          + ExecuteProofs
Registry            registration, dispatch, search        + RegistryProofs
WriteEcho           verify_response, key by key           + HelpersProofs
ParamsModel         coercion and validation (no state)
  RowWrites           partial updates of a row, verified  + RowWritesProofs
    RowContract         what concurrent updates promise (RowWrites implements it)
ListPages           slim_list, model_cost_map, pages      + HelpersProofs
AgentInvocation     invoke_agent                          + ExecuteProofs
OperationTemplate   generator template and emitted calls  + OperationTemplateProofs
CodegenGate         data, generated files, gate           + PipelineProofs
Release             the CI workflow                       + PipelineProofs
MC<module>          the instance that TLC checks, with <module>.cfg
```

A definition whose comment begins with "Faulty" is no part of a specification:
it is a definition of the model with a plausible bug, put in place of the
original to see that the named property notices.

Three proof modules hold the proofs of two modules each. A module that shares
one with another has the names of its initial condition, next-state relation and
specification after what it models (`EchoInit`, `GateNext`, `AgentSpec`). What
the code does recursively to documents is a recursive function over the set
`Documents`, a constant: RECURSIVE operators occur in MC modules only.

**ClientResolution** has one action per read or write of a global, because
nothing locks them: `Enter`, `TestClient`, `TestSettings`, `NewSettings`,
`StoreSettings`, `LoadSettings`, `NewClient`, `RejectSettings`, `StoreClient`,
`Load` are the lines of `get_client` and `get_settings`. `held` and `mine` are a
thread's locals. The process either runs `main()` (`phase = "starting"`) or was
mounted by another host, whose calls begin at once. `ChangeEnv` is the host
changing its environment. `built` and `late` are history variables.

**ToolCalls** keeps, for each call, where it is (`pc`), the context copied for
its worker (`ctx`), the copies of its request that the proxy has not seen
(`flight`) and how often it was handled (`hits`). `AnswerInline`, `Submit` and
`Deliver` run on the event loop; `Start`, `Reject`, `Send`, `ReceiveRefusal`,
`ReceiveResult` and `GiveUp` on a worker; `Handle` and `Lose` are the proxy and
the network, and may happen after `GiveUp`: a request that timed out can still
be handled. `Withdraw` is possible at every stage and never stops a worker.
`bearer` is the default Authorization of each client, `sentAs` the client and
the credential a request went with: the operation `probe` is `key_health`, which
sends the key it is given for its one request. An answer is one of the kinds
that an agent can tell apart (`AnswerKinds`): a result, a refusal by the server
itself, a complaint of `verify_response`, a complaint of `invoke_agent` or
`test_prompt` about an answer that reports an error or lacks what it should
hold, an exception that leaves the tool, or an error of the request that names
the status, the transport, or, for a body that does not decode, neither
(`ToldBy`).

**PromptStream** reads one line per step; what the next line is, or whether the
connection drops instead, is decided at that step. **Registry** has `WalkRoot`,
`WalkGrouped`, `Table`, `Serve` for the loops of `_register_tools`, `AbortWalk`
and `Abort` for what ends the import (a function with `**kwargs`, a doc that
names an operation that is not there), then `Call` and `Follow` for an agent
that follows redirects, and `Search` for one that searches help: the functions
whose text contains the search are any set, `Matches` is what `_build_help`
names for it. **WriteEcho** keeps the set of paths still to be looked at, which
covers every order of a dict. **ParamsModel** has the parameters as JSON objects
over fields with types: `Coerced` is the boolean validator, `Valid` the model,
`Meaning` what is handed on, `Arguments` the operation's locals with UNSET for
what was omitted. **RowWrites** goes from these parameters through the body and
the proxy's row to the verified echo, for several calls at once; an endpoint
reports some of the columns (`Echoes`), and a verification that asks for another
one fails although the column was written. **RowContract** has only calls that
ask for columns and atomic updates that happen at most once. **ListPages** is
`slim_list`, and `model_cost_map` with its filter, as functions under an agent
that turns pages by the proxy's count; rows are dicts, strings or lists, of
which only dicts are slimmed and all are counted. **AgentInvocation** checks the
arguments, sends, and bounds the result: `bound_a2a` is the walk, `CutIn` and
`ValueOf` its two results for one document from those of what is below it,
`Walked` the case of a dict. A dict keeps of the order of its keys only whether
a `history_omitted` of the agent's own comes after its `history` (`last`),
because the later of the two counts wins. `Chars`, the length of a document's
JSON text, is a constant: any function of the document. **OperationTemplate**
goes from an endpoint of the snapshot to a function's parameters, and from a
call to a request and to the keys that its verification looks for. `Used` is
what the module imports for the function, `RefersTo` what its statements refer
to and `Locals` what it defines, so that a parameter which hides one of them can
be told. **CodegenGate** lets a developer edit data, tools and generated files
in any order; `Uncovered` are the endpoints that no operation covers, which
`waivers.py` starts with. **Release** has runs with one action per step of the
workflow. `List` reads any part of what the API lists, because the request may
break off in a pipeline whose status is that of its last command; `linked`,
which no step reads, is what an index ever linked to.

## 3. Runs

Each passing run checks one module under its specification; every property of it
was also seen to fail under a faulty definition.

| Run | Properties | Bounds, and why they are enough |
|---|---|---|
| `resolution` | `TypeOK`, `NeverHandedNone`, `WindowCloses`, `CallsUseProbedClient` | Three calls, one of them bound: two racers are what the unlocked window takes, the third enters after it. Two credentials and none; every class of answer to the probe, both sides of 204 and of 400. |
| `calls` | `TypeOK`, `ErrorsTell`, `TenantKept`, `WorkersConserved`, `KeepsContract`, `CallsEnd`, `InlineAnswered` | Two calls of every kind of request and one worker: one call waits in the queue while the other holds the worker, and either may be withdrawn anywhere; a probe before or after a call through the same client; full, partial and empty answers to an operation that complains of them. That two workers never run one call is vacuous here and rests on the theorem. |
| `calls_redirect` | `VerifiedMeansWritten` | As `calls`, with a redirect among the refusals: violated (section 6). |
| `prompt_stream` | `ResponseReleased`, `ResultFaithful`, `CompleteOrTruncated`, `Terminates` | Four lines, a cap of three characters, pieces of up to two: the text stays below the cap, hits it, jumps over it, and the cap's line may or may not be the last. |
| `registry` | `IndexSound`, `RedirectsConverge`, `NothingLost`, `SearchHonest` | Every package of up to four tagged functions, with and without `**kwargs`, over three names, of which two share a PascalCase form, three groups and ROOT, every set of matching functions: collisions inside a group, across groups and both, and a third group to search from. |
| `write_echo` | `NamesTheDrop`, `PassMeansEchoed` | Documents of two levels over two keys: the skip set is for the root, and two levels tell root and nested apart. Deeper documents rest on the theorems. |
| `row_writes` | `ColumnsTyped`, `UpdatesCompose`, `KeepsRowContract` | Two calls, two columns besides the key, of which one is a flag, a value that spells a boolean and null; missing, unknown and mistyped parameters. One call verifies both columns; the endpoint of the other reports one column, which is all it verifies, and its echo may be stale. |
| `release` | `NoTagClash`, `VersionsFollowPushes`, `IndexRecovers`, `HeadReleased` | Three runs: one that runs, one that waits, one that replaces it or follows its failure; a first index, one that a listing that broke off made smaller, and the next. `Patience` 2 for the five polls: one that fails, one that is the last. |
| `codegen_gate` | `ServedOnce`, `NothingElseServed`, `RegenerationRepairs` | Two operations, two modules, two endpoints: every reachable tree, so every sequence of edits. |
| `agent` | `HonestTruncation`, `NothingOversized`, `OmissionsCounted` | Messages of up to two parts and tasks with histories of up to three entries, of which one is kept: nothing, something and something long is dropped. Counts of the agent's own stand before and after a history, and beside file bytes. The text cap of 4 is below the long strings, the result cap of 14 within reach: some results fit, some fit once they are cut, some become a summary. |
| `template` | `EmittedRuns`, `RequestConforms`, `ArgumentsArrive` | One name of no meaning (`id`), which path, body and query share in every way, and names that the template uses, each where it could hide something: a local (`result`, `body`), an import (`query_params`), the limit of a slimmed list. Every form of verification; one group and one set of typing symbols, since they only add reserved names. Other names rest on the theorem. |
| `list_pages` | `NothingMissedSilently`, `CutsCounted` | Up to five rows, dicts or not, pages of one to three, limits from -1 to 4, every filter of the cost map: limits below, at and above the page, the listing and what the filter leaves. |

What they show, in the order of importance:

* `KeepsContract`: the loop, queue and workers implement `CallContract`. A call
  is handled by the proxy at most once, also when it times out; refused
  parameters are never handled; "ok" is answered only for a handled request.
  `TenantKept`: the request goes out under the credential of its caller, and a
  probed key is used for nothing else. `ErrorsTell`: what an agent may conclude
  from an error. After a refusal, or when it withdrew a call that was still
  queued, repeating the call cannot repeat its effect; after a complaint of
  `verify_response`, or of `invoke_agent` and `test_prompt` about what came
  back, the call was handled. All other errors leave it open, which is the
  code's limit and not the model's.
* `CallsUseProbedClient`: in a process started by `main()` all unbound calls
  share the client whose probe the proxy did not refuse. `WindowCloses` and
  `NeverHandedNone` are what is left when another host mounts the server.
* `KeepsRowContract`: concurrent partial updates are atomic, touch only what
  they name, and happen at most once, however late; "ok" vouches for what the
  operation verifies, unless the echo holds the old value. `UpdatesCompose`: two
  agents overwrite each other only in columns that both named. `ColumnsTyped`:
  however a boolean is spelled, the row only holds values of its annotations.
* `CompleteOrTruncated`, `HonestTruncation`, `NothingMissedSilently`: the three
  places that cut an answer down say that they did.
* `IndexSound`, `RedirectsConverge`, `NothingLost`: colliding names never make
  an operation unreachable or a redirect loop. `SearchHonest`: what a search
  names can be called, and what no other function shadows is named.
* `ServedOnce`, `NothingElseServed`: the gate is sound. `RegenerationRepairs`
  says when its advice helps.
* `NoTagClash`, `VersionsFollowPushes`, `HeadReleased`: the concurrency group is
  enough for versions, whatever step fails.
* `IndexRecovers`: the index does lose versions, when its listing breaks off
  (section 6), and in no other way (`LossNeedsACut`, proved); the deployment of
  a whole listing links everything again that was ever linked.
* `EmittedRuns`, `RequestConforms`, `ArgumentsArrive`: no parameter hides a
  local or an import of the emitted function, whatever names an endpoint shares
  with the template; what is passed arrives where the endpoint wants it.

`TypeOK` is checked by TLC for the two modules at the core, and proved there;
the other proofs have a type invariant of their own where they need one.

### Fairness

* `ToolCalls`: `Spec` has `LoopFairness` only, because a ready task of an
  asyncio loop runs. `InlineAnswered` needs no more: help is answered while
  every worker hangs. `CallsEnd` has `WorkerFairness` as its premise: threads
  are scheduled, and httpx bounds every wait for a byte of an answer.
* `PromptStream`: weak fairness of the operation's thread (`Open`, `Line` or
  `Leave`); a stream has at most `MaxLines` lines. A stream of comment lines
  without end keeps the code reading for ever, and the bound excludes it.
* `Release`: weak fairness of each run's steps (the runner works on); nobody has
  to push, and the API may never list a release.
* The other specifications are safety only.

Deadlock is checked in every run. A system that may rest has an explicit step
for it (`Quiet`, `Stopped`, `Ended`, `Rest`).

## 4. Proofs

Eight modules have proofs, for every value of the constants under the
assumptions stated with them.

**ClientResolutionProofs.** "The window closes" is not inductive: a thread is
harmless because of where it stands. `Shape` ties each thread's position to what
it may have built and what it is about to return; `Startup` ties the phase of a
process behind `main()` to the main thread's position and to the probe. `IInv ==
TypeOK /\ Shape /\ BoundCallsStayOut /\ (Prewarmed => Startup)` gives
`NeverHandedNone`, `WindowCloses`, `CallsUseProbedClient` and, beyond the run's
properties, `BoundCallsStayOut`, `PrewarmedSingleton` and `GlobalsSettle`.

**ToolCallsProofs.** That a call is handled at most once depends on where it is,
and its position means something only when one worker runs it. `Held` and
`Queued` say that workers and queue entries are unique, `Wire` what a position
says about the request on the wire, and `Truthful` where an "ok" or a complaint
comes from. `ErrorsTellThm` and `TenantKeptThm` follow from these.
`KeepsContractThm` maps every step to a step of `CallContract` or to a stutter.
It and `OkMeansHandledThm` assume `RefusalsAreErrors`: a proxy that does not
handle a request answers with a status of 400 or above. Without it they are
false, as `calls_redirect` shows.

**RowWritesProofs.** A body is exactly what the agent passed (`BodyIsParams`),
so a column changes only to what a sent call passed for it, and that call's
parameters stay a witness for ever (`Written`). An echo lacks what was dropped
(`Echoed`), so a passed verification vouches for its columns (`Vouched`),
whatever else the endpoint leaves out of its echo. `ColumnsTypedThm` carries the
types of the model through the body into the row. `KeepsRowContractThm` maps
`Send`, `Apply` and `Verify` to `Ask`, `Update` and `Succeed`; that `Succeed` is
enabled is what `Vouched` says.

**RegistryProofs.** Every entry of a group is a function of that group with that
name (`Collected`), no function walked is missing (`Walked`), a table is made of
its group's entries (`Tabled`). Of the names that share an operation the one
with the last place exists (`HasLargest`, by well-foundedness). The index names
tables that hold the operation, and every operation of a table is in it, perhaps
for another group: that is what redirects and searches need.

**ExecuteProofs**, the stream. The text of a result is defined by a recursive
function of the lines. The invariant says that there is a function with its
defining equation for the lines read so far whose last value is the text
(`Textual`); a line extends it (`TextExtends`), and by a smallest counterexample
two such functions are equal (`FullTextIs`). `Marking` says what ended the loop.

**ExecuteProofs**, the agent. The state is simple (`AgentInv`: a success is the
`Outcome` of a result the agent sent); the work is in what the walk computes.
`bound_a2a` is a recursive function by CHOOSE, so first it must be shown to have
its equation: every document has a rank above what is below it, one level of the
walk asks for lower ranks only (`OneLevel`), so a function for the first n ranks
extends to one more (`WalkExists`, `WalkIs`). After that:

* `HonestTruncationThm`: a document of which nothing was cut is returned as it
  is (`NothingCut`, by the least rank of a counterexample).
* `NothingOversizedThm`: bounded documents, lists of them and the counts are
  closed under going down (`BelowBounded`), and each is modest.
* `OmissionsCountedThm`: a document and what it is bounded to account for each
  other (`AccountsBounded`), and what corresponds below such a couple are
  couples (`BesideCouple`). The properties speak of the levels 0..Depth;
  `WithinIsAll` and `PairsAreAll` show that these are all levels, so nothing
  deeper escapes them.

The assumption on documents (`AgentAssumption`) is that JSON is finite: a rank
falls on the way down. Nothing is assumed of `Chars`.

**HelpersProofs**, the echo. `Way`, the documents on the way down a path, is
again shown to be what its equation says (`WayIs`). The walk visits paths in any
order, so the invariant cannot say what was compared so far; it says of every
path that was sent and is not skipped that the echo holds it, or hides it under
a value that is no dict, or that a prefix of it is still to be visited
(`Covered`). What is to be visited was reached through dicts of the echo
(`Reached`), which is why a missing key named by the error is really missing.
`PassMeansEchoedThm` and `NamesTheDropThm` hold for documents of any depth.

**HelpersProofs**, listings. `CutsCounted` is not inductive: it says nothing
between two pages. `Tally` counts at every control point up to the `Position` in
the listing that was read, `Turning` says that the agent only turns to pages
that exist and stops after the last. What the filter takes of a page adds to
what it took of the pages before (`PageAdds`), by the counting lemmas on
`Matching` (`MatchingIsMatched`); the ids of a new page are new, so sizes of
sets add up (`ShapeCounts`). Then "nothing missed without a mark" is that a set
of ids has as many elements as the set it is a part of exactly when the two are
equal.

**PipelineProofs**, the release. The tag and the version are read and written in
two steps, and so are the listing and the deployment. `Group` says that one run
is active, one waits, and the waiting one is later than all that were ever
active; `Tags` says that the version which the active run has read off the tags
is still the next. `Index` says that what was ever linked is listed, and that a
run about to deploy a listing that was whole when it was read still has all of
it: `IndexRecoversThm`. `LossNeedsACut` is the converse, for every step: the
index keeps its versions, or the step deploys a listing that broke off.

**PipelineProofs**, the gate. In a tree in sync, the only file that can define
an operation is the one of its module (`DefinersInSync`); with the two
directions of the override check this gives `ServedOnce`, `NothingElseServed`
and `EndpointsServed`. `RegenerationRepairsThm` follows from the step alone.

**OperationTemplateProofs.** The collected parameters of an endpoint are
described name by name (`NamesByKind`, `NamesUnique`), for any sets of names,
groups and symbols. What the statements refer to is a local or an import
(`ReferencesCovered`), and none of it is the name of an accepted parameter
(`NothingHidden`); the inductive invariant says that what is emitted was
collected and accepted, and that a request is a call's.

Only model-checked: liveness (`CallsEnd`, `InlineAnswered`, `Terminates`,
`HeadReleased`), which is out of the prover's reach, as is ENABLED. Every
invariant and action property of a run that holds is proved. The `kinds` of a
`Stub` are only a set turned into a sequence: no property is about their order.

## 5. Not modelled

* `_compact` and the error texts, their redaction included: formatting of text.
* Help and JSON Schema texts, and which functions contain a search: any set may
  (Registry). That they are answered on the loop is in ToolCalls.
* pydantic's own conversions: a type is the set of values it accepts.
* `map_type` of the generator (JSON Schema to Python types). Of module headers,
  that they import what the functions use, not how.
* What is nested in a column of a row (ListPages); the timeout argument of
  `health`.
* `codegen/annotations.py` and the data in general: that there is a decision,
  not what it says. `dev.py` and the setup page have no state.
* Tools that are plain functions (`litellm_version`): the SDK runs them in its
  own thread; the request is the startup probe's.

## 6. Where code and documents disagree

Checked as a violated property (`calls_redirect`): httpx follows no redirect and
`_request` takes every status below 400 for a success. A 3xx answer with an
empty body becomes `None`, which `verify_response` accepts, so a write that was
never handled is answered as done; `README.md:164` says "a partial write cannot
pass unnoticed". The startup probe has the same hole.

Seen while modelling; the models have the code's behaviour, the properties state
what does hold:

* `tools/helpers.py:54` speaks of "the module singleton". Behind `main()` there
  is one; in a process that mounts the server the first calls may build several
  (`PrewarmedSingleton` is conditional for that reason).
* `tools/overrides.py:385` says `truncated=true` "past the cap"; the test is
  `>=`, so a complete answer of exactly the cap's length is marked. The mark is
  never missing (`CompleteOrTruncated`).
* `tools/helpers.py:34` says "a nested drop always raises"; the walk stops where
  the received value is no dict, and what was sent below it is not looked for
  (`HidesUnderLeaf` in `PassMeansEchoed`).
* `README.md:163` says "a silently dropped field raises"; keys are compared and
  values are not, so an echo with the old value passes (`Stale` in RowWrites).
* `tools/overrides.py:568` calls the stub a backstop for the size; it lists
  every kind in full and may exceed the cap itself.
* `ci.yml:101` says "poll until it appears"; after five polls the index is
  deployed all the same, so a run may end well without its version in the index.
* `ci.yml:109` pipes `gh api` into the loop that writes the index, under `bash
  -e` without `pipefail`. When the request fails or breaks off, the step goes
  on, and an empty or partial index is deployed by a run that ends well. `List`
  has this; versions are lost in this way only, until the next whole listing
  (`IndexRecovers`). `README.md` of the repository has `uvx` install from this
  index, and no document says that it is complete.
* `codegen/generate.py:244` puts UNSET into a function's imports when a
  parameter is optional, while `generate.py:297` refers to it for every body
  field. A module all of whose body fields are required would lack it; the
  modules that there are import it for other operations (`Ambient`). The
  `frozenset` of the skip form is no reserved name either; no parameter of the
  snapshot is called so.
* `server.py:370` says that other groups are named "when the local match set is
  empty"; they are always named. Of groups that share an operation name only the
  last one is (`SearchHonest` claims the others for unshared names only).
* An error body that is not valid UTF-8 leaves `_request` as a
  `UnicodeDecodeError`; the handler replaces a `JSONDecodeError` only, so the
  status is lost ("unreadable" in ToolCalls).
* `codegen/check.py:189` advises to regenerate; that leaves the file of a
  dropped module in place, and the gate goes on failing (`RegenerationRepairs`).
* `registry.py:29` says "body construction drops UNSET"; an optional map body
  would be forwarded as the sentinel. No operation of the snapshot has one.

## 7. Plan

Done, in this order: HttpExchange, ClientResolution, ToolCalls with CallContract
and their proofs; PromptStream, Registry; WriteEcho, RowWrites and its proofs;
Release; CodegenGate and OperationTemplate with proofs; AgentInvocation;
ListPages. Then the credentials and the kinds of answers in ToolCalls;
ParamsModel and RowContract under RowWrites; search in Registry; the cost map in
ListPages; the proofs of Registry, Release and PromptStream.

Then the proofs of the helpers and of the agent's walk, for which WriteEcho,
ListPages and AgentInvocation were rewritten without RECURSIVE operators. Last,
listings that break off in Release, imported symbols and the forms of
verification in OperationTemplate, partial echoes in RowWrites, rows that are no
dicts in ListPages, complaints in ToolCalls, and imports that fail in Registry.

Left, to extend the models:

* RowWrites over two rows, for operations that address by an alias.
* The parameter models of nested objects, where coercion does not reach.
* An abstract release train that Release implements.

Left, to prove more:

* Release: that a run's tags are of its own commit, through the refinement of
  the abstract train.
* The summary of an agent's result names every kind (`Kinds` over `Within`) of
  the result itself, which `WithinIsAll` shows for bounded ones only.

# TLA+ models of raster-inference

This directory holds TLA+ models of the inference pipeline under `src/`, the TLC
configurations that check them, and proofs for TLAPS. The program runs a language
model as a *chain of stages* in deterministic fixed-point arithmetic. A **claim**
is a list of checkpoint hashes, one per stage; a **challenge** recomputes a claim,
finds the first stage at which it is wrong and replays that stage under the Raster
runtime. What has to be right is therefore not the arithmetic alone: which outputs
a stage reads, in which order checkpoints are compared, what is shared between
threads, and what is on disk when something fails.

All paths below are relative to the repository (`src/`).

## 1. Inventory

| Component | Code | State it keeps | Operations |
|---|---|---|---|
| Checkpointed chain runner | `crates/inference/staged/src/chain_runner.rs`, `executor.rs` | chain directory, committed outputs, output cache, execution times, last output, verifier | one stage in-process or as a command; a wave of `aux` stages in worker threads; observe a checkpoint; finish |
| In-memory weight caches | `staged/src/cache.rs`, `kernels/src/kernels/prefill_range.rs` | entries and eviction queue under one mutex, in-flight calls | look up, load without the lock, look again, evict, insert |
| Claim build | `cli/src/claim.rs`, `artifacts/src/claim.rs`, `artifacts/src/checkpoint.rs` | run directory, chain directory | prepare a run, run it, write trace, hashes, bundle |
| Challenge build | `cli/src/challenge.rs`, `artifacts/src/challenge.rs` | recomputed chain directory, replay directory, challenge artifacts | recompute, locate, refuse, seed, replay, compare, publish |
| Uncheckpointed chain runner | `staged/src/uncheckpointed.rs` | output cache, last output | the same loop, in memory only |
| Chain expansion | `model/import/src/main.rs` (templates), `chain_runner.rs` (`expand_chain_table`) | stages and exports so far | repeats, look-back bindings, exports |
| Prompt tokenizer | `kernels/src/kernels/prompt_prepare.rs`, `raster-stages/prompt-merge`, `raster-stages/prompt-prepare`, `crates/model/run-prep` | the token list between batches | ranked merges, eight a batch; how many batches a prompt needs |
| Decode loop, output finalization | `raster-stages/decode-init`, `decode-select-token`, `output-finalize`, `direct/src/executor.rs` | selected ids, pending bytes, stop flag | select a token, append, stop at a terminal token |
| Attention window, layer kernels | `raster-stages/prefill-range`, `kernels` | key/value cache of a layer | append, drop old rows, attend |
| Deterministic arithmetic | `crates/det-num` | none; within a head, the bounds of a root, scores, weights and accumulators | saturating and rounding operators, inverse root by bisection, softmax, wrapping accumulation, polynomial approximations |
| Model import and manifests | `crates/model/import`, `artifacts/src/manifest.rs` | model directory, manifests, digests | import, verified load |
| Direct runtime | `crates/inference/direct` | model, KV cache | a whole run in one process |
| Parity workflows | `cli/src/parity.rs`, `cli/src/parity/compare.rs`, `staged/src/parity.rs` | three traces | compare direct, staged and Raster results |
| Stage routines | `staged/src/routines`, `artifact_io.rs` | none | read the inputs of one stage, run its kernel, write its output |
| Weight file readers | `crates/model/detwgt` | none | parse a file |
| Command line | `crates/inference/cli/src/lib.rs` | none | dispatch |
| Scripts | `scripts/` | none | offline reference of the tokenizer |

External to the repository: `cargo raster chain run` (the Raster chain runner, used
for reference stages and replays) and the Raster runtime.

**How they interact.** `claim build` prepares a run (run manifest, prompt, number
of merge batches), executes it with the chain runner and publishes what the chain
directory holds. `challenge build` calls the same runner, for a claimed hash list
with a verifier inside it that stops the run, for a claimed trace without one and
compares afterwards. The runner executes stage routines in its own process, which
share the weight caches of the process, or starts a command; stages of one wave
are executed by worker threads and joined before anything is recorded. Stages
communicate through output files and a cache of decoded outputs that the runner's
thread owns. Every run has a fresh chain directory (time and process id).

**What is hard.** Jobs of a wave finish in any order, but are recorded in the
chain's; a divergence in the middle of a wave leaves outputs on disk that must not
count; the reference stage of a wave runs before its jobs; caches are read, left
unlocked during a load and written by several threads; four files that refer to
each other are published one by one; a claimed list may be shorter or longer than
the chain; tokenization and decoding are unrolled statically, and the number of
steps has to suffice. `PROJECT.json` lists each hazard at its line with the
properties that cover it.

**What makes each component correct.** Runner: a stage reads only committed
outputs; the reported divergence is the first one; nothing happens after it; no
stage runs twice; it ends. Caches: overlapping calls look like indivisible calls
of a bounded memo table. Challenge: accuses only a wrong claim, at its first wrong
stage; replays from exactly the stages before; publishes only confirmed and
complete artifacts. Claim: what is published describes one complete run.
Uncheckpointed runner: the same outputs as the checkpointed one. Tokenizer: the
batched merges are the unbounded ones, and the budget suffices. Decode loop:
unrolled and early-stopping loops give the same text and ids. Window: every key
that a query may see is still in the cache, at the place it is read from. Arithmetic: a
head's result is the weighted mean it stands for, whatever is rounded, saturated or
wrapped on the way, and in any order of the keys. Import: a
claim is bound to the model it was computed with. Gate: it passes exactly the runs
whose three paths are right.

## 2. Modules

| Module | Models | State |
|---|---|---|
| `ChainRunner` | `run_inner` and everything it calls, from an expanded chain to the returned run | `phase`, `mode` (chain, backend, reference stage, claim), `pos`, wave (`waveStart`, `waveEnd`, `workers`, `jobs`), `committed`, `cached`, `onDisk`, `timed`, verifier (`recomputed`, `divergence`), `lastOutput`, `selected`, `timesFile`, `error` |
| `HashVerification` | the abstract specification of verification: compare two lists of hashes one by one | `checked`, `verdict` |
| `ChainRunnerInvariant` | the inductive invariant of the runner, as a conjunction of named parts; the run `chain` evaluates its definitions | |
| `MaterializationCache` | `MaterializationCache::get_or_insert_with` and `PrefillRangeWeightCache::get_or_prepare` | `entries`, `order`, one call per thread |
| `FifoMemo` | the abstract specification of a cache: a bounded first-in-first-out memo table with atomic calls | |
| `ChallengeBuild` | `build_challenge`; extends `ChainRunner`, whose `Next` is its first phase | `claim`, `build`, `located`, `traceFile`, `seeded`, `replay`, `files` |
| `StagedRunProofs` | theorems about `ChainRunner`, on top of them about `ChallengeBuild`, and about `MaterializationCache` | |
| `RankedMerge` | the abstract specification of tokenization: merge the leftmost pair of least rank until nothing applies | `pieces`, `progress` |
| `PromptTokenizer` | `split_prompt`, the merge stages as kernels and as tiles, `prompt_prepare`, and the loop of the direct runtime | the characters left, `pieces`, the scan, rounds and batches used |
| `PromptTokenizerProofs` | theorems about `PromptTokenizer` | |
| `ChainTemplate` | the manifest that the importer writes for a model: stages, repeats, templates (operators only) | |
| `ChainExpansion` | `expand_chain_table`: from a manifest to a chain | `manifest`, the loop indexes, `exports`, `chain` |
| `DirectRun` | the direct runtime's loops over layers and tokens, and its diagnostics; extends `ChainExpansion`, whose chain it is compared with | `pass`, `layer`, `current`, `layerOutputs`, `priorLayers`, `logits`, `edge`, `required`, `records` |
| `StageValues` | the routine of each stage, what it reads and computes, and the conversions between cached values (operators only) | |
| `UncheckpointedRun` | the uncheckpointed runner; extends `ChainExpansion` | `infer`, `at`, `values`, `commitments`, `jobs`, `lastOutput`, `report`, `waves`, `staging` |
| `ParityGate` | inventory, comparison and verdict of a parity case; extends `DirectRun` | `deviation`, `verdict` |
| `InferRun` | the composition of expansion, uncheckpointed runner, direct runtime and gate | all of theirs |
| `ChainExpansionProofs`, `InferRunProofs` | theorems about the expansion and about what a run of any chain reads; then about runs of imported chains, the direct runtime and the parity gate | |
| `ModelIdentity` | full and direct-only imports, edits of the model's files, and the manifest | `bundle`, `template`, `manifest`, `importer` |
| `ClaimBuild` | `claim build` and the checks of a challenge before it executes anything; extends `ModelIdentity`, whose imports go on meanwhile | `claim`, `runManifest`, `prepared`, `published`, `challenge` |
| `ClaimBuildProofs` | theorems about `ClaimBuild` | |
| `GreedyDecoding` | the abstract specification of generation: take the first of the best scores, report the text up to the first terminal token | `scores`, `ids`, `output` |
| `DecodeLoop` | embedding, output head, selection, transcript and output, as kernels, tiles and in the direct runtime | the activations' place, `logits`, `page`, `scan`, `edge`, `fin`, `output` |
| `DecodeLoopProofs` | theorems about `DecodeLoop` | |
| `CausalAttention` | the abstract specification of the layers: every row attends to its window of the whole history | rows and keys of every layer |
| `LayerValues` | terms for numbers, products by rows and by pages (operators only) | |
| `LayerKernel`, `LayerView`, `LayerTiles` | one layer as native kernel, as the direct runtime's view kernel and as tiles (operators only) | |
| `LayerPass` | the layers of a generation, pass by pass, by either of the three | `pass`, `layer`, `prior`, `cache`, `ple`, the tiles' intermediate state |
| `DetNum` | fixed-point numbers and their operators, for words of any width (operators only) | |
| `HeadArithmetic` | the arithmetic of one attention head for one query, on top of `DetNum` | `low`, `high`, `scale`, `query`, `scores`, `weights`, `seen`, `acc`, `context` |
| `HeadArithmeticProofs` | lemmas about `DetNum`, theorems about `HeadArithmetic` | |
| `LayerPassProofs` | theorems about `LayerPass` | |
| `MC...` | constants for TLC: chains, claims, hashes, threads, keys | |

### ChainRunner

One action per step of the code that other steps can come between. `StartStage`
and `CompleteStage` are `run_one_stage` and `finish_stage` for a stage outside a
wave; `StartWave`, `LaunchJob`, `FinishJob`, `JoinPool`, `RecordResult` and
`EndWave` are `run_aux_wave`; `FailStage`, `FailJob` and `FailFile` are the error
paths; `FinishRun` is the end of `run_inner`. A hash is a model value; an honest
output of stage *i* is the value `StageHash[i]`, because execution is
deterministic. The constants are the set of expanded chains (producers of each
stage, which stages are `aux`), the claims, the back ends, the possible worker
numbers and the reference stages. Timing output, environment variables and paths
are left out, the chain directory is the set `onDisk`.

### MaterializationCache

A call is a small program per thread: `Lookup` (first locked section), `Load`
(unlocked), then `AdoptOther` or `Insert` (second locked section). A locked section
is one action, which the mutex justifies. Loads fail or panic in the unlocked part
only (`FailLoad`), so the mutex is never poisoned by a load.

### ChallengeBuild

The model starts when the claim has been loaded and the manifests compared. A
checkpoint is its stage and one hash that stands for its three commitment fields.
The stage names have an order of their own (`NameRank`), since a trace read from a
chain directory without `execution-times.json` is sorted by name. The replay is
the external Raster chain runner: it needs the producers of the stage in the
directory, returns an error or leaves a checkpoint that is, or is not, the
recomputed one. `BreakOff` is an I/O error or a crash between any two steps, with
the file being written torn.

### PromptTokenizer

A piece is a token (its text and its id) with the number of the segment it may be
merged in. `TakeSpecial`, `TakeKnown`, `TakeBytes`, `TakeUnknown` and `DropChar` are
the cases of `split_prompt`. The number of batches is fixed at `EndSplit`, as
`tokenizer_repeat_count` does when the run is prepared. A scan looks at one pair a
step, in the bucket that its hash selects (`ScanPair`), then `MergeBest`, or
`IdleRound` for tiles, which cannot stop early. `BeginStage` chooses who executes a
stage: the kernel, the tiles, or the direct loop, which has no budget. Text and ids
are not spelled out; matching the text of added tokens is left out.

### ChainTemplate, ChainExpansion, DirectRun

A stage name is a kind and two numbers (`decode_aux_t1_l2` is
`<<"decode_aux", 1, 2>>`), and a text of a template has a number, an index or the
value before an index in their places. `ManifestOf` is what the importer writes,
with the counts that `render_run_manifest` puts into the repeats. `PushStage`,
`PushRepeated`, `NextPart`, `NextIteration`, `EndRepeat` and `ResolveExports` are the
loops of the expansion, and `FailExpansion` its errors, which only manifests
written by hand meet.

`DirectRun` then runs `run_traced` for the same model. A value is represented by the
name of the boundary that computed it and a boundary's record by what it read:
execution is deterministic, so boundaries that read the same values under the same
parameters are equal. Of the two donors, only the one that the layer shares the
cache of counts as read (`attend_token`): before the boundary the two runtimes pass
different, unused values there. `ChainIsRunnable` says of imported chains what
`ChainRunner` calls `WellFormed` and needs for `OnlyStagesFail`.

### UncheckpointedRun, StageValues, ParityGate, InferRun

`UncheckpointedRun` is the loop of `run_uncheckpointed_chain`: `RunStage` for a stage
on its own; `PrepareWave`, `StartJob`, `FinishJob` and `JoinWave` for consecutive `aux`
stages; `StageFails`, `WaveFails`, `JobFails` with `AbortWave`, and `Kill` at any
point. The staging directory is there or not. A value has a type and fields, and a
field's content is the name of the stage that computed it; `Converted` is what the
cache hands to a stage that declares another type, and refuses. `InferReadsTheChain`
compares what a stage got with the bindings of its chain. Stages are deterministic,
so their commitment is their name.

`ParityGate` takes the boundaries of three directories (the Raster runner, the
checkpointed runner, the direct runtime), right or with one deviation in some of
them (a missing, additional, different or unreadable boundary), and says what
`check_inventory`, the comparisons and the donors' check make of them. `InferRun`
puts the modules side by side for one imported chain.

### ModelIdentity, ClaimBuild

A content stands for its hash. `EditBundle` replaces a file at any time;
`BeginImport`, `ReadFile`, `SaveTemplate`, `HashFile`, `WriteManifest` and `ImportDies`
are an import, which reads the files once for the template and again for the
hashes. A claim is a process of steps, `LoadModel` to `PublishBundle`, with a crash
between any two and a torn file behind it (`ClaimDies`), while `Others` (imports and
edits) go on; a challenge is another, which starts from what the claim has published. A process is
`disturbed` when the directory changes before it is done. The properties speak of
processes that were not: the code does not lock the directory
(see the hazard at `cli/src/claim.rs:249`).

### DecodeLoop

One action per stage, or per page, entry or token where a stage goes on chunk by
chunk: `EmbedPrompt`, `EmbedSelected`, `BeginHead`, `ScoreAll` (kernel, view) or
`ScorePage` (tile), `EndHead`, `ScanEntry`, `Select`, `ConsumeToken`, `FinishOutput`. A
table of rows is cut into pages of a number of values, which may cut a row in two:
tiles then count errors, the kernels of the embedding refuse, and that of the head joins
the pages. The transformer layers between embedding
and head appear as a choice of scores. Text is a sequence of pieces, UTF-8 has one
character of two bytes.

### LayerPass

A number is the term of the operations it was made by, over the weights, rows and
positions it depends on, so that equal terms are equal numbers whoever computed
them. `RunNative` is a whole layer as kernel or view; the tiles run step by step
(`ProjectToken`, `CarryChunk`, `BeginQuery`, `ScoreChunk`, `SoftmaxScores`,
`AccumulateChunk`, `NextList`, `FinishRow`, `EndLayer`), a failure being handed on in
the state as the tiles do. A matrix may be written in pages that cut its rows
(`torn`). Heads, normalisation and softmax themselves are not looked into; that is
`HeadArithmetic`.

### DetNum, HeadArithmetic

A number is its bit pattern. Width (`ActLimit`) and place of the point (`One`) are
constants, 2^31 and 2^16 in the program; an accumulator has twice the bits of an
activation and one more. `BeginRoot`, `Bisect` and `Settle` are `inv_sqrt_acc`,
one comparison a step; `Project` is `rms_norm` and `rope_rotate_pairs_in_place` of
the query, `Score` and `Accumulate` the work per key, `Softmax`
`attention_softmax_into` and `Finish` the one narrowing. The keys come in any order
in both sweeps: cached ones before new ones, chunk by chunk, and, as
`ops.rs:14-16` promises, in whatever order wrapping sums are combined. All keys of a
window are scored before `Softmax` (both implementations refuse otherwise, which
`LayerPass` shows). Sine and cosine are inputs.

The residual that makes the weights add up to 1.0 is as large as all their roundings
together, and falls on one weight: with 416 equal scores each of them is 158 of
65536 parts and the first one -34. The code promises nothing else, and all runtimes
share it, so the properties do not ask for weights of one sign; what they ask for
holds all the same.

### Faults

A definition marked *a faulty variant* is the definition after or before it with a
plausible mistake in it, and is used by no action. Each property is violated when
the variant named for it in `PROJECT.json` takes the place of the definition.

## 3. Runs

| Run | Instance | Shows |
|---|---|---|
| `chain` | six stages, five chains (one wave, two waves, an `aux` stage on its own, a wave that reads itself, a stage that reads a later one), both back ends, no reference stage or stage 1, 3 or 6, two workers; plain runs, and verifying runs against claimed lists that are honest, cut, extended, or wrong in one or two places with a foreign hash or another stage's | stages read only committed outputs, jobs stay in their pool, no stage runs twice, errors come from stages only, and the run ends; a verifying run's verdict is the first divergence of the two whole lists, nothing happens after it, and the runner implements `HashVerification` (a plain run gives no verdict) |
| `cache` | three threads, three keys, capacity 0, 1 or 2, four programs of calls, with calls that have no key and loads that fail | overlapping calls are calls of `FifoMemo` |
| `challenge` | two chains of four stages with a wave, lists and traces that are cut, extended, wrong or renamed, names that sort in another order than the chain, failures and crashes between any two steps | who is challenged, where, from which replay directory, and what is on disk afterwards |
| `challenge_refused` | the same with claimed lists | **violation**, see below |
| `tokenizer` | three profiles, prompts of up to five symbols over two characters, three over all five (with an added token), batches of two merges, three buckets, kernels and tiles in any mixture | the batches do the ranked merges of `RankedMerge`, they suffice, added tokens are never merged |
| `infer` | five models of up to six layers with no, two (in both orders) or too many donors, chains for 0, 1 and 2 tokens with 0 or 2 batches, direct runs of 0 to 3 tokens; ten manifests written by hand; a requested parallelism of 0 (none) or 2 on 1 or 3 processors; every deviation of one boundary in any of the three paths | imported manifests expand to runnable chains; the uncheckpointed runner hands every stage what its chain binds, and ends without leftovers; the direct runtime reads the same values, its diagnostics accept the trace of its own run and refuse that of another; the gate passes exactly the right cases |
| `one_donor` | models with one donor and with none | **violation**, see below |
| `decode` | five tokens (text, two bytes of a character, a special and a terminal one), every assignment of scores 0 and 1, rows of two values in pages of four, six and five, prompts of 0 to 2 tokens, budgets 0, 1 and 3 | generation implements `GreedyDecoding`, positions follow, only torn rows fail, and it ends |
| `layers` | models of two to five layers, sliding (window 2) and full, with and without donors, prompts of 0, 1, 3 and 5 tokens and up to four more passes, chunks of two keys, one or two threads, matrices of three rows, one of them in pages that cut rows or none | kernels, view kernels and tiles implement `CausalAttention`; caches are exactly the windows; only torn weights and empty prompts fail |
| `layers_unbound` | a sharing layer bound to a stage without a cache | **violation**, see below |
| `arithmetic` | words of five bits (1.0 is 4) and accumulators of ten, heads of two lanes, one pair rotated, windows of six keys; rows with mean squares of zero, less than a part, ordinary and saturated, without and with epsilon; equal, leading, opposite and extreme scores; keys in any order | the inverse root is the nearest one, weights are shares and add up to 1.0, the context is their exact weighted sum |
| `claims` | two files with two contents each, three edits and two imports at any time, one claim and one challenge, killed anywhere | claims are bound to their model; a challenge repeats exactly the claimed run or refuses |

The type invariants of runner, cache, challenge, tokenizer and decode loop are
conjuncts of the inductive invariants and proved there (section 4); the properties
of the cache that are about its state (`QueueMatchesEntries`, `AnswersOwnKey`,
`EntriesAreStable`) are proved as well, and the run checks `CallsAreAtomic`, which
implies what a caller sees of them.

**Why these bounds.** A divergence has a place before, in and after a wave, and
claims end before, at and after the end of the chain; two wrong places tell the
first divergence from another. Two workers and a wave of three jobs make a job wait.
Three threads and capacity one or two make a thread insert a key that two others
have loaded and evicted. A batch of two instead of eight merges makes a prompt of
five symbols need several batches, with full, partial and idle rounds. Three
tokens give the first, a middle and the last decode pass (the chain of two tokens has
a middle pass already, because the loop goes on after the last selection); two own
and two to three sharing layers per model give a layer whose donor is its neighbour
and one whose donor is not. A prompt of five tokens and four more passes fill a
window of two several times over, end within and at the end of a chunk, and make a
prompt shorter than, as long as and longer than the window. Three edits and two imports
bring a file back to its first content between two steps of a claim, with an import in
between that read it in another state, and leave one edit for another file.
Pages of four, six and five values over ten hold whole rows with and without a rest,
and half rows. Words of five bits leave room for every case of the arithmetic: roots
that saturate, are rounded up, down and to even; exponentials that vanish; six equal
scores, whose rounded shares exceed 1.0 by more than a weight, so that the first
weight becomes negative; values at both ends of their word. TLC's integers (32 bits)
allow no wider words there; the proofs are for all.

**Deadlock** is not checked where a run ends: `done` and `failed` states have no
successor, a claim may never be challenged, and edits and imports are bounded. That a
run does not stop earlier is `RunEnds`, `BuildEnds`, `TokenizationEnds` and
`GenerationEnds`, and for the cache the fair part of the refinement.

**Fairness.** The runner's own thread goes on with whatever it can do next, each
worker takes and finishes its jobs (a stage returns or fails; there is no timeout in
the code, so a kernel that loops forever is outside the model), and a scheduler
runs every thread of a cache again and again: weak fairness of the steps of each.
A generation is one sequential program: weak fairness of its next step. Nothing
forces a particular outcome: failures have no fairness of their own. `infer`,
`layers`, `arithmetic` and `claims` state safety only; a claim may be killed at any time.

**Findings.**
- `challenge_refused`: a claimed list that goes on after the last stage diverges,
  but `build_challenge` returns an error for it (`cli/src/challenge.rs:111`), where
  `docs/workflows/challenge-build.md` lists a missing recomputed hash among the
  reasons and says that a replay directory is seeded for a divergence.
- `one_donor`: `write_transformer_layers` binds the donors of every sharing layer to
  `prefill_range_l{donor}` also when there are fewer than two, so that the chain of
  a model with one donor names `prefill_range_l-3`, and the staged runner refuses it.
  More than two donors are refused at import; one or none are not, and decode
  templates and direct runtime both have a fallback for them.
- `layers_unbound`: the tiles find out that a key of a window was never scored, but
  hand the error on only with the first chunk of values, and a donor's cache without
  keys has no chunk (`raster-stages/prefill-range/src/lib.rs:686`): the layer publishes
  a row with a context of zeros. The comment at `lib.rs:597-601` says that every
  position of the window must have been scored and that it fails otherwise, naming a
  wrong donor binding; the kernel does fail. Imported chains do not bind donors so
  (`layers` has no such failure).

## 4. Proofs

Eight modules prove, for every value of the constants, the safety properties that
`PROJECT.json` lists. Each follows the same argument: an inductive invariant, one lemma
or step per action, and the properties as its consequences.

- **Runner** (`IInv`). The properties speak of commitments, checkpoints and the
  divergence; none is inductive alone, because what a step may do depends on where
  the runner is. `IInv` adds, per phase, which stages are done: `LoopInv` (everything
  before `next` is committed), `StageInv` (the stage in progress and its inputs),
  `PoolInv` (queued, running and finished jobs are disjoint and make up the wave),
  `RecordInv` (in what order results are recorded), `EndInv`, `FilesInv`, `OutputInv`
  (what a run leaves), `FailureInv` (which errors are left) and `VerifierInv` (every
  recomputed checkpoint agrees with the claim, except one that is the divergence).
  `RunnerImplementsVerification` maps every step to a step or a stutter of
  `HashVerification`, for plain runs (no verdict, whatever happens) and verifying ones.
- **Caches** (`CInv`). Queue and map are the same set without duplicates
  (`QueueInv`), every entry and every answer belongs to its key (`EntriesInv`,
  `AnswersInv`), and a call that loads has a key and a cache to put it in
  (`CallsInv`). `CacheImplementsMemo` is the step simulation to `FifoMemo`.
- **Tokenizer** (`TokenInv`). `BudgetSuffices` needs an account: each merge makes the
  list one piece shorter, so the merges that remain plus those done are at most the
  number of first pieces less one, and `BudgetInv` bounds them by the rounds that
  the remaining batches have. `KnownInv` says that every piece is in the
  vocabulary, which is why the final lookup cannot fail. `ScanIsBest` says that a
  scan through hash buckets holds the leftmost least match of the part it has seen.
  `SpecialsAlwaysSurvive` adds what splitting and merging keep of the segments:
  segments never decrease along the list, and each is the number that the symbols
  taken so far give (`PlaceInv`), so that an added token is alone in its segment
  (`SpecialInv`), and a merge needs two pieces of one.
- **Challenge** (`ChallengeInv`). The module's first phase is the runner's `Next`, so
  `IInv` and the theorem about the verdict carry over; once the run is over, none of
  its variables changes (`RunStays`). `PrefixInv` and `TimesInv` keep of the run what
  the later steps read: the trace is a prefix of the honest one, complete if the
  times file exists. `LocatedInv` says that `located` is the first difference of claim
  and trace, whether the verifier met it or it was searched for; `ChosenInv` and
  `SeedInv` what is copied and what is left out of the replay directory; `WrittenInv`
  in which order the files appear. That the trace read from a directory is in the
  chain's order needs a lemma about increasing sequences (`IncreasingIsIdentity`),
  and `OnlyHonestClaimsAgree` one about the first difference (`LocatedFirst`).
- **Claims** (`BuildInv`). `ManifestInv` says what a manifest knows of the import that
  wrote it (`ImporterInv` of one in progress), `PreparedInv` what a claim may have
  frozen, `PublishedInv` that artifacts appear in order and of one run, and
  `ChallengeInv` what a challenge has checked so far, for as long as nothing
  changes. `ClaimsAreBound` is a conjunct of it.
- **Decoding** (`DecodeInv`). `PositionInv` ties start and number of rows to the
  transcript; `HeadInv` counts: as long as no page had an error, the entries are those
  of all tokens in the pages before, so that after the last page every token has
  one; this is arithmetic of products, divisions and remainders (`PagesCover`,
  `ModMult`, `DivExact`). `ScanInv` says that the running best is the first of the best
  of the part it has seen. `SelectionsStayGreedy` follows: each selection is a step of
  `GreedyDecoding`, whoever scores and scans.
- **Arithmetic** (`HeadInv`). Lemmas about `DetNum` say what its operators return: a rounded
  quotient is within half of its divisor of the dividend (`Rounding`), clamped and
  wrapped values stay as they are if they fit, and how finite sums behave
  (`SumIsLinear`, `SumIsBounded`, `SumHoldsTerms`). The root needs the bounds of the
  bisection (`RootInv`): its product with `low` is at most the target, that with
  `high + 1` is more; products are monotone, so the nearest activation is one of the
  two neighbours that are left. Each rounded weight differs from its share by at most
  (One + 1) / (2 One), which is at most one part; this bounds the sum of all weights
  before correction by One + NumSlots, and so the residual and the corrected weight
  (`CorrectedWeights`, `CorrectedShares`). The absolute weights then add up to less
  than 2 ActLimit (`WeightInv`), a value is at most ActLimit, and so no partial sum, of
  any subset of the keys, leaves an accumulator: wrapping never happens
  (`ContextInv`). `BisectionComesToAnEnd` says that every comparison narrows the bounds.

- **Layers** (`LayerInv`, `RowInv`). First the values: a product of whole pages, or of
  chunks of rows, names every row of its matrix once (`TileIsWhole`, `NativeIsWhole`,
  from lemmas about quotients), so that kernels, tiles and the direct runtime make the
  same term of the same inputs, and a tile fails only in the matrix with torn pages. A
  cache is then an interval `Cache(l, first, next)` of keys that depend on layer and
  position alone. `LayerInv` says which interval each cache, carried list and key list
  is; the prior cache may reach further back than this pass sees (it began with the
  window of the *last* pass), so its start is existential (`PriorIs`). What a filter
  keeps of an interval is an interval (`KeysOfInterval`), and so chunk by chunk
  (`CarriedChunk`): `CachesStayWindows` follows. `RowInv` adds what the rows are.
  A sweep of a query through four lists, chunk by chunk, is
  summed up by one number, the position up to which its source was swept (`SweptAt`);
  a chunk moves it on (`SweepMoves`), the scores and the values gathered so far are a
  function of it (`ScoresMove`, `ValuesMove`), and at the end of both sweeps it is the end of the pass
  (`SweepEnds`), when the context is the promised one. A donor is an earlier layer
  whose attention type, and so whose window, is the borrower's (`DonorFacts`), which is
  why its cache is the interval that the borrower needs (`BoundDonorIs`).
  `LayersAttend` maps every step to one of `CausalAttention` or a stutter: native layers
  and the last tile of a layer are `Attend`, the end of a pass is `Embed`. Its
  hypothesis, that sharing layers are bound to the caches that the importer names, is
  that of the wiring, and it is needed: without it `IncompleteWindowsFail` is violated
  (`layers_unbound`), with it no window is ever incomplete (`ImportedWindowsAreWhole`).
- **Uncheckpointed runner** (`InferInv`). The store of a run holds what the stages before
  the cursor returned and nothing else (`StoreInv`), and what a stage has loaded stays
  what its chain binds (`LoadedInv`). A wave is the maximal interval of `aux` stages at
  the cursor (`RunIsInterval`), so no job reads what another of its wave returns, and
  the pool's jobs are queued, running or finished, each once (`WaveInv`). This holds of
  every chain, imported or not: `ReadsFromMemory`. `ReportInv` adds what is
  counted of the waves, and `EndInv` what is left when a run has ended.
- **Expansion** (`ImportInv`). The stages of a manifest have *places*: the item, and
  the iteration and part of a repeat. The cursor of the expansion is a place, places
  are ordered lexicographically, and each step moves it to the next one (`SingleStep`,
  `RepeatStep`, `PartStep`, `IterationStep`, `EndStep`). Names and places are one-to-one
  (`PromptNames`, `PrefillNames`, `DecodeNames`). `ImportInv` says that the chain is made
  of exactly the names before the cursor, in that order, each bound as its template
  says (`ListedPushes`), and which exports exist. Every name a stage is bound to precedes
  it (`EveryNameFollows`), so nothing fails and `ChainIsRunnable` holds of the result
  (`ImportedChainsRun`). The hypothesis `DonorsBound` (no sharing layers, or two donors)
  is needed: `one_donor` shows an import with one donor, whose chain cannot be run.
- **Runs of imported chains** (`CauseInv`). On top of both: each name's wiring is made of
  the fields that its routine takes, of a type that converts (`NameFits`), and the
  sources of the stage in turn, or of any job of a wave, lie before the cursor
  (`ImportedLoads`). So only a kernel can fail, and `RunsEndCleanly` follows with
  `ReportInv`.
- **Direct runtime** (`DirectInv`). Each boundary has a turn (pass, place in the pass,
  layer), and turns are again ordered (`TurnsFollow`). The records are exactly the
  boundaries before the current turn; the loop variables are the caches of this pass and
  of the pass before, by layer, the activations of the layer below and the last
  selection. What a boundary reads is then what the wiring of its name gives
  (`ChainReadsAre`, `KeysAreTheSame`), and `DirectRunReadsTheSame` follows, for runs of
  different length too. Names tell the number of tokens and batches
  (`NamesTellTheRun`), so a trace is refused exactly if it is of another run. The
  boundaries are closed under what the output needs (`ClosedBoundaries`), hence
  `DirectRunIsComplete`.
- **Parity gate** (`BundleInv`, `VerdictInv`). `check_inventory` expects a list of names
  that it writes down itself, while the chain comes out of the templates. Both are
  compared position by position: `ListAt` says what stands at the i-th place of the list,
  by division by the eleven stages of a pass (`StagedNamesAre`), and the expanded chain
  has the same names at the same places, since no two names share a place
  (`ChainIsTheList`). The direct runtime's records are those of the list that it makes
  (`JudgedRecords`). Then each kind of deviation is seen or not, path by path
  (`DeviatingStaged`, `DeviatingRead`, `VerdictIs`). `VerdictInv` carries the verdict
  through the runs that go on beside the gate. `GateSeesWhatIsWrong` needs no
  `DonorsBound`: the gate's model has two donors, and of other models it is silent.

Assumptions, all checked by TLC on the instances: `ChainRunnerAssumption` (chains
have the shape they are declared with; workers are positive), `ChallengeAssumption`
(names are ordered, claims are lists of checkpoints), `CacheAssumption`,
`IdentityAssumption` (files have contents; a missing file is not a torn one),
`ExpansionAssumption` (models are ones that the importer accepts, counts are natural
numbers), `DirectAssumption` and `ParallelismAssumption` (so are the counts of a direct
run and a requested parallelism; there is at least one processor),
`PassAssumption` and `LayoutAssumption` (windows, chunks, pages and matrices are not
empty, models are ones that the importer accepts, and a page that is not torn holds whole
rows), `DecodeAssumption` (rows and pages are not empty, scores are integers, every token
has a row in the decoder's table), `WidthAssumption` (1.0 fits in an activation, its
square in an accumulator's fraction), `HeadAssumption` (inputs have the head's shape,
and the window has fewer keys than ActLimit - One, 2^31 - 2^16 in the program),
`ExpAssumption` (the exponential of a difference of activations lies between 0 and
1.0, and is 1.0 for zero; TLC evaluates it for all differences of the instance. For
the program's words it is not proved, but only the 2^20 differences above -16.0 give
anything but zero, and evaluating the same formula for each of them confirms it), and `TokenizerAssumption`, which states what
`validate_tokenizer_profile` and the bucketing of run preparation ensure: the tokens
of all merge rules, the added tokens and the unknown token are in the vocabulary.

Only model-checked: liveness (`RunEnds`, `DivergenceIsReported`, `BuildEnds`,
`TokenizationEnds`, `GenerationEnds`) and the fair parts of the refinements, which are
out of the prover's reach; the text that decoding reports (the
last step of `IsGreedyDecoding`), which is defined by concatenation over data of any
length. The theorems about imported chains and about the direct runtime have the
hypothesis `DonorsBound` above (that about the gate has none), and `LayersAttend` its own;
the others need none beyond the assumptions.

## 5. Not modelled, and the plan

Not modelled:
- The rest of the arithmetic: the angles of the rotation (roots and sine and cosine by
  polynomials), `tanh`, GELU and soft caps, and the conversion of floats. They are
  approximations without state, whose only contract is their own bits. `LayerPass` has
  terms for all numbers instead.
- Weight file readers and stage I/O (parsing with range checks, no state between
  calls), the command line and the scripts.
- Partial imports, which rewrite weight files and renew no identity; a verified load
  refuses what they leave, as after any other edit.
- `corrupt_checkpoint_hashes`, which makes wrong hash lists for demonstrations
  (`ChallengeBuild` takes any list), and `validate_case` with the files of a parity suite.
- The text of prompts and added tokens, TOML syntax and paths.
- A change of the model directory between its verification and the freezing of the
  run (`cli/src/claim.rs:249`) is modelled, but promises nothing: no lock guards it.

What is left, in this order:

1. The writing of the weight files by an import, with partial imports.
2. The polynomials of `det-num` on words of a few bits, and `ExpAssumption` as a theorem.

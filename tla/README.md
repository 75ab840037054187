# cc-vrf in TLA+

cc-vrf lets an operator publish an ECVRF key on Solana, freeze it, and commit
proofs under it, so that anybody can later check that the operator's random
values were determined by the key and the inputs.  This directory models the
on-chain program, the TypeScript SDK and the applications on top of it, checks
them with TLC, and proves with TLAPS the safety of all of them: the program and
its refinement, the SDK's calls, scan and verification, ECVRF and its streams,
the command line, the wallet demo and the website's forms.

## The system

| component | state it keeps | operations | hard behaviour | what makes it correct |
|---|---|---|---|---|
| on-chain program `programs/cc-vrf` | none of its own: compressed accounts (leaves of a Light state tree, an address tree), and log events | `init_authority`, `freeze_authority`, `revoke_authority`, `commit_proof`, `commit_proof_with_beta`, `commit_proof_event` | the caller supplies the record it claims to be current and the place it lives: snapshots are stale or forged, leaves are spent | one current version per account, a key that cannot change, one registry commit per memo, no commit under an unfrozen or revoked authority |
| SDK builders `packages/vrf-client/src/operations.ts`, `light.ts` | none; a call holds a snapshot of the authority between awaits | six `build*Ix` functions | other calls land between the fetch, the validity proof and the execution; transactions expire; callers retry | what lands was checked off chain and stays true; a retry lands at most once |
| SDK event scan `findProofCommitEvents` | cursor, page, collected events | a paginated history scan, a lookup by signature | the wallet signs while its history is listed; fetches fail or come without logs; failed transactions keep their logs | nothing is missed without a cause, nothing is invented or reported twice |
| SDK verification `verifyEndToEnd.ts`, the fetch functions, `VerifyPage.tsx` | none; a consumer holds the authority it read while it reads the commit | `verifyEndToEnd`, `verifyAuthorityCommitEndToEnd`, `pickCanonicalCommit`, three fetches | the operator is not trusted and goes on acting between the two reads; a scan may miss events and its caller is not told | an accepted outcome is anchored on chain and the operator cannot choose it |
| ECVRF `packages/ecvrf` | none | key derivation, prove, verify, proof to hash | keys, proofs and nonces nobody's software made; zero scalars, points of small and mixed order | honest proofs verify, key and input determine Gamma, verification returns |
| stream expander `packages/ecvrf/src/expand.ts` | per stream its path, block index, buffer, offset | `nextBytes`, `nextU32`, `nextU64`, `nextFloat`, `nextRange`, `pick`, `shuffle`, `fork` | reads across block boundaries, rejection at range boundaries, signed bitwise operators, paths that spell the same bytes | bytes in order, no block shared between paths, values in range, unbiased draws and shuffles |
| dice-demo command line `apps/dice-demo` | `~/.cc-vrf-demo/state.json`; a batch its counters | init, freeze, revoke, three rolls, three verifications; simulate, simulate-event, cost | processes run concurrently without a lock, lose confirmations, die while writing; a batch goes on after failures | what the file says is true on chain; what a batch counts is too |
| website wallet demo `WalletDemo.tsx`, `AnchorProgram.ts` | wallet, key, label, phase, activity rows | connect, edit, regenerate, init + freeze, roll | the page is edited, and the wallet used elsewhere, while a promise runs; failed transactions count as confirmed | a roll marked "verified" is (the init + freeze row is marked so on confirmation alone) |
| website pages `App.tsx`, `LookupPage.tsx`, `VerifyPage.tsx`, `ClientDemo.tsx` | the route, a form with its result, the client demo's key and rolls | navigate, deep links, edit, select a cluster, submit, regenerate, roll | a page is left, edited or switched to another cluster while its requests run | what is shown is of the last submission and true where it was asked |
| website content, test-vector tool | none | none | none | not modelled, see below |

Commands, pages and verifiers call the SDK; the SDK reads the chain through two
RPC services (Photon for compressed accounts and validity proofs, the cluster
for history and submission) and hands instructions to a wallet; the program is
reached only through transactions.

## Modules

    CcVrf  <------------- CcVrfRefinement ---> CommitRegistry <--- DiceBatch
      ^
      |
    VrfChain ---> VrfMath            EventScan    VrfStream    Ecvrf    Website
      ^    ^
      |    +---- VrfClient <------+
      +---- Verification <---+    |
                  ^          +----+---- DiceDemo, WalletDemo
               Verifier

(arrows point from the module that EXTENDS or INSTANCEs to the one it uses;
each `MC*` module gives constants to the module it is named after.)  The proofs
of a module `M` are in `MProofs`, except that CcVrfProofs has those of CcVrf and
CcVrfRefinement, SdkProofs those of VrfClient and Verifier, and EcvrfProofs
those of Ecvrf and VrfStream, the two modules about `packages/ecvrf`:

    CcVrfProofs <--- SdkProofs <--- DiceDemoProofs, WalletDemoProofs
    EventScanProofs, WebsiteProofs, DiceBatchProofs, EcvrfProofs

**CcVrf** is the program.  `leaves` is every account version ever output,
`nullified` the positions that were consumed, `addresses` the addresses that
were created, `events` the log.  Each handler is one action with the handler's
arguments: `owner` is the signer, `current_authority` the claimed record,
`account_meta` the claimed leaf and address.  `LightInput`, `LightNewAddress`
and `LightOutput` are what the Light system program guarantees (external): an
input must be the exact unspent leaf, an address is created once.  A
transaction that a handler or the Light program rejects has no effect and is
not a step.  Hashes (`derive_address`, SHA-256) are injective constructors.
`Next` lets any signer claim any record for any leaf at any created address.

**CommitRegistry** is what the program promises, without trees or snapshots:
each operation acts on the current authority.  **CcVrfRefinement** reads the
abstract state off the unspent leaves; freeze, revoke and commit under a stale
claim must be impossible for the refinement to hold.

**VrfChain** fixes the hashes that users put into the program; **VrfMath**
models proofs by what decides verification: the Gamma point and the nonce
behind (c, s).  A pair made from any nonce and the right Gamma verifies, a pair
made from nothing does not, and beta is a function of Gamma.  **Ecvrf** looks
behind that: seeds, clamping, scalars, points with their cofactor, the hash to
the curve with its counter, the encodings and the order of the checks, with
each use of SHA-512 a random oracle.  The group is cyclic of `COFACTOR *
CURVE_ORDER` elements, a point is a number and `fromBytes` accepts the numbers
below the group's size.  `SuiteAssumption` states what the suite's numbers
satisfy, the primality of `CURVE_ORDER` among it; the powers of the radix and
the little-endian decoding are recursive functions.
`HonestProofsVerify` and `GammaIsDetermined` are what VrfMath assumes of
proofs; a proof that answers a single challenge was guessed, which
`GammaIsDetermined` leaves out as the real challenges have 2^128 values.

**VrfClient** runs SDK calls concurrently.  A call is idle, then `fetched`
(it holds the position of the authority leaf it read), then `submitted` (it got
a validity proof in the state at that time), then landed, rejected or expired;
it throws where the code throws.  Executing an instruction is the action of
CcVrf itself, with the snapshot as `current_authority`.

**Verification** holds the fetch functions and the verdict as operators over the
chain; **Verifier** runs consumers (a read, an arbitrary delay, a second read
and the verdict) against an operator that commits any hashes of the inputs,
memos and proofs (`MadeProofs`) there are. Decoding is modelled by its effect:
`fetchProofCommit` ignores the discriminator, so a record with beta decodes with
a slot taken from beta's bytes (`SlotInBeta`), and `fetchProofCommitWithBeta`
throws on a short record. `verifyAuthorityCommitEndToEnd` takes the expected
label as an option: the command line and the wallet demo give it, the verify
page does not. In event mode the second read sees any subset of the events
(`Scans`): that is what EventScan's results amount to, since
`fetchProofCommitEvents` drops what the scan said of its completeness. Fetched
events are positions in the log, so that "the first candidate" of
`pickCanonicalCommit` is the least position; the order of the list is
EventScan's subject.

**EventScan** is `findProofCommitEvents` await by await.  A signature is a
position in the wallet's history; a log is a sequence of entries of which only
the match with the requested memo is kept; the node answers with a
transaction, with one without logs, or not at all.  `Matches` is the loop over
the entries of a log, a recursive function over their number.

**VrfStream** is the expander with all its sizes as constants: the streams of
one beta, opened under the same path, forked, or opened under other paths at
any time.  SHA-512 is an arbitrary function, drawn where it is first asked.  The
loops of the code (the parts of a path, the copying of `nextBytes`, the
widening of the mask, the swaps of a shuffle) are recursive functions of the
number of their iterations, and a bitwise operator acts on the set of a word's
bits (`Bits`) and returns a signed word (`Signed`).

**DiceDemo** is the command line over VrfClient and Verification: commands load
the file, generate or use a key, run one SDK call, and save.  `file` is a set:
empty for no file and for one that does not parse, which `loadState` treats
alike.  **DiceBatch** has the batch commands, which run many rolls: a process
with its loops and counters, the transactions it waits for, the wallet's
balance (`paid`) and the memos in the file.  It stands on CommitRegistry, which
the program implements, because no batch looks at more of the chain.  Memos are
taken to be unique, though the code makes them of `Date.now()` and a counter:
two processes in the same iteration of the same millisecond could share one.
With unique memos `cmdVerifyEvent` finds the recorded event whenever the scan
finds any of the memo, so that its `process.exit(1)` (`commands.ts:430`) is not
reached and not modelled.

**WalletDemo** is the page: `page[p].op` is the promise of a click with
everything it captured; the SDK call inside it is one of `Calls`.  **Website**
has the other pages: `url` is the hash, `page` the state of the mounted page,
which a change of the path discards; a form's `requests` are the event handlers
in flight, each with the endpoint and claim it captured.  Two clusters carry an
operator each; what makes a claim genuine is Verifier's subject, and here a set.

## Runs

| run | instance | shows |
|---|---|---|
| `program` | 2 signers, 2 keys, 2 address trees, 2 suites, 5 leaves, 1 event, 2 slots | the invariants and action properties of CcVrf, and that it implements CommitRegistry |
| `scan` | pages of 2, limit 3, histories up to 4, logs with none, one or two events | misses have a cause, only commitments are returned, no event twice, order between transactions, termination |
| `verifier` | 1 label, 2 keys, 2 inputs, 2 nonces, 4 leaves, 2 events, all three modes, scans that read any of the events | accepted outcomes are anchored, one registry outcome per memo, one beta per input although one input has several valid proofs, nothing later displaces what was accepted |
| `verifier_garbage` | 1 authority, up to 2 events, complete scans | a statement of the documentation that does not hold (finding) |
| `client` | 4 concurrent calls, 2 keys, a supported and an unsupported suite | commits verify, landed calls took effect, retries land once, calls end |
| `stream` | bytes of 1 bit, words of 3 bytes, blocks of 2, 4 blocks, 2 streams, paths that concatenate alike | byte order, disjoint paths, lack of bias for ranges up to half of the words |
| `stream_wide` | all ranges the code accepts | values below the range (finding) |
| `demo` | 4 concurrent commands, 2 keys, 2 memos, lost confirmations, torn writes, deletions | the file's key and rolls are true on chain |
| `batch` | a simulation of two rolls, in either mode, or a cost run of one roll per mode, beside a simulation of one roll; revoke, lost confirmations | counted rolls are on chain, costs are exact when undisturbed, batches end |
| `wallet` | 1 page, 4 calls, 2 labels, 2 keys, another client | verified rolls are anchored, the page does not stay busy |
| `website` | 2 clusters, 2 claims of which one is genuine, deep links with and without cluster and endpoint, malformed input | results belong to the last submission and are true, loading ends, the client demo's rolls can be repeated |
| `ecvrf` | 10 points, subgroup of 5, 4 challenges, all seeds, nonces, keys and proofs | honest proofs verify, Gamma is determined, verification does not throw |

**Why the bounds are enough.** In `program` five leaves hold an init, a freeze,
a revoke and two commits in any order, or two authorities and a commit; a second
owner and tree give foreign claims; two slots separate a commit from its
authority's creation. Conflicts in the code are between two versions of one
account or two uses of one address, which two signers and one memo exercise; the
proofs drop the bounds altogether. In `scan` a limit of three with pages of two
makes a full and a partial page, and four transactions exceed the limit by one,
and can arrive between any two awaits. In `verifier` the four leaves allow init,
freeze, commit and revoke, and two events give an order to garbage and real. The
operator makes four proofs (`MCMadeProofs`): two of one key and input with
different nonces, one of the other input and one of the other key. A registry
commit and the events of its memo can thus hold two valid proofs of one input,
and the other two are valid for what was not asked. That more than one proof is
accepted there is what the mutants of `OneBetaPerAlpha` show: a beta of the
whole proof, and a key taken from the proof, are both found at fault. A second
label is in `wallet` only; the theorems of SdkProofs cover any number of labels.
In `client` and `demo` four calls are an init, a freeze, a commit and a racing
fourth. In `stream` a word spans blocks at every offset, ranges are a power of
two, one more and one less, and two streams are all that can disagree or
collide. In `ecvrf` the sizes keep the relations of the real suite
(`SuiteAssumption`: a challenge is below the order, a clamped scalar below eight
times it), the cofactor and the order are coprime, and every scalar, point and
challenge occurs, 0 included. In `website` one request can be in flight when the
page is edited, switched or left and the next one is sent. In `batch` a loop of
two has a roll after a failed one, and two processes overwrite each other's
file. `MaxSlot`, `MaxLeaves`, `MaxEvents`, `MaxHistory`, `MaxBlocks`,
`MaxStreams`, `Calls`, `PageCap`, `Candidates`, `MadeKeys` and `MadeProofs` (of
Ecvrf, and of Verifier) are the only bounds; they are guards of the actions that
would exceed them, or the sets that inputs come from, which is why the runs do
not check deadlock.

**Fairness.**  `EventScan` assumes WF of a scan's continuations: the event loop
runs the continuation of an RPC request, and every request settles, with an
answer or an error.  `VrfClient` assumes WF of each call's progress: requests
settle, and a submitted transaction is executed or its blockhash expires.
`WalletDemo` adds that a user who is asked to sign does so or refuses.
`Website` assumes WF of the answers to a mounted page, and `DiceBatch` WF of
each process: a request settles, a confirmation arrives or times out.  Nothing
else is fair: wallets need not sign, operators need not commit, starting a call
is never required.

**Mutants.**  Definitions marked "Mutant" stand beside the definition they
change.  Each property is violated when the mutant listed for it in
PROJECT.json replaces its original.

## Proofs

A theorem holds for every value of the constants that the named assumptions
allow: any sets of signers, keys, labels, hashes, processes, consumers, calls,
pages or clusters, any group, any sizes of words and blocks, any bound.  The assumptions are the ones TLC evaluates in the
runs.  Each module proves an inductive invariant first (`Init => Inv` and
`Inv /\ [Next]_vars => Inv'`, with a lemma per action) and takes the properties
from it.

**CcVrfProofs**, from `ConstantsAssumption` (the suite and the tree are among
the values, the bounds are natural numbers).  `InductiveInvariant` is
`Spec => []IndInv`; from it `TypeCorrect`, `AccountsAreSingle`,
`AuthoritiesAtTheirSeeds`, `CommitmentsAreAnchored`, `RegistryIsWriteOnce`, and
the action properties `KeysArePermanent`, `RevocationIsFinal`,
`CommitmentsStay`.  `OneCommitPerMemo` is not inductive: it says nothing of the
addresses, and the program checks addresses only.  `IndInv` ties each leaf's
address to its data (`AuthorityAtItsSeeds`, `CommitAtItsSeeds`) and each
created address to exactly one unspent leaf (`OneLiveLeaf`); then an address
that can be created once is a record that can be written once.
`CommitsRestOnFrozenAuthority` needs the same uniqueness: the frozen record
that the commit was checked against is the only version there is, and freezing
is never undone.  The shared steps (appending a leaf, replacing an authority,
reading one) are lemmas of their own, and so is what later modules build on: a
current record has a later version after every step (`HasLaterVersion`) and is
the only one (`OneCurrent`), a record at an unspent leaf can be claimed
(`CurrentClaim`), and old leaves stay (`LeavesKept`).

It also has the refinement, `ProgramImplementsRegistry`: the specification of
the program implements CommitRegistry.  Under `IndInv`, creating an account adds
one record to the abstract state and nothing else, because its address is new
and addresses determine names; freeze and revoke exchange one record, because
the consumed leaf was the only one of its authority; a commit and a log entry
leave the authorities alone, and read one that is current, frozen and not
revoked.

**EventScanProofs**, from `ScanAssumption`: `ScanInvariant`,
`NoEventReportedTwice`, `EventsInOrder`, `ScansReportOnlyCommitted` and
`MissesHaveACause`, for any page size, limit, history and timing of new
transactions.  The invariant is about a window: what was listed is
`before..horizon` without a gap, the page holds its oldest part, what is
reported is of signatures above the page (`ReportsFetched`), and each such
signature is either reported in full or noted as unfetched or without logs
(`AccountsForFetched`).  New signatures arrive above the horizon, so they
change nothing of it; that the cursor, and not an offset, selects the next page
is what the step of `FetchPage` uses.

**SdkProofs**, about Verifier, from `ConstantsAssumption`, `HashesAssumption` and
`VerifierAssumption` (the modes are among the three there are, and what the
operator makes are proofs):
`VerifierInvariant`, `AcceptedIsAnchoredHolds`, `RegistrySettlesOutcome`,
`OneBetaPerInput` and `AcceptanceStays`, for any operator, any number of
consumers, and scans that miss anything. A consumer reads twice, and the
operator acts in between. What it read first is a version of which a later one
is current (`FetchedSound`), and verification looks at nothing of it that a
later version lacks, but the revocation; what it accepted stays supported by
the chain (`DoneSound`, `Supported`), because commitments are permanent. Two
supported requests for one memo in the registry then rest on one leaf.

The same module about VrfClient, from `ConstantsAssumption` and `HashesAssumption`:
`ClientInvariant`, `SdkCommitmentsVerify`, `LandedCallsTookEffect` and
`RetriesLandOnce`, for any number of calls with any inputs. Between fetch and
fate a call holds a leaf that passed the builder's checks; leaves are never
rewritten, so it still does (`Built`). A transaction that lands is a step of
the program (`LandIsProgram`), its snapshot is the current record, and what it
did (`Effect`) is undone by no later step. `SdkCommitsVerify` follows for the
new commitment from the builder's checks and for the old ones from
`KeysArePermanent`.

**DiceDemoProofs**, from these and `DemoAssumption`: `DemoInvariant`,
`SavedKeyOnChain` and `RecordedRollsAreValid`, for any number of processes and
keys and all faults.  A state that was read from the file, however old, is true
of the chain (`StateSound`): its key is the authority's, and each of its rolls
was proved with that key and has the effect of a landed call.  A process holds
such a state (`HeldBy`), so what it writes back is true too, whatever was
written meanwhile.  That the verify commands accept a roll then follows from
the chain: there is one authority record and one leaf at the commit's address,
or one first log entry with the proof's hash, and the SDK committed the hash of
the roll's memo with it.  No assumption says that an honest proof verifies:
that a roll's proof does is what the builder checked.

**WalletDemoProofs**, from `ConstantsAssumption`, `HashesAssumption` and
`WalletAssumption`: `WalletInvariant` and `VerifiedRollsAnchored`, for any
number of pages, wallets and labels.  The invariant has the program's `IndInv`,
what SdkProofs knows of calls in flight (`CallsInv`), and for every page what
its promise captured at the click (`Captured`), what it read between its two
reads (`Read`: the authority has a later version on chain) and that each row
shown as verified is anchored (`Shown`).  Confirmation says nothing, as failed
transactions count as confirmed: a row becomes verified by `verifyEndToEnd`
only, which sees an authority and a leaf at the commit's address, and `IndInv`
makes that leaf the only one there, with the hash of this roll's proof.  Rows
stay true because commitments, keys and the frozen flag do.

**WebsiteProofs**, from `WebsiteAssumption`: `SiteInvariant`, `ShownIsLatest`,
`ShownHolds`, `RollsReproduce`, for any clusters, claims and links.  A form has
one request in flight at most, which is of the latest submission (`FormInv`),
because the submit button is off while it loads and a page that is left takes
its form along.

**DiceBatchProofs**, from `BatchAssumption`: `BatchInvariant`, `CountedHolds`,
`CostHolds`, for any number of concurrent batches of any length and any prices.
Only memos of begun iterations are on chain or pending (`OnlyBegun`), a memo
lands at most once (`ChainInv`), and counters are compared with the landed
memos by cardinality (`Counted`).  For the price, `Priced` bounds what was paid
since a loop began by the landed commits of the loop, and `Exact` says what was
paid when no other process runs and nothing failed.

**EcvrfProofs**, about Ecvrf, from `SuiteAssumption`: `EcvrfInvariant`,
`HonestProofsAccepted`, `GammaDetermined` and `VerificationIsTotal`, for any
group of a prime order times a smaller cofactor, any radix and any lengths of
the encodings.  The invariant's heart is `ProvenInv`, of a proof that `proveVRF`
made: it passes every gate of `verifyVRF`, and the challenge that the verifier
will ask for again is answered already, with the one in the proof.  It rests on
three groups of lemmas: division by a fixed number; encodings, which decode to
what was encoded because a number below a power of the radix has one
representation (by least elements); and the group, where the points of the
subgroup are the multiples of the cofactor, so that in `s = k + c * x` the
reduction by the order is invisible to them and `c * x` cancels
(`ResponseCancels`), whence the verifier's U and V are the prover's.
`GammaIsDetermined` is soundness: two answers for the same U and V give
`(c1 - c2) * (Gamma - y * H)` of the subgroup equal to zero, and as the order
is prime and larger than every challenge, Gamma is `y * H` (`TwoAnswers`).  No
key or proof makes verification throw because every multiplication is by a
scalar in range, or is skipped when it is 0.

The same module about VrfStream, from `StreamAssumption`: `StreamInvariant`,
`BytesOrdered`, `PathsApart`, `DrawsAreUnbiased` and `ShufflesAreUnbiased`, for
any lengths of bytes, words, blocks and arrays, any paths and any calls on any
number of streams.

- A loop is proved to be what its iterations make of its start (`RunExists`,
  `RunsAgree`), which identifies each recursive function of the model.
- `StreamInv` says of every stream that its buffer is the last block of its path
  (`Buffered`), that what it handed out is as long as its position in the
  blocks, and that it equals them byte by byte (`InOrder`).  A read keeps it:
  each iteration copies at least one byte, so the loop ends with exactly `n`,
  and the inputs that `Needed` names are all that it hashes
  (`NeededSupplies`, `NextBytesReads`); other streams are untouched, and a hash
  once drawn stays.
- `PathsApart`: an encoded path is read back label by label, each length first,
  so `encodePath` is injective (`EncodePathInjective`), and with the block index
  so is `BlockInput`.
- `DrawsAreUnbiased`: the widening reaches every bit below the top bit of
  `range - 1` (`MaskForm`), so a candidate is the residue of the word by a power
  of two that is at least the range (`CandidateForm`), and every residue has
  equally many words (`ResidueCount`, a bijection).  Its hypothesis is that
  ranges are at most half of the words: above that the candidate is negative for
  half of the words, the finding of `stream_wide`.
- `ShufflesAreUnbiased`, under the same hypothesis on the array's length: a
  position that was swapped is not touched again (`Settled`), so two different
  choices of partners differ in the array at the position where they first
  differ (`ShuffleInjective`).  The invariant `ChosenInv` says that partners in
  progress are in their ranges.

Induction over data is done through least elements (`LeastNatural`: a nonempty
set of naturals has one, from the library's well-founded induction), because
the provers cannot instantiate the induction theorems, which take an operator;
that `Matches` is the loop of the code for logs of every length, and all that
is said above of recursive functions, is proved that way.

Every safety property of the passing runs is proved.  Only model-checked are:

- all liveness (`ScanEnds`, `CallsEnd`, `BusyEnds`, `LoadingEnds`,
  `BatchEnds`): fairness and ENABLED are beyond the prover;
- the two findings, whose runs are counterexamples.

Not claimed by any theorem: that a draw ends (the probability that no word is
accepted is not zero), and that the words themselves are uniform, which is
SHA-512's to provide.

## Findings

Two runs end in a violation on purpose; each quotes a sentence of the
repository that the code does not keep (details in PROJECT.json).

- `stream_wide`: `nextRange` returns values below its lower bound for ranges
  above 2^31 (`expand.ts:138`, a signed `&`);
- `verifier_garbage`: a first event with the right proof hash and a wrong alpha
  hash hides the valid one (`verifyEndToEnd.ts:148-150`).

The models show further behaviour that a reader of the code should know and
that no run carries.

Events and verification:

- the holder of a key can make several valid proofs for one input, with other
  nonces than the prescribed one (`verify.ts:64`), and log them all, where
  `README.md:106` has "exactly one valid 80-byte proof per `(pk, alpha)`"; they
  share one beta (`OneBetaPerAlpha`, `GammaIsDetermined`);
- two events of one transaction come back newest first (`operations.ts:619`);
- a lookup by signature also returns events of a failed transaction
  (`operations.ts:580-587`), and a transaction without log messages is not
  listed as unfetched (`operations.ts:545`);
- the verify page and `verify-event` report the absence of events, or of a
  match, on scans that may have missed them (`operations.ts:642`);
- after a revocation historical proofs no longer verify
  (`verifyEndToEnd.ts:235`), whereas `state.rs:10-12` has them valid;
- `fetchProofCommit` returns a record with beta as if it had none, with a wrong
  slot (`operations.ts:156`);
- a repeated event sets `multipleVerifying` (`verifyEndToEnd.ts:153`).

ECVRF: a nonce of 0, of which the comment at `prove.ts:34` says that it "would
produce U=V=identity", makes `proveVRF` throw, as the library's `multiply`
refuses it; its chance is about 2^-252.

Command line:

- two rolls at a time overwrite each other's record (`commands.ts:164`), and
  the overwritten one cannot be verified: `verify` throws;
- `verify` looks for a registry commit whatever mode was recorded
  (`commands.ts:190`);
- after deleting the state file as the message advises, `init` with the default
  label is refused for good (`commands.ts:48`);
- `simulate` counts a roll whose verdict is INVALID as passed: `cmdVerify`
  prints the verdict and returns (`commands.ts:485-487`).

Website:

- of an authority that is not frozen the lookup page says "(pk can still change;
  not yet frozen)" (`LookupPage.tsx:247-249`), but no handler changes the key of
  an authority, frozen or not, and its address is taken for good:
  `KeyIsPermanent`, which is proved, covers unfrozen authorities too.  What
  freezing changes is that commits are accepted;
- a page of the wallet demo whose init failed on chain goes on to freeze the
  authority that another client created and reports it as its own
  (`AnchorProgram.ts:60-63`);
- a result does not change when another cluster is selected, but the cluster
  named next to it does: the text "No authority found ... on" and the links to
  the explorer use the selected cluster, not the one that was queried
  (`LookupPage.tsx:168-169`, `VerifyPage.tsx:389`);
- a second deep link, followed on the verify page itself, changes the hash but
  neither the form nor the result (`VerifyPage.tsx:173-177`).

## Not modelled

- The field arithmetic of Edwards25519, SHA-2 and the test vectors: Ecvrf keeps
  the group laws, the cofactor and the checks, and takes the hash for a random
  oracle.
- Borsh layouts and length checks of byte arguments: values have no lengths.
- Compute budgets, proof sizes, Light's Merkle roots and their expiry.
- An RPC node whose index lags behind the cluster: what a call reads is as old
  as in a call that read earlier and waited, which the models have.
- `status` of the command line, which only prints; the website's static pages
  (registry, events, landing text) and styling; the test-vector generator,
  which the system does not call.

## Plan

1. Done: CcVrf with its proofs, CommitRegistry and the refinement, EventScan,
   Verification on any scan, Verifier, VrfClient, VrfStream, Ecvrf, DiceDemo,
   DiceBatch, WalletDemo, Website.
2. Done: the proofs above, of the safety properties of every module.
3. Possible next steps: the static pages and `status`, should they come to hold
   state; a node whose index lags behind, as an adversary of the SDK's reads;
   the test vectors, as inputs of a run, should the arithmetic be modelled.

----------------------------- MODULE VrfStream -----------------------------
(***************************************************************************)
(* vrfStream (packages/ecvrf/src/expand.ts): the streams of one beta, each *)
(* under a path, expanded into bytes, words, integers of a range, floats   *)
(* and shuffled arrays.  Each call goes on where the last one on its       *)
(* stream stopped, in the middle of a block or not, and forks open further *)
(* streams at any time.  SHA-512 is an arbitrary function, drawn at each   *)
(* new input.                                                              *)
(***************************************************************************)
EXTENDS Integers, Sequences, SequencesExt, FiniteSets, Functions

CONSTANTS
    ByteBits,       \* bits of a byte (8)
    WordBytes,      \* bytes of nextU32 (4)
    BlockBytes,     \* HASH_LEN (64)
    Mantissa,       \* bits of a float (53)
    Paths, Forks,   \* arguments of vrfStream and of fork: sequences of labels,
                    \* a label being the sequence of its UTF-8 bytes
    ByteCounts,     \* arguments of nextBytes
    Ranges,         \* values of maxExclusive - minInclusive
    Mins,           \* values of minInclusive
    Size,           \* length of the arrays that are shuffled or picked from
    MaxBlocks,      \* bound of the model: blocks hashed
    MaxStreams      \* bound of the model: streams opened

W == ByteBits * WordBytes

TwoPower[n \in Nat] == IF n = 0 THEN 1 ELSE 2 * TwoPower[n - 1]

Byte == 0..TwoPower[ByteBits] - 1

ASSUME StreamAssumption ==
    /\ ByteBits \in Nat \ {0} /\ WordBytes \in Nat \ {0}
    /\ BlockBytes \in Nat \ {0} /\ Size \in Nat \ {0}
    /\ Mantissa \in 0..2 * W
    /\ MaxBlocks \in Nat /\ MaxStreams \in Nat
    /\ Paths \cup Forks \subseteq Seq(Seq(Byte))
    /\ ByteCounts \subseteq Nat
    /\ Ranges \subseteq 1..TwoPower[W]     \* the bounds that nextRange does not reject

VARIABLES
    sha512,     \* the blocks of the inputs hashed so far
    streams,    \* sequence of the streams: path, blockIndex, buf, bufOffset
    given,      \* per stream, every byte handed out (ghost)
    call        \* the nextRange or shuffle in progress, or the last result

streamVars == <<sha512, streams, given, call>>

-----------------------------------------------------------------------------
(* Blocks.                                                                 *)

\* Fixed-width numbers are one symbol of an input.
u32be(n) == <<n>>
u64be(n) == <<n>>

\* Mutant: the labels are joined without their lengths.
encodePathJoined(path) == u32be(Len(path)) \o FlattenSeq(path)

encodePath(path) ==
    LET parts[k \in 0..Len(path)] ==
            IF k = 0 THEN u32be(Len(path))
            ELSE parts[k - 1] \o u32be(Len(path[k])) \o path[k]
    IN  parts[Len(path)]

\* The input of block i, after the tag and beta, which all streams share.
BlockInput(path, i) == encodePath(path) \o u64be(i)

vrfStream(path) ==
    [path |-> path, blockIndex |-> 0, buf |-> <<>>, bufOffset |-> 0]

\* The hash function is a parameter: a step extends it.
refill(s, hash) ==
    [s EXCEPT !.buf = hash[BlockInput(s.path, s.blockIndex)],
              !.bufOffset = 0, !.blockIndex = @ + 1]

-----------------------------------------------------------------------------
(* Bytes.                                                                  *)

\* From a stream with bytes left: as many as the call still wants, or there are.
Copy(s, n, out) ==
    LET left == Len(s.buf) - s.bufOffset
        take == IF n - Len(out) < left THEN n - Len(out) ELSE left
    IN  [s |-> [s EXCEPT !.bufOffset = @ + take],
         out |-> out \o SubSeq(s.buf, s.bufOffset + 1, s.bufOffset + take)]

\* Mutant: what a block has left is dropped when it is too short for the call.
CopyOrRefillDropping(s, n, out, hash) ==
    Copy(IF Len(s.buf) - s.bufOffset < n - Len(out) THEN refill(s, hash) ELSE s,
         n, out)

\* An iteration of the loop of nextBytes.
CopyOrRefill(s, n, out, hash) ==
    Copy(IF s.bufOffset >= Len(s.buf) THEN refill(s, hash) ELSE s, n, out)

\* The stream after the call, and the bytes the call returns.  An iteration
\* copies a byte at least, so the loop ends within n of them.
nextBytes(s, n, hash) ==
    LET after[k \in 0..n] ==
            IF k = 0 THEN [s |-> s, out |-> <<>>]
            ELSE IF Len(after[k - 1].out) < n
            THEN CopyOrRefill(after[k - 1].s, n, after[k - 1].out, hash)
            ELSE after[k - 1]
    IN  after[n]

\* The inputs that reading n bytes hashes.
Needed(s, n) ==
    LET missing == n - (Len(s.buf) - s.bufOffset)
        blocks == (missing + BlockBytes - 1) \div BlockBytes
    IN  {BlockInput(s.path, s.blockIndex + k) : k \in 0..blocks - 1}

\* What nextBytes(n) on stream i may do: the hashes after it, the stream, the
\* bytes.
Reads(i, n) ==
    LET fresh == Needed(streams[i], n) \ DOMAIN sha512
        known == DOMAIN sha512 \cup fresh
        answers == IF Cardinality(known) > MaxBlocks THEN {}
                   ELSE [fresh -> [1..BlockBytes -> Byte]]
        hashes == {[input \in known |-> IF input \in fresh THEN drawn[input]
                                         ELSE sha512[input]] : drawn \in answers}
    IN  {[hash |-> hash, read |-> nextBytes(streams[i], n, hash)] : hash \in hashes}

\* It does it.
Take(i, r) ==
    /\ sha512' = r.hash
    /\ streams' = [streams EXCEPT ![i] = r.read.s]
    /\ given' = [given EXCEPT ![i] = @ \o r.read.out]

\* Big-endian and unsigned.
Word(bytes) == FoldLeft(LAMBDA v, b : v * TwoPower[ByteBits] + b, 0, bytes)

\* The numerator of nextFloat over 2^Mantissa: the top bits of nextU64.
FloatOf(u64) == u64 \div TwoPower[2 * W - Mantissa]

-----------------------------------------------------------------------------
(* Ranges.                                                                 *)

\* The bits of a word, and the word of some bits.
Bits(word) == {k \in 0..W - 1 : (word \div TwoPower[k]) % 2 = 1}

Number(bits) ==
    LET upTo[k \in 0..W] ==
            IF k = 0 THEN 0
            ELSE upTo[k - 1] + (IF k - 1 \in bits THEN TwoPower[k - 1] ELSE 0)
    IN  upTo[W]

\* A bitwise operator of the language returns a signed word.
Signed(x) == IF x >= TwoPower[W - 1] THEN x - TwoPower[W] ELSE x

\* mask |= mask >>> 1, >>> 2, >>> 4, ... up to half the width.
Mask(range) ==
    LET mask[i \in 0..W] ==
            IF i = 0 THEN Bits(range - 1)
            ELSE IF TwoPower[i - 1] < W
            THEN mask[i - 1]
                 \cup {k \in 0..W - 1 : k + TwoPower[i - 1] \in mask[i - 1]}
            ELSE mask[i - 1]
    IN  mask[W]

\* Mutant: reduction instead of rejection.
Remainder(word, range) == word % range

Candidate(word, range) == Signed(Number(Bits(word) \cap Mask(range)))

Accepts(v, range) == v < range

-----------------------------------------------------------------------------
(* Fisher-Yates: the position i that is swapped next runs down to 2.       *)

\* Mutant: the partner is drawn from the whole array.
PartnersAll(i) == 1..Size

Partners(i) == 1..i

Swap(arr, i, j) == [arr EXCEPT ![i] = arr[j], ![j] = arr[i]]

\* The array after the partners js were swapped in, first with position Size.
Shuffled(js) ==
    LET arr[k \in 0..Len(js)] ==
            IF k = 0 THEN [i \in 1..Size |-> i]
            ELSE Swap(arr[k - 1], Size + 1 - k, js[k])
    IN  arr[Len(js)]

-----------------------------------------------------------------------------
NoCall == [kind |-> "none"]

\* A call runs to its end before the caller makes the next one.
Idle == call.kind \notin {"range", "shuffle"}

StreamInit ==
    /\ sha512 = <<>>
    /\ streams = <<>>
    /\ given = <<>>
    /\ call = NoCall

\* A stream of the beta: the operator's, or a verifier's under the same path.
Open(path) ==
    /\ Idle
    /\ Len(streams) < MaxStreams
    /\ streams' = Append(streams, vrfStream(path))
    /\ given' = Append(given, <<>>)
    /\ call' = NoCall
    /\ UNCHANGED sha512

fork(i, labels) == Open(streams[i].path \o labels)

NextBytes(i, n) ==
    /\ Idle
    /\ \E r \in Reads(i, n) : Take(i, r)
    /\ call' = NoCall

\* nextU64 and nextFloat: one read of two words.
NextFloat(i) ==
    /\ Idle
    /\ \E r \in Reads(i, 2 * WordBytes) :
          /\ Take(i, r)
          /\ call' = [kind |-> "float", value |-> FloatOf(Word(r.read.out))]

\* nextRange, up to its loop.
StartRange(i, min, range) ==
    /\ Idle
    /\ call' = [kind |-> "range", on |-> i, min |-> min, range |-> range]
    /\ UNCHANGED <<sha512, streams, given>>

\* pick: the index of the element.
Pick(i) == StartRange(i, 0, Size)

\* An iteration of the loop, with a nextU32.
Draw ==
    /\ call.kind = "range"
    /\ \E r \in Reads(call.on, WordBytes) :
          /\ Take(call.on, r)
          /\ LET v == Candidate(Word(r.read.out), call.range)
             IN  call' = IF Accepts(v, call.range)
                         THEN [kind |-> "value", min |-> call.min,
                               range |-> call.range, value |-> call.min + v]
                         ELSE call

StartShuffle(i) ==
    /\ Idle
    /\ call' = [kind |-> "shuffle", on |-> i, partners |-> <<>>]
    /\ UNCHANGED <<sha512, streams, given>>

\* An iteration of the nextRange that draws the partner of a position; the
\* ranges of a shuffle are the numbers of partners.
DrawPartner ==
    /\ call.kind = "shuffle"
    /\ Len(call.partners) < Size - 1
    /\ \E r \in Reads(call.on, WordBytes) :
          /\ Take(call.on, r)
          /\ LET range == Cardinality(Partners(Size - Len(call.partners)))
                 v == Candidate(Word(r.read.out), range)
             IN  call' = IF Accepts(v, range)
                         THEN [call EXCEPT !.partners = Append(@, v + 1)]
                         ELSE call

FinishShuffle ==
    /\ call.kind = "shuffle"
    /\ Len(call.partners) = Size - 1
    /\ call' = [kind |-> "array", arr |-> Shuffled(call.partners)]
    /\ UNCHANGED <<sha512, streams, given>>

StreamNext ==
    \/ \E path \in Paths : Open(path)
    \/ \E i \in DOMAIN streams :
        \/ \E labels \in Forks : fork(i, labels)
        \/ \E n \in ByteCounts : NextBytes(i, n)
        \/ NextFloat(i)
        \/ \E min \in Mins, range \in Ranges : StartRange(i, min, range)
        \/ Pick(i)
        \/ StartShuffle(i)
    \/ Draw
    \/ DrawPartner
    \/ FinishShuffle

StreamSpec == StreamInit /\ [][StreamNext]_streamVars

-----------------------------------------------------------------------------
(* Properties.                                                             *)

\* The byte at a position of the blocks of a path, which are laid end to end.
ByteAt(path, position) ==
    sha512[BlockInput(path, position \div BlockBytes)][(position % BlockBytes) + 1]

\* Whatever calls are made on whichever streams, in whatever sizes, the bytes a
\* stream hands out are the blocks of its path in order: none is skipped,
\* repeated or lost at a block boundary or by a fork, so a verifier that opens
\* the same path and makes the same calls reads the same values (expand.ts:17-19).
BytesInOrder ==
    \A i \in DOMAIN streams :
        LET s == streams[i]
        IN  /\ \A k \in DOMAIN given[i] : given[i][k] = ByteAt(s.path, k - 1)
            /\ s.blockIndex * BlockBytes - (Len(s.buf) - s.bufOffset)
                  = Len(given[i])

\* Streams under different paths share no block: "distinct path arrays never
\* collide" (expand.ts:14), however their labels are cut.
PathsDoNotCollide ==
    \A i, j \in DOMAIN streams : streams[i].path # streams[j].path =>
        {BlockInput(streams[i].path, k) : k \in 0..streams[i].blockIndex}
        \cap {BlockInput(streams[j].path, k) : k \in 0..streams[j].blockIndex}
            = {}

\* "Unbiased integer in [min, max)" (packages/ecvrf/README.md:103), its bounds.
ValueInRange ==
    call.kind = "value" => call.value \in call.min..(call.min + call.range - 1)

\* The same sentence, its distribution: over all words, every integer of the
\* range in progress is drawn equally often, and none out of it is.
DrawsUnbiased ==
    call.kind = "range" =>
        LET drawn == [word \in 0..TwoPower[W] - 1 |-> Candidate(word, call.range)]
            accepted == {word \in DOMAIN drawn : Accepts(drawn[word], call.range)}
        IN  /\ {drawn[word] : word \in accepted} = 0..call.range - 1
            /\ \A v \in 0..call.range - 1 :
                  Cardinality({word \in accepted : drawn[word] = v}) * call.range
                      = Cardinality(accepted)

\* A shuffled array is reached by exactly one choice of partners, of as many
\* choices as there are permutations: with unbiased draws every permutation is
\* equally likely (packages/ecvrf/README.md:106).
PartnerChoices ==
    {js \in [1..Size - 1 -> 1..Size] :
        \A k \in 1..Size - 1 : js[k] \in Partners(Size + 1 - k)}

ShuffleUnbiased ==
    call.kind = "array" =>
        /\ {call.arr[i] : i \in 1..Size} = 1..Size
        /\ Cardinality({js \in PartnerChoices : Shuffled(js) = call.arr}) = 1
=============================================================================

# Bitcoin Key Generator: specifications, model checking and proofs

The program draws private keys at random, derives the addresses of each, and
looks them up in a database of funded addresses. What is found is printed and
appended to a log. This directory holds TLA+ models of it, TLC configurations
that check them on small instances, and TLAPS proofs that hold for every value
of the constants. The models reach from the threads of the search down to the
limbs of the library it multiplies with. Line numbers refer to the files under
`src/`.

    tlc -config MC_KeySearch_safety.cfg MC_KeySearch     # one run
    tlapm KeySearchProofs.tla                            # one proof module

## 1. The system

### Components

| component | source | state | operations |
|---|---|---|---|
| search driver | `app_search.js` | `keysProcessed`, the promises of the workers, the timer | `init`, `processKeys`, `finish`; handlers of "message", "error", "exit" |
| worker task | `worker_task.js` | the current batch, the loop indices, the open database | draw a batch, derive its addresses, look them up, test a batch with a hit key by key, log, post a message |
| log files | `util/log_util.js` | `logs/`, `log.txt`, `log_error.txt` | `initializeLogs` (every thread that loads the file), `log`, `logError` |
| database wrapper | `RocksDB.js` | the database | `open`, `close`, `put`, `get` (no caller), `getMany`, `createFromFile` |
| database loader | `app_database.js` | none | one call of `createFromFile` |
| native addon | `secp256k1.cc` | the global pointer `bmul` | `PublicKeyCreateInit`, `PublicKeyCreateFinish`, `PublicKeyCreateFastBatch` |
| batched public keys | `secp256k1_batch_impl.h`, `secp256k1_fe_inv_all_var` of `field_impl.h` | a scratch per call | the public keys of a batch with one field inversion |
| multiplication table | `ecmult_big_impl.h` | the table, read-only once built | `secp256k1_ecmult_big_create`, `secp256k1_ecmult_big` |
| address derivation | `util/bitcoin_util.js` | none | `getAddressArray`, Base58, Bech32 |
| SHA-256 | `util/sha256.js` | module globals `ihash`, `count`, `buffer` | init, update, final |
| key display | `Bitcoin.js`, `app_display.js` | none | prints the forms of one key: WIF, addresses, BIP39 words |
| field arithmetic | `field_5x52*.h`, `field_10x26_impl.h`, `field_impl.h` | none | limbs with magnitudes, in C and in assembler; inverse and root by addition chains |
| scalar arithmetic | `scalar_4x64_impl.h`, `scalar_8x32_impl.h`, `scalar_impl.h` | none | limbs modulo the order, in C and in assembler; the split by lambda |
| group operations | `group_impl.h` | none | additions and doublings, batches, tables over one Z |
| multiplication | `ecmult_impl.h`, `ecmult_gen_impl.h`, `ecmult_const_impl.h` | tables and blinding of a context | wNAF, comb, constant-time multiplication |
| ECDSA, keys, modules | `secp256k1.c`, `ecdsa_impl.h`, `eckey_impl.h`, `modules/` | the context of a caller | contexts, tweaks, signatures, recovery, ECDH, Schnorr, DER |
| hash of the library | `hash_impl.h` | the hash in progress | SHA-256 in pieces, HMAC, the nonces of RFC 6979 |
| DER parsers of contrib | `contrib/` | none | lax signatures, export and import of a key |

### How they interact

The main thread loads `log_util.js` (and so creates the log files), builds the
native table, starts one thread per worker and waits for a promise of each. A
worker runs its batches and posts a message after each; its `getAddressArray`
is a native call that reads the table through `bmul`, without a lock. Messages,
"error" and "exit" reach the main thread through its event loop, in an order
nobody fixes: an error is two events, both of which resolve the promise, and
messages may still be in the port when a worker stops. When every promise is
resolved the main thread frees the table and prints its totals. All threads
append to the same log, and every one of them runs `initializeLogs`, which
asks for a file and creates it in two steps.

The search reaches the library through one call, the batch of public keys:
`ecmult_big` adds points of its table, and everything below it is field and
scalar arithmetic. The rest of the library, its contexts, signatures and
encodings, is built and linked into the addon. Its bindings for contexts, tweaks,
single public keys and the forms of a signature are live (`ContextRandomize`,
`PrivateKeyTweakAdd`, `PublicKeyConvert`, `SignatureNormalize`, ...), though no code
of this program calls them; the bodies of six others are commented out
(`PrivateKeyNegate`, `PublicKeyNegate`, `ECDSASign`, `ECDSAVerify`, `ECDSARecover`,
`ECDH`). `Bitcoin.js` is a program of its own, which prints for one key
what `bitcoin_util.js` computes for a batch, with the curve of Node's `crypto`.

Apart from that the loader fills the database: one put for each line, none of
them awaited, all of them carried out by a thread pool.

### What is hard, and what makes each part correct

| component | what is hard | what makes it correct |
|---|---|---|
| search driver | events of several workers in any order; two events for one failure, and a handler that may itself throw; the last messages; the table freed at the end | the table outlives its readers, the totals are exact, the search ends |
| worker task | two passes over a batch, failure at every await and every append | each funded key that was tested is in the log once |
| log files | check-then-create in every thread | no line is ever lost |
| database loader | unawaited puts, failures after the promise is resolved, crashes, reruns | a run that ends of itself has loaded its list |
| batched public keys | packed and unpacked indices, two backward loops, uninitialised scratch | each output belongs to its own key |
| multiplication table | a shorter last row, signed digits with a carry, the width of `int` | no index leaves the table, the product is right |
| SHA-256, encodings | padding to one block or two, sums never reduced, sizes from a logarithm | equal to the standard function; each address belongs to its own key |
| field and scalar limbs | carries out of the last limb, the values between the modulus and the power of two, sums close to the width of an integer | the limbs are the number, after any calls in a row |
| points | equal, opposite and infinite operands, the slope 0/0, magnitudes that nobody checks in the build that is shipped | the result is the sum, and no magnitude exceeds its bound |
| multiplication | carries between digits, the length of the digit arrays, a table over one Z, the blinding value and its point | every product is right for every scalar |
| keys and signatures | two codes for the two halves of a pair, abscissas above the order, the parity in a recid | halves stay halves, what is signed is verified and recovered, what is not is refused |

`PROJECT.json` lists the hazards at their lines, with the property for each.

## 2. The modules

| module | models | kind |
|---|---|---|
| `KeySearch` | search driver, workers, log files, native pointer | state machine |
| `SearchContract` | what a search promises to its user | abstract specification |
| `AddressDatabase` | database loader, `createFromFile` | state machine with crashes |
| `PrimeField` | the laws of field arithmetic the native code rests on | assumption module |
| `KeyBatch` | batched public keys, simultaneous inversion | state machine, one step per loop turn |
| `EcmultBig` | table construction and multiplication | state machine, one step per loop turn |
| `FieldElement`, `ScalarElement` | the promises of `field.h` and `scalar.h` to the code above | functions |
| `Group`, `Ecmult` | `group_impl.h`; the three `ecmult_*_impl.h` | functions, one per function |
| `PointWalk` | a point in the hands of these functions | state machine, one step per call |
| `Ecdsa`, `Secp256k1` | signatures, keys and modules; the interface of the library | functions |
| `Library` | a caller of the interface | state machine, one step per call |
| `FieldLimbs`, `ScalarLimbs`, `AdditionChain` | the arithmetic below these promises | functions; a chain is a list of steps |
| `Digits` | numbers of any size, the reference for the limbs | functions |
| `LimbWalk` | limbs beside their number | state machine, one step per operation |
| `Sha256`, `HashImpl` | `util/sha256.js`; `hash_impl.h` | functions |
| `AddressEncoding`, `KeyDisplay` | `util/bitcoin_util.js`; `Bitcoin.js` | functions |
| `Der` | DER in `ecdsa_impl.h` and `contrib/` | functions |
| `Formats` | conversions of the last five modules | state machine |
| `MC_*` | the instances TLC checks | |
| `*Proofs` | the theorems of a module and their proofs | |
| `NumberLemmas` | what the proofs need of powers of two, quotients and sums | lemmas |

Some definitions (each under a comment that calls it a
mutant) are faulty variants of the definition that follows them. No specification
uses them. A property is worth its run only if such a variant violates it.

### KeySearch

JavaScript runs to the next `await` or native call without interruption, but
worker threads run in parallel. So one action is what one thread does between
two accesses to what threads share: the files, the pointer `bmul`, the ports.

| variable | code |
|---|---|
| `pc` | where each thread is |
| `path`, `present` | the position in `initializeLogs`, the paths on the disk |
| `log`, `errorLog` | `log.txt`, `log_error.txt` |
| `bmul`, `allocated`, `using` | the global pointer, its memory, and the pointer a native call has read |
| `drawn`, `slot` | the batches of a worker, and `j` of its second pass (0 in the first) |
| `posted`, `port` | messages posted, messages not handled yet |
| `failed`, `errored`, `exited`, `resolved` | which workers failed, whose events were handled, whose promise is resolved |
| `keysProcessed`, `reported` | the counter, and the total that is printed |

| action | code |
|---|---|
| `CheckPath`, `CreatePath` | `initializeLogs`: the question, and the creation. `mkdirSync` throws if the folder has appeared meanwhile, `writeFileSync` truncates, and both may throw for other reasons |
| `PublicKeyCreateInit`, `StartWorker`, `Finish` | `init`, one turn of the loop of `processKeys` (`new Worker` may throw), and `finish` with the totals |
| `OnMessage`, `OnError`, `OnExit` | the three handlers. Node drains a stopped worker's port before "exit", so `OnExit` counts what is left. `logError` may throw before `resolve` |
| `Fail` | an exception nobody catches. It ends a worker; in the main thread it ends the process, whose workers may take some more steps until they are stopped |
| `OpenDatabase`, `CloseDatabase` | `open` and `close`, each of which may throw |
| `CreatePrivateKey` | a batch is drawn and the first native call begins |
| `CompressedDone`, `UncompressedDone` | the ends of the two native calls of `getAddressArray`, each of which reads `bmul` anew |
| `LookupAnswers` | `getMany` returns values, or `undefined` on an error, in which case `values.some` throws |
| `LogKey`, `PostMessage`, `ThreadStops` | the log line (its append may throw), the message, the end of the thread |
| `ProgressTimer`, `ProcessEnded` | the timer of `processAllKeys`, and the end |

A key is a model value and `AddressesOf` a constant function; a lookup is the
intersection with `Funded`. Keys are drawn without restriction, so a key may be
drawn twice. An append that throws has written nothing: a line cut short by a full
disk is not told from none. An allocation that fails inside the addon aborts the
process from whichever thread asked for it, and is not modelled.

`SearchContract` knows only the log, the tested and counted batches, the
workers still running and the report. `KeySearch` is checked to implement it
under the mapping at the end of the module: a stopped worker tests nothing,
only funded keys enter the log, while a worker still runs; a worker's batches
are tested one after the other; the count never overtakes them; the report
comes once, after all workers stopped, with exactly the count. The death of the
main thread is a stutter of the contract: nothing is reported any more.

### AddressDatabase

A run opens the database, reads lines (`OnLine` calls `put`), resolves the
promise when the reader closes (`OnClose`) and ends when nothing is pending.
A put is in the pool (`queued`), then done or refused (`PutRuns`), and its
callback comes later (`PutResolves`, `PutRejects`). A refused put rejects a
promise nobody handles, which ends the process. On a crash (failure to open,
a reading error, a refused put) any subset of the queued puts still runs.
`RunAgain` starts the program again on the database as it is, with any list.

### KeyBatch and PrimeField

A Jacobian point is the scalar it is a multiple of, a Z coordinate and an
infinity flag. Made affine with a factor f it is right exactly if Z * f is One,
so a serialized key is the pair of scalar and product. Scratch memory begins
with arbitrary contents. The actions are the turns of the four loops
(`Convert`, `Prefix`, `Unwind`, `Serialize`) and what lies between them
(`Converted`, `Invert`, `Inverted`, `Return`).

### EcmultBig

Points are modelled as in `KeyBatch`. `Create`, `StartRow`, `FillRow`,
`InvertLast`, `StoreBack`, `RowDone` and `Created` are
`secp256k1_ecmult_big_create`; `Multiply`, `AddWindow` and `Multiplied` are
`secp256k1_ecmult_big` with its signed digits. The table is one block of memory
addressed by row and column as in the code, so a hole or an overlap would show.
Three widths are scaled down: the 256 bits of a scalar (`ScalarBits`), the 32
of an `int` (`IntBits`), the 15 that `secp256k1_scalar_shr_int` shifts at most
(`ShiftChunk`). `1 << w` is an `int` expression: its result is negative
for w = 31, and beyond that the shift instruction of x86 takes the count modulo
32: C leaves both undefined, and the model takes what an x86 build computes.
`Create` aborts on a negative row, but the last row may be negative though the
others are not; compared with a `size_t` it has no end (`InRow`).

### FieldElement, ScalarElement, Group, Ecmult and PointWalk

A field element is its value with the bookkeeping of the VERIFY build: the
magnitude `m`, whether it is normalized, and `ok`, whether no VERIFY_CHECK has
failed on the way. `MaxMagnitude` is 31, one less than the magnitude that
`secp256k1_fe_verify` accepts of ten limbs (of five it accepts 2048): limbs may fill
their integer at that magnitude, and a normalization has no room to add to them. The addon is built without VERIFY, so a failed check is not
seen at run time but as a wrong number. A value that is not normalized is held
as one that differs from the normal one by the prime, so code that looks at
digits before it normalizes is wrong in the model as well.

`Group` and `Ecmult` translate one function into one operator, with the
names of the code without their prefix. The macros at the end of the C
files send `gej_add_ge` to `gej_add_ge_var`. A local that the C code leaves
unwritten is a parameter (`stale`). A table is a sequence, and a digit it does not
have makes the result unsound.

`PointWalk` has two variables: `acc`, a Jacobian point, and `log`, its logarithm,
kept by the arithmetic of exponents alone. Its actions are the calls: `Start`,
`Double`, `AddVar`, `AddToOperand`, `AddGeVar`, `AddZinvVar`, `AddGe`, `Negate`,
`Rescale`, `ToAffine`, `Store`, `MulLambda`, `Multiply` (`ecmult`),
`MultiplyConst` (`ecmult_const`).

### Ecdsa, Secp256k1 and Library

A buffer of 32 bytes is its number, a stored public key its coordinates, all
zero after a refusal. An ARG_CHECK that fails ends the process by the default
callback, so it is a guard of the caller.

| variable of `Library` | code |
|---|---|
| `ctx` | the context: which tables it has, the blinding value and its point, and whether its tables are on the heap |
| `seeded` | how often it was randomized since it was unblinded, for the bound `MaxSeeds` |
| `seckey`, `pubkey` | the two halves of a pair, each derived by its own calls |
| `sig`, `made` | a signature, and what it was made for |

The actions are calls of the interface: `Create`, `Clone`, `Randomize`,
`Destroy`; `CreateKey`, `ParseKey`, `TweakAdd`, `TweakMul`, `Combine`; `Sign`,
`SignPlain`, `Transport` (compact form and back), `Convert`, `OtherForm`,
`Normalize`. Verification, recovery, ECDH and Schnorr signatures change no state
and are evaluated by the properties in every state. A nonce function is the
sequence of its answers: zero, too large, good, and a refusal when it ends.

### FieldLimbs, ScalarLimbs, AdditionChain and LimbWalk

The two layouts of the field are one module with the number of limbs, their
width and the reduction constant as parameters, and so are the two of the
scalar; the assembler has operators of its own. `LimbWalk` carries
limbs and the number they stand for side by side through any operations in a
row (`FieldStep`), normalizing below the largest magnitude, multiplies pairs of scalars (`ScalarStep`), and takes the
chains of `fe_inv`, `fe_sqrt_var` and `scalar_inverse` one step at a time
(`ChainStep`), with a register modelled by the exponent of the power it holds.
The exponents are those of secp256k1 itself, all 256 bits of them.

### Sha256, HashImpl, AddressEncoding, KeyDisplay, Der and Formats

`Sha256` has the words of JavaScript: bitwise operators give signed words, sums
are not reduced, and `ok` says that none has passed the mantissa of a number.
`HashImpl` takes its data in pieces. A text is the sequence of its characters'
places in the alphabet. The hashes and the curve that the address code gets
from packages and from the addon are constants (`sha256`, `ripemd160`,
`PublicKey`). What is done about keys that are no scalars is in the modules: the
batch takes the order off them (`Reduced`) and leaves the bytes of zero blank
(`Created`), Node's ECDH, which `Bitcoin.js` asks, throws (`OfPoint`). `Formats` has one action per conversion; each leaves its input and
its result.

## 3. The runs

| run | question | instance |
|---|---|---|
| `keysearch_safety` | Is the table safe, are counter, log and error log right, is the contract implemented, in every interleaving and with every failure? | 2 workers, 2 batches of 2 keys, one funded key and one other |
| `keysearch_live` | Does the search end, whatever fails in the workers, and does it ever wait for what cannot come? | 2 workers, 2 batches of 1 key |
| `keysearch_lost` | Is every funded key drawn in the log when its worker stops? **Violated** | 2 workers, 1 batch of 2 keys |
| `database_load` | Has a run that exits loaded its list, and does every run end? | 3 lists of up to 3 lines (a duplicate, an empty line), 3 runs |
| `database_resolved` | Are the addresses there when the promise resolves? **Violated** | as above |
| `key_batch` | Does one inversion serve every batch? | up to 4 keys, of three kinds: valid, zero, reduced to zero; field of 5 elements |
| `ecmult_big` | Is the table right and every product? | 9-bit scalars, 6-bit `int`, windows of 2, 3, 4, 6 and 7 bits, all 509 scalars |
| `ecmult_big_any` | Are products right for every accepted window size? **Violated** | as above, windows of 2 to 9 bits |
| `walk` | Is a point right and are its magnitudes kept after any calls, and every table, batch and product made of it? | the curve of order 31 over the field of 43 elements; three operands, Z of 2, three multipliers |
| `walk_stale` | Is a constant-time product right whatever an unwritten local holds? **Violated** | as above |
| `library` | Do the halves of a pair, a blinded context, and a signature and its verifier stay in agreement through any calls? | the same curve, four private keys, five tweaks, three messages, two seeds |
| `conversions` | Are limbs, chains, hashes, texts, addresses and DER what their definitions say? | fields of 44 and 88 bits, scalars of 24 bits, bytes of 2 bits in hashes and of 5 in DER |

### Properties

`KeySearch`
- `TableSafe`: a native call that is multiplying has a table and the table is
  still allocated. Only the order of promises guarantees it.
- `ReportComplete`: the counter is exact for the messages handled; the total of
  a search without failures counts every key of every batch, so no message is
  lost between port, "exit" and `finish`.
- `LogMatchesTests`: one log line per funded key that a worker is done with, no
  line twice, none lost, and with its own addresses.
- `FailuresLogged`: at the report each failed worker is in the error log, once.
- `LogNeverLosesLines`: no step truncates a log that has lines.
- `ImplementsContract`: refinement of `SearchContract`.
- `SearchEnds`: the totals are printed and every worker exits, or the main thread
  itself threw, in `initializeLogs`, at `new Worker` or in `logError`
  (`app_search.js:75`), and the process died of it. No failure of a worker, and no
  order of its events, leaves the search waiting.

`AddressDatabase`
- `NoLineLost`: each line read is in the database, in the pool, or has a refusal
  on its way.
- `ExitMeansLoaded`: a run that exits has loaded its whole list, after any
  earlier crashes.
- `EachRunEnds`: every run exits or crashes.

`KeyBatch`
- `AllInverted`: the inverses are right whatever the memory held.
- `BatchRight`: each output is the key of its own private key, or blank.

`EcmultBig`, for window sizes for which `1 << bits` is a positive `int`
- `TableRight`: the rows fill the memory exactly and each element is right.
- `DigitsBalance`: no digit reaches past its row, and sum and rest make up the
  scalar at every window.
- `ProductRight`: the product is right and no part of the scalar is left over.

`PointWalk`
- `PointRight`: the accumulator is the point of its logarithm, whatever calls led
  to it.
- `MagnitudesKept`: no check of a magnitude or of a digit would have failed, and
  each normalization has room.
- `TablesRight`: the ratio handed out by an addition is that of the two Z, no
  multiple in a table is at infinity (`TablesFinite`: there would be no ratio
  after it), and the three tables computed from such ratios agree.
- `BatchesRight`: a batch is made affine as each point alone, wherever infinity is.
- `ConstMultiplyRight`: `ecmult_const` is right for every scalar, if the unwritten
  local is not one.
- `RecodingRight`: every scalar's parts fit their arrays of digits, and the digits
  are odd, small, apart, and add up.

`Library`
- `BlindingRight`: blinding value and point belong together, through every
  randomization, clone and build.
- `KeysAgree`, `RefusedTogether`: the halves of a pair are derived and refused
  together, though by different code.
- `SignatureStands`: a signature is accepted in its low form only, of other messages
  just for those whose point has the same abscissa modulo the order, and its signer
  is recovered.
- `VerifyExact`: verification accepts what the definition accepts, and nothing
  else, for every r and low s.
- `EncodingsExact`: what is parsed is a point of the curve in a canonical form.
- `SecretsAgree`: both parties of ECDH come to the same secret.
- `SchnorrStands`: a signature of one signer, and one combined of two, verify.

`LimbWalk` and `Formats`
- `FieldLimbsRight`, `ScalarLimbsRight`: the limbs, which wrap like their integers,
  are the number, no carry is lost, no sum of products overflows, C and assembler
  agree. Elements of the very largest magnitude are not normalized: `x * C` added to
  full limbs would wrap, as it would in the program at magnitude 32 of ten limbs and
  2048 of five. That no call gets there is `MagnitudesKept`.
- `ChainsRight`: the chains end with the exponents (p + 1) / 4, p - 2 and n - 2.
- `HashRight`: digests, HMACs and nonces are those of SHA-256, RFC 2104 and
  RFC 6979, for lengths on both sides of the edges of the padding.
- `EncodingsDecode`: base 58 and Bech32 read back as what was encoded.
- `AddressesAgree`: the addresses of a key in a batch are those displayed for it
  alone, whatever its neighbours are. A key that is not below the order gets those of
  the key less the order in a batch, and `Bitcoin.js` throws on it, as it does on
  zero: if the search drew and logged such a key, `app_display.js` could not show it.
- `DerRight`: the strict parser takes DER and nothing else, the lax one agrees
  with it, and what is written is read.

### Bounds, and why they are enough

Two workers make every race there is between main thread and worker and between
workers (log files, error and exit events); a third adds only copies. Two
batches distinguish first from last, and a message pending from one still to
come; two keys per batch distinguish the batch lookup from the lookups key by
key, a hit in first or last place, and one key drawn twice. In the liveness run
one key a batch is enough: the second pass still happens, with one turn. Three
database runs allow a crash, another crash, and a run that exits. In
`KeyBatch` four keys give every pattern of gaps up to two adjacent gaps between
valid keys, and the theorems drop the bound. In `EcmultBig` the windows
of 2, 3 and 4 bits, which fit a 6-bit `int`, give a last row as long as the
others, of one element (bits divides `ScalarBits`, as the program's 4 bits
divide 256), and of a length between; digits taken off in one chunk and in two.
Those of 6 and 7 show both ways the sizes fail: a negative size, and a last row
longer than the temporary memory. Windows of 5, 8 and 9 bits, about which the
passing run claims nothing, are left to `ecmult_big_any`. The order 509 is just
below 2^9, so the top digit takes its largest values.

In `PointWalk` and `Library` the curve is whole: P = 43, the 31 points of
y^2 = x^3 + 7, generator (2, 12), with the endomorphism x -> 6 x, so that
equal, opposite and infinite operands and the slope 0/0 (between points the
endomorphism relates) are met by ordinary calls. P is above the order, so abscissas
between the two occur, which on secp256k1 nobody will ever see. The constants of
the split by lambda are the ones the code's method gives for this curve, tables have
windows of 3 bits, the comb 3 rows of 2 bits; `NumsX` is such that no table entry
is at infinity, as on the real curve. Every scalar is tried where a property
quantifies over `Scalar`, and r and s are all numbers of their range in
`VerifyExact`.

In the conversions, limbs keep their number (5 and 10, 4 and 8) and lose width,
and moduli keep their shape: the field's prime is just below a power of two,
with a reduction constant of one limb for 5 limbs and of two for 10; the
complement of the scalars' modulus has half the limbs, and its square is at most
twice the power of two, which is what the three passes of `scalar_reduce_512`
need (`LimbsFit`); five limbs also meet `ProductsFit` and ten `Products10Fit`, which
the proofs about their products assume. Twice the largest magnitude fills the
integer of a limb to the last value, as 10x26 and 5x52 do. Two operations in a row,
from the prime, its neighbours and limbs as large as a magnitude allows, reach each
carry and full limbs of magnitude 15 of 16; a third would add minutes. Hashed bytes have two bits, so words have eight, but blocks,
padding and the number of rounds are those of the program. Lengths are sums of up to
three of 1, 2, 54, 61 and 64: 55, 56, 61 to 68, 119, 120 and 125 to 130 among them,
and 192, four blocks with the padding. The keys of the batches lie on both sides of the order. Base 58 and Bech32 work on real bytes, of every length up
to 32 and of 38, with an accumulator of 24 bits instead of 32. In DER a byte
has five bits and a scalar two bytes: lengths below and above half a byte, with
too many bytes, with leading zeros and beyond `size_t` all occur.

Symmetry over workers is used for safety only. No run has a state constraint;
all models are finite by `NumBatches`, `MaxRuns`, `MaxCount`, `MaxSeeds`,
`FieldSteps`, `MaxWrites` and the widths. Deadlock is checked everywhere but in
`conversions`, where a behaviour is one finite conversion: the other ends are
explicit actions (`ProcessEnded`, `Stays`, `Returned`, `WentWrong`).

### Fairness

`KeySearch` assumes weak fairness of each thread's steps and of the events of
each worker, as long as the main thread lives: operating-system threads keep
running, the database answers every call (with an error perhaps), and the event
loop handles every event. Nothing is assumed of which answer comes, so a worker
may fail at every await and append, and the main thread in every handler of an
error.
`AddressDatabase` assumes weak fairness of `Load`, that is of the event loop and
the thread pool, and none of `ReadFails` or `RunAgain`. No strong fairness is
used. The main thread and the worker threads never wait for one another except
for the promises, so weak fairness is all the scheduling has to give.
The other modules are sequential code whose caller owes it no next call: they
assume no fairness and have no liveness property.

## 4. What the violated runs show

- `keysearch_lost`. `getMany` turns an error into `undefined`
  (`RocksDB.js:98`), which its caller uses as an array (`worker_task.js:21`,
  `:29`), and the worker dies with its batch. The shortest trace fails the lookup of
  a batch that holds a funded key; the lookup of the key alone, after that of its
  batch found a hit, may fail too, and so may the append of its line. The key is
  lost, though `README.md:3` promises that such keys are printed and written to a
  log file. The error log has the exception and not the key.
- `database_resolved`. The promise of `createFromFile` resolves when the reader
  closes, while puts are pending or about to fail. Since the process outlives
  its puts, and `app_database.js` does nothing after the await, a run that exits
  has loaded everything (`ExitMeansLoaded`); a caller that went on would find
  addresses missing.
- `ecmult_big_any`. `1 << (bits - 1)` and `1 << w` shift an `int`, so window
  sizes from 31 up, which the argument check and the library's README ("between
  4 and 62 bits") accept, give wrong tables or none. `app_search.js` uses 4
  bits and is not affected.
- `walk_stale`. `secp256k1_scalar_negate` returns without writing its result when
  its argument is zero (`scalar_4x64_impl.h:154`, `scalar_8x32_impl.h:213`), though
  `scalar.h:64` says it computes the complement. `secp256k1_wnaf_const` negates into
  an uninitialized local and compares it with one (`ecmult_const_impl.h:81`,
  `:82`). For a scalar with a zero half, such as 1, a stack that happens to hold a
  one there makes digits that are not odd, and the product is wrong.
  `ConstMultiplyRight` shows that the product is right otherwise.

## 5. What is proved

`KeySearchProofs`, from `SearchAssumption` (finitely many workers, none of them
the main thread; at least one batch of at least one key):

- `TypeCorrect`, `TableSafety`, `ReportIsComplete`: the properties `TypeOK`,
  `TableSafe` and `ReportComplete`;
- `LogOnlyGrows`: `LogNeverLosesLines`;
- `Invariance`, on which they rest.

None of these properties is inductive. `TableSafe` needs to know that the
main thread frees the table only when no worker is in a native call; that
follows from `Endings` (a resolved worker has failed or stopped, and the report
comes when all are resolved) with `Table` (the table exists from the first
worker to the report, or to the death of the process: `DiesBeforeEnd` shows that the
main thread has no error left to log once it has reported). `ReportComplete` needs `Counted` (the counter is
`BatchSize` times the delivered batches), `Progress` (a worker that stops
without failing has posted all its batches) and `Endings` (an exited worker's
port is empty); from them `Printed` says what was printed. `LogOnlyGrows` needs
`LogFiles`: the main thread creates all three paths before any worker is born,
so no worker ever creates one. `MainOrder` ties the main thread's position to
which workers are born. Frame lemmas (`LogFrame`, `TableFrame`, ...) say once
which actions touch which variables, so that each part of the invariant is
argued only for the actions that concern it.

`AddressDatabaseProofs`, from `DatabaseAssumption` (lists are sequences of
addresses): `TypeCorrect`, `NothingDropped` (`NoLineLost`), `ExitLoads`
(`ExitMeansLoaded`). The invariant adds `RunOrder`: between runs nothing is
under way, and the reader stops at the end of the list.

The second half of `KeySearchProofs`, from the same assumption:

- `LogIsExact`, `ErrorLogIsComplete`: `LogMatchesTests` and `FailuresLogged`;
- `ContractImplemented`: the refinement `ImplementsContract`;
- `LogInvariance`, on which they rest.

The invariant grows by three parts. `Places` says where each
worker is in its batches: inside one it has drawn one more than it has posted, and
about to log it holds a funded key. `Errors` says that the error log names the
workers whose error was handled, each once. `Reported` says that nothing is reported before the
end. `LogMatchesTests` is then inductive: what a worker is done with
(`HitsDone`) changes with a lookup without a hit, by nothing (`LookupHits`), and
with a line, by one slot (`LogKeySlots`, `LineCount`). The refinement goes through
the actions one by one: a message posted is a batch tested (`TestStep`), a message
or an exit handled is batches counted (`CountStep`), the end of a worker is a stop
(`StopStep`), `Finish` is the report with exactly the count (`ReportStep`), a log
line is a discovery (`DiscoverStep`), and every other step is a stutter.

`KeyBatchProofs`, from `FieldAssumption` (the units are a commutative group
under multiplication) and `KeyAssumption`: `TypeCorrect`, `InvertsAll`
(`AllInverted`), `BatchCorrect` (`BatchRight`), for every field, batch size and
choice of keys. The argument counts: `Rank(ks, k)`, the number of valid keys
before the k-th, is where the first loop packs the Z of key k (`Packing`) and
where the second looks for its inverse (`Outputs`). For the inversion,
`fe_out[j]` is the product of the elements up to j while j is ahead of the
second loop (`Prefixes`), and `u` is the inverse of `fe_out[i]` as i goes down
(`Unwinding`).

`EcmultBigProofs`, from `FieldAssumption`, `WidthAssumption` (the order has
`ScalarBits` bits; windows of 2 bits up to those of a scalar) and
`GarbageAssumption` (unwritten memory can be told from what is written):
`TypeCorrect`, `TableCorrect` (`TableRight`), `DigitsCorrect` (`DigitsBalance`),
`ProductCorrect` (`ProductRight`), for every order, width of a scalar and of an
`int`, chunk, window, factors of Z and multiplier. The run claims them for windows
of 2, 3, 4, 6 and 7 bits of 9; the theorems for the 4 bits of 256 the program uses
and every other window whose sizes fit. `Invariance` is their invariant:

- `ControlInv`: the indices against the place in the code, and the memory against
  the sizes;
- `RowInv`: the elements of the row under construction count up in steps of the
  base, `z_ratio[k]` is the ratio of two neighbours' Z, and on the way back
  `fe_zinv` is the inverse of the Z of element `i`;
- `BaseInv`: the base of row w is 2^(bits w) times the generator (`Weight`);
- `StoredInv`: each place written so far has the point of its row and column;
- `MultiplyInv`: the sum so far plus the rest, shifted by the windows done, is the
  scalar modulo the order, and the rest is short enough for the windows to come.

`TypeInv`, `RowInv` and `BaseInv` hold for the faulty window sizes as well; the
rest is claimed of sizes that fit. The places of the table are proved to be a bijection between rows
with columns and the memory (`PlaceUnique`, `PlacesFill`), the digits taken off in
chunks to be the remainder by the window (`ShrExact`), and the last, shorter row to
be long enough for the last digit with its carry (`RestLength`, `DigitInRow`): that
digit is at most 2^(256 mod bits), which it reaches by a carry.

`NumberLemmas` has what this takes of arithmetic. The prover knows `2^n` as a name
only; that it is positive and doubles comes from counting the subsets of an
interval (`PowerSize`, `PowerNext`). Induction is stated of a set of numbers
(`SetInduction`), as the library's theorem takes an operator: it follows from the
well-foundedness of the order of the natural numbers. With it the sums a recursive
function computes are seen to exist (`SumExists`) and to be what they should.

`FieldLimbsProofs`, from `LimbsFit` (five or ten limbs; room above a limb for twice
the largest magnitude; the highest limb and what comes out of it leave room for
a carry), for every such layout and all limbs a magnitude allows, the normal forms
and the tests for zero below the largest magnitude:

- `NormalizeRight`, `WeakRight`: the normal forms keep the number modulo the prime;
  `fe_normalize` ends below it, and both variants return the same limbs;
- `ZeroRight`: the tests for zero, the early answer included, say yes to the
  multiples of the prime and to nothing else;
- `AddRight`, `MulIntRight`, `NegateRight`: sums, small multiples and the multiple of
  the prime less an element are those of the numbers, no limb outgrows its word or
  goes below zero, and the new magnitude holds.

The number of some limbs is the sum of what they are worth (`Worth`), taken limb
by limb. The limbs of a pass wrap; below the largest magnitude there is room in each
for `x * C` and a carry (`WordRoom`), so they do not (`PassSteps`). In a pass the
carries cancel (`PassCarry`): what leaves limb k is what limb
k + 1 gets, so that the number changes by what leaves the highest limb
times the prime (`PassValue`). Limbs within their masks are the only ones for their
number (`ValueUnique`), and `AtLeastP` says no more than that this number is not
below the prime (`AtLeastPRight`). What leaves the highest limb in a first pass is
smaller than the largest magnitude times two, the number after it is below twice the power of
two, and a second pass needs at most one multiple of the prime (`FirstPassRight`,
`SecondPass`).

The second half of `FieldLimbsProofs`, for every layout of five limbs with
`ProductsFit` (8 Factor^2 M1 fits a word, for Factor twice the magnitude that the
products accept; the remaining conditions bound C) and of ten with `Products10Fit`
(the sums fit two words; what leaves the highest limb, and what is left of that
after it has come down, is smaller than a limb):

- `MulRight`, `SqrRight`: the product and the square of the build, with the number
  that they should have modulo the prime and magnitude one; of five limbs the C
  and the assembler return the same;
- `CompareRight`, `StorageRight`, `BytesRight`: comparison, the storage form and the
  bytes, there and back, with the refusal of a number that is not below the prime;
- `Layout5x52`, `Layout10x26`: the two layouts of the program meet all this.

The columns of any number of limbs add up to the product (`Convolution`), and those
of a square, with half the products and a doubled limb that fits its word,
are the same (`SqrColumns`).

Of five limbs every sum on the way is at most seven times the largest product of
two limbs (`Sums5`), which is less than two words, and shifted by a limb less than
one (`Registers5`); so the shift into one register, which the assembler has and the C
has not, loses nothing (`Assembler5`). Each sum is split into what stays and what is
carried, and what comes down from above the power of two adds up to a
multiple of the prime. The runs check the assembler's products of limbs with 9 bits;
the theorems hold of the 52 bits of the program.

Of ten limbs a round takes one column from above and one from below. Its invariant
bounds both sums (`State10`) and says that the limbs done, both sums and the columns
still to come are worth the columns so far, up to a multiple of the prime (`Worth10`);
`RoundsRight` takes it through the nine rounds, and the last fold returns limbs of
magnitude one (`FoldFits`) with the same number (`FoldWorth`).

Words, bytes and limbs hold the same bits: the code regroups them one bit or a few at a
time, and the groups are the digits of the number in either base (`RegroupRight`).

`ScalarLimbsProofs`, from `LimbsFit` (four or eight limbs, no more than a limb can
count; an odd lowest limb of the complement, whose square is at most twice the power of
two; whole bytes in a limb), for every such layout and all limbs:

- `ScalarCheckOverflow`, `ScalarAdd`, `ScalarNegate`, `ScalarIsHigh`, `ScalarCaddBit`: these
  are the operations modulo the order, and what they return besides is right;
- `ScalarSplit128`, `ScalarShrInt`, `ScalarGetBitsVar`, `ScalarGetB32`, `ScalarSetB32`:
  halves, shifts, bits across two limbs, and bytes;
- `ScalarMul512`, `ScalarSqr512`, `ScalarReduce512`: the product, the square and the three
  passes of the reduction, with no carry lost and no check failing; `AssemblerAgrees`: in
  assembler they leave the limbs that the C leaves;
- `ScalarMul`, `ScalarSqr`, `ScalarMulShiftVar`: what callers see of these, the shifted
  product with its rounding bit;
- `Layout4x64`, `Layout8x32`: the layouts of the program meet `LimbsFit`, and their
  `SECP256K1_N_*` are the limbs of the order of the curve.

An addition with carries keeps the number (section "Carries"). The accumulator of three
limbs holds what is left of the columns so far; a column adds at most L
products, twice in a square, so that its highest limb never runs over, and the
fast forms, which leave that limb out, are used only where it is zero. A
reduction replaces what is above the power of two by so many times the complement: the
first pass leaves less than the second expects, the second less than the third, and
after that at most one order has to be taken off.

`PointWalkProofs`, from the assumptions of `ScalarElement` on the order, the width
of a scalar and the constants of the split, and of the curve, has two results about
the walk. The first is `RecodingIsRight`, the property `RecodingRight` without any
hypothesis, from:

- `WnafRight`: `ecmult_wnaf` is right for every order, scalar, window and length
  with room for the number, because a top bit tells the sign of a short part (`HalvesFit`);
- `PartsAreShort`: the parts of `split_lambda` are of at most `Half` bits.

The digits are a scan from the lowest bit with a carry (`IsScan`). What is left of
the number at a position, with the carry, is what the digits from there on add up
to (`ScanWorth`), as long as it fits what is left of the array (`Fits`); the carry
cannot leave the array because a scalar negated first fits with a bit to spare.
Each digit is odd because one is taken off only where the number left is odd, and
it lies in its table (`ScanPlaced`). Sums over digits are extended at their lowest
place (`SumWithDigit`). The parts add up to the scalar whatever the rounded
quotients are (`LambdaParts`); that they are short (`ecmult_impl.h:487` says "~128 bit")
follows from what the comment above `scalar_split_lambda` says of the constants
(`LatticeFits`): two short vectors of determinant n, with quotients g1 and g2 to the
nearest number, so that each multiple taken off is off by little more than a half.
`Secp256k1Fits` checks the assumptions for the constants of the library, all 256 bits of
them with their shift of 272: `HalvesFit`, `LambdaFits` and `LatticeFits`. That the order is
prime is the one assumption on it that no step computes.

The second is `MagnitudesAlways`, the property `MagnitudesKept` for every curve, window,
context and scalar, given `[]TablesFinite`. The inductive invariant is `AccKept`: the magnitudes
of x, y and z are at most 6, 4 and 2 and no check has failed, or the coordinates
were never written, at infinity, where only calls that do not read them are made.
Each function of `group_impl.h` takes these bounds and leaves them (`DoubledKept`,
`AddKept`, `AddGeKept`, ...): a negation is told a magnitude that the bounds imply or
follows a normalization, and no product takes more than 8. A table keeps them in
its entries, and magnitude 3 in its ratios (`MultiplesKept`, `OverOneZKept`). Every
digit of `ecmult_wnaf` and of `wnaf_const` has an entry (`WnafPlaced`,
`WnafConstPlaces`: digits of the constant-time recoding are odd because the number
is made odd first), so the loops keep the bounds round by round (`EcmultKept`,
`EcmultConstKept`). `TablesFinite` is a hypothesis because it is a fact about the
group: a multiple smaller than the order is not at infinity. The run checks it as a
conjunct of `TablesRight`. `MultiplyConst` is called with a local that does not hold
a one by chance; `walk_stale` shows what happens otherwise. As the theorem holds for
any `MaxMagnitude` from 8 on, no normalization in these calls meets limbs of the
magnitude at which it could wrap, which the theorems on normal forms leave out.

Only model-checked: `SearchEnds` and `EachRunEnds` (liveness under fairness is
beyond the prover, as is ENABLED), the violated properties, and of the library and
the conversions what is not named above. `FieldLimbsRight` and `ScalarLimbsRight` are
proved operation by operation but stay properties of the run: `LimbWalk`
instantiates the limbs once per layout and compares them with `Digits`, which is
RECURSIVE, and a module that reaches such a definition holds no theorem. For the same
reason `ChainsRight` and the properties of `Formats`
have none: the chains and the five modules of the conversions use RECURSIVE
definitions or bitwise operators, and what a chain of squarings or a hash computes is
an induction over data. The other properties of `PointWalk` and those of
`Library` say that the results are the right points: a proof for all values would need
the associativity of the group and the theory of its endomorphism, which are facts
about one curve and not about this code.

## 6. What is not modelled, and why

- RocksDB, Node and the hash packages: third-party. What the program relies on
  is modelled from its use: a call is answered once or fails, worker ports are
  drained before "exit", an unhandled rejection or exception ends the process. `get` of
  `RocksDB.js` has no caller.
- The bindings of the addon that nothing in this program calls. The library functions
  behind those that are live are modelled (`Secp256k1`, `Ecdsa`, `Library`); six only
  return, their bodies are commented out.
- Code that is not built: inversion through GMP (`num_gmp_impl.h`),
  the interface of the Schnorr module (its core is modelled), the build without
  endomorphism.
- `secp256k1_ecdh_arg6`: it passes `secp256k1_ecmult_const` an argument that this
  fork's version does not take, which gcc and clang refuse, and nothing calls it.
- `context_preallocated_destroy`, and `context_preallocated_clone` of a context
  on the heap: the first frees tables that lie inside the caller's block
  (`secp256k1.c:664`), the second copies what lies behind the context
  (`secp256k1.c:655`). Nothing calls them, and the models have no addresses.
- Timing: what is done to keep the duration of a call independent of secrets is
  modelled by its results.
- The word list, build files, benchmarks and the library's own tests: data, or
  not part of the running program.
- Wording of log lines and progress output, and the rate of keys per second.

Hazards without a property: the memory that unawaited puts take (no code bounds
it), and addresses an older list leaves behind (nothing promises otherwise).

## 7. Plan

In this order, the most important behaviour first:

| | module | content | state |
|---|---|---|---|
| 1 | `KeySearch`, `SearchContract` | threads, table, log, events; the contract | done |
| 2 | `KeySearchProofs` | type, table, report, log | done |
| 3 | `AddressDatabase` and proofs | the loader with crashes | done |
| 4 | `PrimeField`, `KeyBatch` and proofs | batch inversion | done |
| 5 | `EcmultBig` and proofs | table and digits | done |
| 6 | `Sha256`, `AddressEncoding`, `KeyDisplay`, `Formats` | hash, texts, addresses of batches and of single keys | checked |
| 7 | `FieldElement`, `ScalarElement`, `Group`, `Ecmult`, `PointWalk` | points with magnitudes, tables, recodings | checked; proofs: 12 |
| 8 | `Ecdsa`, `Secp256k1`, `Library` | contexts, pairs of keys, signatures | checked |
| 9 | `FieldLimbs`, `ScalarLimbs`, `AdditionChain`, `LimbWalk`, `HashImpl`, `Der` | limbs, chains, the library's hash, DER | checked |
| 10 | `KeySearchProofs`, second half | the log, the error log, `KeySearch` implements `SearchContract` | done |
| 11 | `FieldLimbsProofs` | operations on limbs, products of five and ten limbs, comparison, storage and bytes, for every layout | done |
| 12 | `PointWalkProofs` | recoding of scalars with short parts, magnitudes of points, for every curve and window | done |
| 13 | `ScalarLimbsProofs` | scalars in limbs, in C and in assembler, for every layout | done |

`KeyBatch` and `EcmultBig` extend `PrimeField`; `KeySearch` instantiates
`SearchContract`. `PointWalk` extends `Ecmult`, `Group`, `FieldElement` and
`ScalarElement`; `Library` adds `Ecdsa` and `Secp256k1` to these. `LimbWalk`
instantiates the limb modules once for each layout, `Formats` the hashes and `Der`.

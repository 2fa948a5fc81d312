# A TLA+ verification of gostls

gostls is a pure-Go TLS 1.2 client with the international and the GOST cipher
suites. This directory holds TLA+ modules that model it, the TLC
configurations that check them, and TLAPS proofs of the main safety properties.
`PROJECT.json` lists the components, the runs, the source lines behind every
definition, the hazards the code is exposed to and the theorems.

## The system

| Part | State | Operations that change it | What makes it hard |
|---|---|---|---|
| `Conn` (`conn.go`) | `closed`, `handshakeOK`, `handshakeOnce`, `handshakeErr`, `inMu`, `outMu`, `readBuf`, `readErr` | `Handshake`, `Read`, `Write`, `Close`, `Set*Deadline` | any goroutine may call any of them at any time; the record layer below has no lock |
| `Dialer` (`dialer.go`, `dialer_default.go`) | the watcher goroutine, `done`, `interrupt`, the deadlines of the transport | `DialContext`, `handshakeContext` | cancellation races the end of the handshake |
| Client handshake (`internal/handshake`) | `ClientState`: `hsBuf`, the suite, the certificate, the flight flags, the transcript | the steps of `Handshake` | the peer sends anything, coalesced and fragmented at will |
| Record layer (`internal/record/record.go`) | protectors, `sendSeq`, `recvSeq` | `WriteRecord`, `ReadRecord`, `ChangeCipherSpec` | writes fail half way, two directions switch keys at different times |
| GOST 28147-89 protector (`protection_gost.go`) | the running MAC and keystream of the connection, with key meshing | `Seal`, `Open` | both ends must mesh at the same byte although they cut the stream differently |
| Other protectors (`protection*.go`) | none across records | `Seal`, `Open` | lengths and padding at the boundaries |
| Suites and key schedule (`internal/suites`) | the registry | `register` | 32 suites with their own lengths share one key-block slicing |
| Codecs (`messages.go`, `extensions.go`, `wire.go`) | none | marshal and parse of messages | nested length prefixes, input that arrives damaged |
| Key exchanges (`internal/ke`, `kex_gost.go`) | the parameters of one exchange | `ClientKeyExchange` of six exchanges | both ends must derive the same bytes |
| Configuration and trust (`config.go`, `cert_gost.go`) | a `Config` that many handshakes share | `rootCAPool`, `parseAndVerifyChain` | two verification backends, empty and missing lists mean different things |

`Dialer` drives `Conn`; `Conn.Handshake` drives the client handshake, which
reads and writes through the record layer and installs the protectors that the
key schedule builds; `Conn.Read` and `Conn.Write` then use the record layer
directly.

## The modules

| Module | Models | Its steps |
|---|---|---|
| `Conn` | `conn.go` with any number of goroutines | one access to shared state: a flag, a mutex, the Once, a record operation |
| `Dialer` (extends `Conn`) | `DialContext` composed with `Conn`, the watcher and the context | one statement of the dialing goroutine or of the watcher |
| `ClientHandshake` | `client.go`, `transcript.go` | one record, or one reassembled message |
| `SecureChannel` | what a protected record layer promises | a record is sent, or the next one is delivered |
| `RecordLayer` | the two ends of one direction of `record.go` | one transport write or read |
| `GostStream` | `gostIMIT`, `gostCNT`, `gost28147Protector` | one turn of a loop of `Write` or `Finalize`, one keystream pass |
| `Protectors` | the registry, the key block, the constructors, the lengths `Seal` makes and `Open` accepts, CBC padding, nonces | one function |
| `Codec` | the wire format of handshake messages and extensions, on bytes | operators |
| `KeyExchange` (extends `Codec`) | the exchanges of `internal/ke`, and the server's side of each | operators |
| `Trust` (extends `Codec`) | `config.go` and `cert_gost.go` | operators |
| `Negotiation` (extends `Protectors`, `KeyExchange`, `Trust`) | the contents of a handshake, from a `Config` to protected records | one message |
| `SharedConfig` | the array that handshakes with one `Config` append to | one element written or read |
| `Foundations`, `ConnProofs`, `DialerProofs`, `HandshakeProofs`, `RecordLayerProofs`, `GostStreamProofs`, `NegotiationProofs`, `TrustProofs` | | theorems |
| `MCConn`, `MCDialer`, `MCClientHandshake`, `MCRecordLayer`, `MCNegotiation` | | instances for TLC |

Definitions called *Mutant* in the comments are plausible mistakes in the
definition that follows them. No specification uses them; each is there to show
that a property notices the mistake (`PROJECT.json`, `mutants`).

### Conn

A goroutine is a label `pc[t]`. Statements on fields guarded by a mutex that the
goroutine holds are folded into the step next to them. A record operation is an
interval: the goroutine stays at `wrRecord`, `rdRecord`, `clAlert` or one of the
handshake's labels until the transport completes or fails it. The transport
fails an operation when it is closed, when the peer is gone or when the deadline
of that direction has expired. `ReadIOError` may leave a record torn, because
`io.ReadFull` may have taken part of it. `late`, `wire` and `delivered` are
history variables. The handshake is an alternation of flights here;
`ClientHandshake` has its contents.

### Dialer

The watcher's `select`, its `SetDeadline(time.Now())` and its send on
`interrupt` are three steps, so a context that is cancelled while the handshake
completes meets every order. `UseConn` lets a second goroutine use the
connection once it has been returned, and the context may still be cancelled
then.

### ClientHandshake

A message is its type and two fields that stand for the outcome of the checks on
its contents: `Certificate(rsa, invalid)` has an RSA key and a chain that does
not verify. `hsBuf` is a sequence of messages with a flag saying that the last
one is incomplete, so coalescing and fragmentation are explicit. Every function
that can fail has a `Fatal` alternative; `sendClientHello` is the only one that
fails without it. Whether a message exceeds the transcript's cap depends on
sizes that the model does not have: up to `FitTranscript` messages always fit,
more than `MaxTranscript` never do, and in between both outcomes occur. `log`
records what crossed the wire, under which protection, and the transcript that
each digest covered.

### RecordLayer

A record is two units on the wire, header and fragment, because `WriteRecord`
makes two transport writes either of which can fail after some of its bytes
have left. A fragment remembers its epoch, its sequence number and the position of the
protector that sealed it. `Opens` is the idealised protector: it accepts a
fragment exactly if these are what the receiver expects. `stateful` selects the
GOST 28147-89 protector, whose state advances with each `Seal` and `Open`.
`WriteError` leaves `sendSeq` as it was and lets the caller write again, as the
code does.

### GostStream

Bytes are counted; a key is the number of meshings behind it. The run scales the
sizes down (block 3, meshing every 6 bytes, 4 bytes of associated data) so that
every residue occurs at every stage and streams cross several meshings.

### Protectors

The lengths are those of the code. `OpenCBC` enumerates how a decrypted CBC
fragment ends: the filling and the last three bytes come from `{0, 1, 2, 40,
255}`, with a payload of 64 and of 272 bytes, so that paddings of length zero, of several
bytes, of 255 and ones longer than the payload occur. Sequence numbers and IVs
are bytes, with values around the carries, so that `NonceFresh` meets the
addition of `adjustIV` and the exclusive or of the AEAD nonces where they
overflow. `Negotiation` says how a suite is chosen and completes the
specification.

### Codec, KeyExchange, Trust and Negotiation

`ClientHandshake` has the order of the messages and only the outcome of the
checks; these modules have the contents and the checks themselves. A parser is
an operator that returns the set of its results, empty when the Go function
returns an error. A message is a record with the fields of its Go struct.

DHE is computed, with primes of one and two bytes. A curve is a group of small
prime order, in which public keys and shared secrets commute; a signature or a
ciphertext is a value that only the right key opens; VKO, key export and TLSTREE
show their ingredients. These are marked external. The encodings around them are
those of the code: the point formats, the DER of the GOST key transports, the
lengths and the checks of DHE parameters.

`Negotiation` has one step per message of the handshake, with the bytes the
server sends drawn from sets. `focus` selects the message whose inputs are tried
in full in a behaviour: the ServerHello and its extensions, the certificate
lists against configurations, the key exchange of each suite, the client's
certificate, or messages that arrive cut or with a byte changed. The other messages
are then typical ones. After the handshake the steps of `Protectors` follow for
the suite that was agreed on.

### SharedConfig

`append` to a slice with spare capacity writes into the array that the slice
came from. The model has that array, one `append` and one reading loop per
handshake, and an interleaving of their element accesses.

## The runs

| Run | Shows | States |
|---|---|---|
| `conn_write` | `LayerContract`, `CloseNotifyLast`, `AppOnlyAfterHandshake`, `NoIOAfterClose`, `IInv` with two writers, two closers and a handshaking goroutine, two calls each | 583,896 |
| `conn_read` | `ReadStream`, `DesyncNeverRead`, `ReadErrSticky` with two readers, buffers of length 0 and 1, two records in flight | 606,579 |
| `conn_live` | `CloseTerminates`, `CloseUnblocks`, `FloodedReadReturns` with a reader, a writer and a closer | 42,535 |
| `dialer` | `ReturnedClean`, `FailedClosed`, `PoisonFails`, `CtxBoundsDial` | 19,648 |
| `handshake` | `DigestsCover`, `LegalWhenDone`, `AuthenticatedWhenDone`, `AlertAfterHello`, `NoStraddle`, `Terminates` against 22 kinds of messages, two to a record | 243,574 |
| `record` | `ImplementsChannel`, `SeqCounts`, `NoSpuriousFailure` with one failing write and one damage | 3,276,738 |
| `gost_stream` | `MacByPosition`, `TagByPosition`, `KeystreamByPosition` over streams of up to 48 bytes | 20,330 |
| `negotiation` | `MessagesRoundTrip`, `SolicitedOnly`, `TrustAnchored`, `PreMasterAgrees`, `EverySuiteBuilds`, `KeysPartition`, `SealedOpens`, `CBCExact`, `NonceFresh` for all 32 suites | 115,077 |
| `conn_deadline`, `handshake_alert`, `dhe_premaster`, `shared_config` | violations, see below | |

Why the bounds are enough. The properties of `Conn` relate at most two
goroutines and one that closes; two calls each let a call start before and after
every event of another, and two chunks put a step between two records of one
`Write`. For the safety properties the proofs remove the bounds altogether. The
handshake reads with at most two messages buffered: the code looks only at the
first message and at whether anything follows it. In the record layer one
failing write and one damage meet each unit of up to four in transit; a damage
loses or repeats any run of units, whole records included, or alters one; and
`MaxSeq = 3` makes the last sequence number reachable in both epochs. In
`negotiation` the certificates form two hierarchies, with an intermediate and
without, a foreign name, a mixed chain and one that does not parse; the paths
that `PathExists` looks for visit every intermediate at most once, which loses none. The configurations cross
every way to give roots (none, empty, a pool, PEM, broken PEM) with every way to
give GOST roots and intermediates. Lengths stay below 2^16; above that `wire.go`
truncates length prefixes, and no field of a client's messages gets there
unless the application configures it so.

Deadlock checking is off in all runs: the calls are bounded and the system
may stop when they have been made.

### Disagreements between the comments and the code

* `conn_deadline`: "The close_notify write must never make Close hang" (`conn.go:269`).
  A `SetWriteDeadline` of another goroutine after the one in `Close`
  replaces the bound, and `Close` waits for the peer. `conn_live`, in which
  nobody sets deadlines, passes the same property.
* `handshake_alert`: "On failure, a fatal alert has been sent" (`client.go:218`).
  The errors of `sendClientHello` are returned without one. `AlertAfterHello`,
  which starts after the ClientHello, holds.
* `dhe_premaster`: "Left-pad Z to len(p) bytes per RFC 5246 §8.1.2" (`dhe.go:153`).
  That section strips the leading zero bytes of Z. About one DHE handshake in 256
  has one, and the two ends then derive different keys if the server strips it.
  `PreMasterAgrees`, which compares the numbers, holds.
* `shared_config`: "Bridge with any intermediates the server sent on the wire"
  (`cert_gost.go:64`). Two handshakes at the same time whose `Config` has a
  `GOSTIntermediates` slice with spare capacity append to one array, and one of
  them verifies with the intermediates of the other. Without spare capacity
  `append` copies and there is nothing to share.

`Finalize` in `protection_gost.go` also has a trailing zero block for inputs of at most
one block, which it never adds: the data block processed first has already made
`count` nonzero. On the TLS path inputs are longer than a block anyway. The model
keeps the statement, and `TagByPosition` shows that it adds nothing.

## Fairness

`Run(t)` are the steps that need only the scheduler and the transport's own
errors; weak fairness of `Run(t)` says that Go runs every goroutine that can
run and that mutexes are handed over (a goroutine that waits for a mutex is not
enabled, and no run needs strong fairness because each holder makes finitely
many calls). `Expire` is fair in `FairSpec` because time passes, and not assumed fair
in `Dialer`. The steps in `WaitPeer`, those that need the peer to drain or to
answer, are never fair. `FloodedReadReturns` assumes in its own statement a peer
that always sends the next empty record, the worst case it is about. `ClientHandshake!FairSpec`
assumes that a record arrives or fails; a peer that sends empty
handshake records for ever is excluded, since the code has no bound on those.

## What is proved

For every set of goroutines, every number of calls and chunks and every
environment, from `ConnAssumption` alone (`ConnProofs`):

* `Invariance`: `Spec => []IInv`. None of the safety properties is inductive.
  `IInv` adds who holds what (`Holders`: a mutex or the Once is held exactly by
  the goroutine whose label is in its critical section), how far the handshake
  is (`Phases`: a goroutine past the Once sees the final `handshakeErr`, and
  `handshakeOK` is set only by the last step inside), what `closed` implies
  (`Closing`: one goroutine at most is past the compare-and-swap) and what
  the wire implies (`Wire`: after a close_notify nobody is left in front of a
  `WriteRecord`). Each conjunct has its own lemma with one step per action.
* `TypeCorrect`, `LayerContractHolds`, `CloseNotifyLastHolds`,
  `AppOnlyAfterHandshakeHolds`, `NoIOAfterCloseHolds` follow from it.
* `DesyncNeverReadHolds` and `ReadErrStickyHolds` (in `DialerProofs`, which
  holds the proofs about both users of the invariant of `Conn`). Here the
  invariant `RInv` is proved relative to `IInv`: a goroutine about to read a record
  has seen `readErr` nil under `inMu`, which only it holds (`OneReader`), so a stream torn by
  another Read is not touched, and a read error leaves nothing buffered.
* `ReadStreamHolds`: what was handed out, what is buffered and what is on the way
  add up to what the peer sent. `Concat` is recursive, so the proof first shows
  what it does to `Append` and `Tail` (`ConcatAppend`, `ConcatTail`); the
  invariant `SInv` adds to the property that only application records carry
  bytes (`Empties`), since a Read drops the others.

For every dial, with any other goroutines using the connection it returns
(`DialerProofs`, from `ConnAssumption` and `DialerAssumption`):

* `DialInvariance`: `DialSpec => []DInv`. `DInv` adds to `IInv` where the dialing
  goroutine and the watcher are relative to each other and to `done` and
  `interrupt` (`Rendezvous`), and that the connection is in the dial's handshake
  while it waits for it (`DialHandshake`). What the dial needs of a step of `Conn` is one
  predicate, `Settled`, which every action is shown to satisfy.
* `FailedClosedHolds`; `PoisonFailsHolds`, by `Doomed`: once the watcher has
  chosen the interruption, no step leads back to success.
* `ReturnedCleanHolds`, by `Deadlines`, for goroutines that do not call
  `SetDeadline` themselves (`NoSetDeadline`): such a call may of course leave a
  deadline.

For every set of suites offered, any messages of the peer, coalesced and cut
in any way (`HandshakeProofs`, from `HandshakeAssumption` and
`ServerMsgsAssumption`):

* `HandshakeInvariance`: `Spec => []HInv`. `HInv` carries what was accepted to
  the end: each Certificate in the log has the client's `certKey` and an
  accepted chain, each ServerKeyExchange the suite's algorithm, `sawSKE` ties
  the key of the certificate to an ephemeral suite, and after `Derive` that holds
  for all suites.
* `AuthenticatedHolds`, `AlertAfterHelloHolds` and `NoStraddleHolds` follow.
* `LegalHolds`: a completed handshake followed the message flow
  of RFC 5246 to the letter. Its invariant `LInv` adds to `HInv` how far the
  log is along the flow at each step of `Handshake` (`FlowInv`), and what the flags
  say of the optional messages (`FlagInv`): a ServerKeyExchange exactly for an
  ephemeral suite, a CertificateVerify exactly after a client certificate.
  `FlowIsLegal` shows that the flow assembled record by record is `LegalFlow`.
* `DigestsCoverHolds`: the digests of both Finished messages and of the
  CertificateVerify cover the handshake messages logged before them. The
  invariant `Covered` says that the transcript is the filtered log until it
  overflows; `HandshakesAppend` says what the filter does to one more entry.

For every block size, every meshing period that is a multiple of it, every
nonempty associated data and every cut into records and calls
(`GostStreamProofs`, from `GostAssumption`):

* `MacByPositionHolds`, `TagByPositionHolds`, `KeystreamByPositionHolds`. `At`
  says what `count` and the key must be after a number of blocks; `NextKey` shows that one
  more block keeps it and gets the key of its place, once for both
  halves of the protector. `MacInv` adds that a block is kept back as soon as a
  call has taken its bytes, `CntInv` how much of the last block of keystream is unused.

For every payload set, last sequence number and number of failing writes and damages, from
`RecordAssumption` (`RecordLayerProofs`):

* `Invariance`: `Spec => []IInv`, where `IInv` says that a protected fragment
  anywhere on the wire is the completed record of its number (`Transit`), that
  what is being written is the next record (`Writing`), and that both counters
  count (`SeqCounts`).
* `SeqCountsHolds`.
* `Refinement`: `Spec => ImplementsChannel`. `WriteFragment` in epoch 1 is
  `Send`, an accepted `ReadFragment` is `Deliver`, everything else stutters.
* `NoSpuriousFailureHolds`: without a transport error or damage no record is
  refused, although the two ends switch protectors at different times.

For every configuration, server and length (`NegotiationProofs`, from
`ProtectorsAssumption`):

* `EverySuiteBuildsHolds`, `KeysPartitionHolds`, `SealedOpensHolds`,
  `CBCExactHolds`. `RegistrationsTable` computes the table of 32 suites from the
  loops that register them; `ProperFits` reads off that each has a protector that
  accepts the lengths it gets. The invariant says that the suite in use is from
  that table and that keys and protector were made of it.
* `NonceFreshHolds`, for IVs of any bytes and any two sequence numbers. The
  addition of `adjustIV` is shown injective column by column with its carries
  (`SumsInjective`), also where the block counter moves it (`SumsInc`), and the
  exclusive or bit by bit (`XorInjective`).

For every configuration, every set of certificates (a certificate is one byte
on the wire, so 255 at most) and every list the server sends (`TrustProofs`, from `TrustAssumption`, `NegotiationAssumption` and
`ConfigAssumption`):

* `TrustAnchoredHolds`: the handshake goes on after a Certificate message exactly
  if its certificates parse and a path of issuers leads from the leaf to a root
  that the `Config` trusts. `AnchoredIsPath` shows that the verification, which adds links one
  at a time, accepts what some path vouches for, and no
  more: a shortest chain of links visits no certificate twice. `PoolIsTrusted`
  and `ParamsAre` carry that back through the defaults of `rootCAPool` and
  `doHandshake` to the `Config`, `ChainIs` joins the two, and the invariant
  `TInv` keeps the parameters tied to their `Config` until the message arrives.

`Foundations` has what these proofs share. The prover cannot use an induction
theorem that is stated for predicates, so `UpTo` and `Recursion` are stated with
sets and functions, from the fact that `<` is well-founded; a recursive
definition is then met by giving the function it defines. On these
rest the lemmas on the wire format: numbers in bytes (`ValEnc`), a field and
what follows it (`ReadVar`), lists of fields (`EntriesTyped`). (`NegotiationProofs` repeats
`UpTo` and `Recursion`, to be checked without the rest of `Foundations`.)

Only model-checked:

* all liveness properties: fairness and ENABLED are outside the prover;
* `MessagesRoundTrip`, which also re-marshals what the parsers make of damaged
  input, and `SolicitedOnly`, which reads the whole transcript back: they need
  what every parser computes for every input, an induction over data for each of them;
* `PreMasterAgrees`, which needs that powers commute in the groups of the key
  exchanges, an induction over exponents in modular arithmetic.

## What is not modelled

* The cryptographic primitives: ciphers, MACs, curves, VKO, TLSTREE, hashes and
  the PRF (`prf.go`), which are functions of bytes without state. The models have their
  lengths, their inputs and whether both ends use the same.
* In `config.go` the reading of files, in certificates validity times, key usages
  and the parsing of X.509.
* The index of suites by name and the listing of all suites: lookups in a map
  that is written at start-up only.
* The constructors of key exchanges that draw from `crypto/rand` directly, and the helpers
  for tests, which the handshake does not use.
* Fields of 2^16 bytes and more.
* The contents of alerts and errors, wire debugging, build variants.
* The Go memory model: accesses to atomics and mutexes are sequentially
  consistent, which is what Go guarantees for them. `LayerContract` is what
  makes the unguarded fields of the layer free of races.

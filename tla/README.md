# Verification of livekit-server-cpp

TLA+ models of the LiveKit server SDK in this repository: the C++ library
(`src/`), the C ABI over it (`src/c_api.cpp`) and the seven bindings above that
(`pkg/`). TLC checks every model on small instances; TLAPS proves, for every value
of their constants, every safety property the runs check and every refinement.

Paths are relative to the root of the repository. `PROJECT.json` maps each
definition to the lines it stands for, lists the runs, the mutants that show
each property can fail, the hazards, and the theorems.

## 1. Inventory

The SDK has no threads of its own: it runs on the threads of its callers, which
share a few objects. What is hard in it is what these threads, callbacks that
call back in, and steps that throw do to the shared objects; and a few pieces of
arithmetic on text and time that sit in front of authentication.

| Component | State it keeps | Operations | Interacts with |
|---|---|---|---|
| Webhook receiver, callbacks (`src/webhook_receiver.cpp`) | `callbacks_` (13 `std::function`s), `callbacks_mutex_` | `SetCallbacks`, `Dispatch`, `ReceiveAndDispatch` | user callbacks and key providers, run on the calling thread |
| Webhook verification (same file) | none; reads a clock and a key provider | `Receive`, `ReceiveAt`, the event they return | crypto, JSON claims, the C ABI and the bindings that pass the event on |
| JSON time claims (same file) | a scan over text | `JsonIntegerField` | verification |
| Crypto (`src/detail/crypto.cpp`) | none | base64, SHA-256, HMAC, comparison | tokens, checksums, bodies over the C ABI |
| AccessToken (`src/access_token.cpp`) | the fields of a token | setters, `ToJwt` | RPC layer, `Sign` of the C ABI |
| RPC layer (`src/detail/client_context.cpp`) | URL, credentials, timeout, transport; fixed once built | constructor, `Call` | environment, transport |
| Service clients (`src/*_client.cpp`) | a shared context | 52 operations | RPC layer |
| libcurl transport (`src/detail/curl_transport.cpp`) | one easy handle, `mutex_` | `Send` | libcurl, which borrows memory of the `Send` |
| WinHTTP transport (`src/http_transport.cpp`) | cache of connections, `connections_mutex_` | `Send`, destructor | WinHTTP |
| C ABI (`src/c_api.cpp`) | none between calls; one input, at most one exchange, one envelope in a call | `lks_invoke`, `lks_free` | all of the above; one callback per exchange |
| Zig binding | a reference-counted module, a spin-locked callback | open, retain, release, invoke, webhook receiver | C ABI |
| .NET binding | a `SafeHandle`, a locked callback | `Dispose`, `Invoke`, webhook receiver | C ABI |
| PHP binding | one trampoline, a stack of contexts, a callback | `invoke`, webhook receiver | C ABI |
| Python binding | the default library under a lock, a callback | `get_native`, `invoke`, webhook receiver | C ABI |
| Ruby binding | the bridge under a lock, a callback | `load_bridge`, `invoke`, webhook receiver | C ABI |
| Rust binding | a library, an `RwLock`ed callback | `invoke`, webhook receiver | C ABI |
| Java binding (JNI) | none; the exception pending in a thread, the local references of a method | `call`, `getDispatch`, `token`, `webhook` | C ABI, JNI |
| Protocol models, JSON codec | none | conversions by protobuf | service clients |
| Build files, generators, examples, tests | none | – | not part of the running system |

Behaviours that are hard to test, each a hazard in `PROJECT.json`:

* **interleavings**: a dispatch against a replacement of the callbacks; threads
  over one libcurl handle; two connects to one host; release or dispose of the
  native module under a call; two first loads of a library;
* **re-entrance**: callbacks, key providers, transports and destructors that
  call the object they were called by, under its lock or above its context;
* **failure in the middle**: any option of libcurl, any allocation of a copy, any
  step of loading a library, any callback of a native call may throw, and what was
  borrowed, locked or allocated must be given back;
* **staleness**: the clock is read before a key provider that may take its time
  and whose keys rotate;
* **numbers at a boundary**: the digits of a claim, the leeway, the bits at the
  end of a base64 text, the sum of a time and a lifetime, a time above 2^53 in JSON;
* **what may be absent**: a right of a token that was refused is not one that was
  never mentioned, through seven languages and their names for it;
* **limits a test does not notice**: the local references of a native method;
* **who is told what**: an error of the host that the native side turned into one
  of its own, a rejection that may or may not have reached the server.

What makes each component correct:

* receiver: one atomic register of callbacks; nothing runs for an unverified
  request; every call ends, whatever the callbacks call;
* verification: only a body a current secret vouches for is read, and no genuine
  request is refused;
* claims, base64, digests, lifetimes: exact, or refused because there is no exact
  answer; a token says what its builder was set to, an event what the server wrote;
* C ABI: the envelope says what happened, whatever the host passed and answered;
* RPC layer and clients: one origin of credentials, errors at the right time, the
  request and the grant the caller meant, at most once;
* transports: independent requests, the final response with the body that was read,
  nothing left behind by a `Send` that failed;
* bindings: the module outlives its calls and then unloads; a caller gets its own
  error back; every borrowed or allocated thing is returned; no user code under a
  lock (which Python does not keep to: see `CallbackSlot`).

## 2. Modules

Four modules say what a part *promises*; the others are the code, and most are
shown to implement a promise through a refinement mapping at their end.

| Promise | says | implemented by |
|---|---|---|
| `CallbackRegister` | a receiver's callbacks are one register, written and read atomically | `WebhookReceiver`, `CallbackSlot` |
| `HttpTransport` | a request goes out at most once, followed by the redirects the backend follows; a response is the final one to its own request, its body what was read | `CurlTransport`, `WinHttpTransport` |
| `UnaryRpc` | what an application may conclude from the outcome of a call | `ClientContext` (which in turn uses `HttpTransport`); used by `ServiceCalls` |
| `ModuleLease` | a native module stays loaded while owned or leased, and is unloaded once | `NativeLibrary` (Zig), `NativeServer` (.NET) |

They compose from below: `HttpTransport` is the transport of `ClientContext`,
`UnaryRpc` is the RPC layer of `ServiceCalls`, the outcome of
`WebhookVerification` is a choice in `WebhookReceiver` and `CallbackSlot`, and
`HostInvoke`, the steps every binding's call of `lks_invoke` has in common, is
extended by the seven binding modules; that a call of `lks_invoke` takes those
steps is what `CAbi` is shown to do.

### WebhookReceiver
`SetCallbacks`, `Dispatch`, `ReceiveAndDispatch` of a set of calls. `pc[c]` walks
the statements; `mutex` is `callbacks_mutex_`; `callbacks` is `callbacks_`, moved
(`MoveSlot`) and copied (`CopySlot`) one `std::function` at a time while the mutex
is held. User code is a state in which the call may make another call (`parent`).
A copy may throw (`CopyThrows`), as may user code. A target is named by the call
that installed it, so a torn or stale set is visible. `DestructorsReenter` lets
the destructor of a replaced target call the receiver. Copy constructors of user
objects also run under the mutex in `Dispatch`; only destructors are modelled as
calling back.

### WebhookVerification
`ReceiveAt` check by check, in its order. The environment is a clock that moves
(`Tick`) and a secret that rotates (`Rotate`) between any two steps. The
signature is an equality of secrets, the checksum a Boolean. `exp + leeway` near
the largest integer is undefined in C++: either comparison may come out.

### WebhookEvents
What becomes of a verified event: `ReceiveAt` fills the parts that are there
member by member, the C ABI names the members and writes the time as a text, the
bindings read them by name and JNI puts them into Java records by place.

### JsonInteger, Base64, Digest, TokenLifetime, TokenClaims
The digit loop with its overflow guard; the two base64 loops with their bit
buffer; the calls of BCrypt or OpenSSL a digest takes, each of which may fail, with
the handles they leave; the path of a lifetime and a time from the builder of each
of eight hosts through `Sign` (`src/c_api.cpp:194`) to `nbf` and `exp`. Widths are
parameters. `TokenClaims` takes the other fields along that path: the builder and
its grants as an application sets them, the object of a binding without what is
unset, the names of Java and their translation, `grants.inc`, and `ToJwt`, which
leaves out what is the server's default and escapes the rest. Its property reads
the claims back as a server would.

### CAbi
`lks_invoke` from its arguments to what it returns: the buffer, the operation, the
options, the exchange with its callback (which fails, throws, or answers with
anything), what is read of the answer and in which order, and the envelope, which
may not fit in memory. It composes the SDK below as a choice of the outcomes the
other modules have, and implements the `Work` of `HostInvoke`.

### ClientContext, ServiceCalls
The constructor resolves URL and credentials from every combination of options
and environment; `Call` prepares the bearer, sends through the promised transport
and judges the reply, over libcurl or over a transport of the host through the C
ABI (whose malformed answers become errors of their own). `ServiceCalls` is the
layer above: a method of a service class in one of eight hosts, the checks of that
host's options and arguments, the dispatch table of the C ABI, the C++ client with
its route and grant. Of a request it keeps the rooms and the nonce.

### CurlTransport, WinHttpTransport
`CurlTransport`: one easy handle, whose options hold the `Send` whose memory they
point to. Any option may fail to be set; the transfer delivers up to `MaxBlocks`
header blocks and body pieces; a callback that throws stores its exception and
makes libcurl fail. It follows no redirects. `WinHttpTransport`: the map of
connections, the request handle, the redirects WinHTTP follows before there is a
response, the read loop with the size of the body, the destructor. The loop ends
where nothing more is available; the code compares that with no length, so a
connection closed early cuts a body short, and the model lets it.

### HostInvoke and the bindings
`HostInvoke` has a call take a lease, encode, run native code, call back (the
callback may invoke again), decode, free the result and return the lease.
`NativeLibrary` adds Zig's atomic count; `NativeServer` .NET's `SafeHandle`, which is
closed when its count is zero and not when `Dispose` was called, and calls that follow
each other without end (`Again`); `PhpNativeLibrary` the stack of contexts of its
single trampoline, `PythonNative` the default library, `RubyNative` the steps of `load_bridge` and
the buffers for answers, `RustNative` panics, `JniNative` pending exceptions and
local frames. `JniReferences` counts the local references of a native method, each
piece of its code being the sequence of what its calls add and delete. At most one
exchange happens per `lks_invoke`, so guards against a second one in the same call
have nothing to do here.

### CallbackSlot
The one callback of the receiver of each binding, with the lock that binding uses
and the place where it destroys a replaced callback: after the unlock in Rust, inside
the `with` block of a lock that is not reentrant in Python (`StoreDrops`), so that a
destructor of Python may wait for its own thread (`OwnLock`). Words are what a
processor stores at once: Zig's callback is two. `Spin` is the waiting loop of Zig's
lock.

### Proof modules
`WebhookReceiverProofs`; `WebhookVerificationProofs` (and `WebhookEvents`);
`ClientContextProofs` (and `ServiceCalls`); `TransportProofs` (both transports);
`TokenTextProofs` (`JsonInteger`, `TokenLifetime`, `Digest`, `TokenClaims`);
`ModuleLeaseProofs` (Zig and .NET), with the lemmas of `HostInvokeProofs` about the
steps they share; `BindingProofs` (`CallbackSlot`, `CAbi`, the other five bindings,
`JniReferences`). Each extends the `MC*` module whose instance it is about, whose
constants are then any that satisfy the assumptions. Every `MC*` module instantiates one or
more modules for TLC. Where modules share nothing, one run holds them side by side:
an initial state chooses the module and the variables of the others keep a fixed
value (`MCTokenText`, `MCTransports`, `MCWebhookVerification`, `MCServiceCalls`,
`MCModuleLeases`, and `MCBindingCalls` with the instance of `CAbi` in `MCCAbi`).

## 3. Runs

| Run | Question | Properties |
|---|---|---|
| `webhook_callbacks` | Is the receiver an atomic register whatever is nested or concurrent? | `SnapshotConsistent` one set per dispatch; `Fresh` none replaced before it began; `OnlyVerified`; `ImplementsRegister`; `EveryCallEnds` |
| `webhook_verification` | Are the checks complete and not too strict, with clock and keys moving, and does the event arrive? | `OnlyVouchedBodyRead`, `GenuineAccepted`; `EventDelivered` as the server wrote it, in C++ and in each binding |
| `token_text` | Is what makes and reads a token exact? | `ExactOrTooLarge`, `ReadsTheField`, `LifetimeFits`; `CryptoExact` base64 is exact and a digest is a digest; `ClaimsAsAsked` a token says what its builder was set to |
| `client_context` | Is a call what the application meant, with what the application may conclude? | `ExplicitCredentials`, `NoLateAuthentication`, `RejectedUnsent`, `ImplementsRpc`, `SentAsAsked` |
| `transports` | Can threads share one libcurl handle, or cached WinHTTP connections, through any failure? | `NoDanglingOption`, `FinalResponseOnly`, `CallbackFailureWins`, `ImplementsTransport` (libcurl); `ConnectionsKept`, `WinImplementsTransport` (WinHTTP); `EverySendReturns` |
| `module_leases` | Does the module outlive its calls and then unload (Zig, .NET)? | `NoUseAfterUnload`, `HostErrorWins`, `ResultFreed`, `ImplementsLease`, `DisposeLeasesModule`; `ModuleUnloads` in both |
| `binding_calls` | Do calls of PHP, Python, Ruby, Rust and Java keep apart and clean up? | `OwnContext` its own context, in a library that is complete; `OwnErrorWins`, `CallsCleanUp`; `JniRespected` no JNI call while an exception is pending, no reference without room. Does the envelope of `lks_invoke` under them say what happened? `EnvelopeTrue` broken answers are never a success, kept contracts never an invalid argument; `ImplementsHostInvoke` the call is one the models of the bindings allow |
| `binding_webhooks` | Is each binding's receiver an atomic register, and who can block it? | `SlotImplementsRegister`; `UserCodeUnlocked`, `SlotCallsEnd`: nobody but a destructor that Python runs under the lock |
| `webhook_reentrant_destructor` | finding 1 | `ReplacementEnds` is violated |
| `client_environment` | finding 2 | `EnvironmentFillsIn` is violated |
| `client_url` | finding 3 | `AcceptedUrlSendable` is violated |
| `dotnet_dispose` | finding 4 | `DisposeRejects` is violated |

Each property of a passing run has a mutant in `PROJECT.json`: a plausible bug in
one mapped definition (a lock not waited for, a guard that compares the wrong
value, a reset left out, an exception path that keeps the lock), under which the
same run finds the property violated.

### Bounds, and why they are enough

* **Calls and threads.** Two calls for `WebhookReceiver` (a writer against a
  reader, each nested in the other or not; the proofs cover any number); three
  Sends, three nested or concurrent calls of a binding, which is one more than any
  of the races needs: one in the critical section, one behind it, one that comes
  in when the first has left. Calls are symmetric where nothing names them.
* **Webhook verification: one call.** Calls share only the clock and the secret,
  which the environment moves at any time anyway. Events have every combination of
  parts, and for one part every combination of members; times lie on both sides of
  the largest number a double has exactly, which is small here.
* **One call of `lks_invoke`**: calls share nothing. Every kind of argument, and of
  answer one for each branch of the code; HTTP statuses at each boundary.
* **Tokens.** Two settings of a builder, so that one is replaced or two meet; each
  field of a grant alone and all of them; texts of two characters, which is where
  one escape could swallow the next. Sixteen headers and two callbacks of a
  native method: more than there is room for if each leaves a reference behind.
* **Members of `WebhookCallbacks`: three of thirteen.** One for every event and two
  named ones: two could be torn apart, and a third tells a wrong name from a
  missing one.
* **Time.** The clock and the claims take values at, one below and one above each
  boundary, with a leeway of 1, and one so large that the leeway overflows. The
  clock of `TokenLifetime` has at most 7 ticks, two to the second; lifetimes and
  times run from before the epoch to beyond that range.
* **Widths.** `JsonInteger` has a largest integer of 22 and the digits 2 and 3, so that
  texts reach it exactly and pass it by one (which a negative number may); every
  text of up to six symbols. `Base64` has
  bytes of 4 bits and symbols of 3, which keep the ratio of three bytes to four
  symbols; data of up to five bytes (`Bodies`) covers a whole group and both kinds of
  rest, and texts of up to six characters (`Encodings`) every end of a text.
* **Credentials and URLs: all combinations**, with a URL of each kind the code
  tells apart. Two rooms, one nonce, two agent dispatches: enough for a grant to
  name the wrong one and for "first of several".
* **Responses.** libcurl: up to two header blocks (one interim, one final). WinHTTP:
  one redirect, which is one more request than was sent, and bodies of up to two
  bytes, read in pieces; two connections, and handles for them.

`CHECK_DEADLOCK FALSE` is set for the transports, whose Sends all end (their
liveness property says so without it), and in the run of finding 1, whose point
is a thread that waits for itself. The other specifications have an explicit
step for the state in which everything is over.

### Fairness

Weak fairness of the steps of each call that is under way; no application is
obliged to begin one. It stands for:

* a thread that can run does run, and user callbacks, key providers and transports
  of an application return or throw;
* a waiting thread gets a mutex that is free *for good*. `std::mutex` is not fair,
  but where there is one each behaviour has finitely many calls, so that a mutex
  contended for is in the end free and stays free; weak fairness of `Lock` says no
  more than that. Only the calls of .NET's `NativeServer`, which wait for nothing but
  the calls they make, repeat without end: there `ModuleUnloads` has the
  premise that from some time on no call takes a lease (`LeasingEnds`), for otherwise
  `Dispose` need not unload anything;
* a transfer ends: `CURLOPT_TIMEOUT_MS` and `WinHttpSetTimeouts` see to it;
* the thread that drops the last reference goes on to unload.

## 4. Theorems

TLAPS proves the following for every number of calls, every set of names, every
width and every text, under the assumptions the modules state (`None` and its like
are not among the values they stand beside, the calls of `NativeLibrary` and its
owners are finite sets, `Leeway` is a natural number that fits `MaxTime`, the
largest integer is at least 9, a second has at least one tick, each Send has a
target, three bytes of `Base64` are four of its symbols and its word holds a byte
and a symbol, `=` and a bad character are no symbols). TLC evaluates these
assumptions in the runs.

| Module | Theorems | The inductive invariant adds |
|---|---|---|
| `WebhookReceiver` | `TypeCorrect`, `DispatchSeesOneSet`, `NoStaleCallback`, `NoUnverifiedEvent`, `RegisterImplemented` | who is past `Lock` holds the mutex and nobody else is; while members are moved, those already moved are of the latest writer; a copy agrees, member by member, with the set that was installed when it began; which sets a call has seen replaced |
| `WebhookVerification` | `TypeCorrect`, `BodyVouched`, `GenuineServed` | the secret of the moment, and the one that was found, are among those held during the call |
| `WebhookEvents` | `HandlerIsTold` | what each stage made of the body: the members that are there, their names, the places of Java's records. A number is read back from its digits, by induction on how many |
| `JsonInteger` | `NothingOverflows`, `ReadsExactly`, `TheFieldIsRead` | the value is the number read so far, unless the text is too large; where the name, the colon, the spaces and the sign before the scan were, and that the sum over the digits read is the value |
| `TokenLifetime` | `TokenLives` | what the `AccessToken` of a binding was given is what was asked for, and its sum fits the clock |
| `Base64` | `EncodingLosesNothing`; with `Digest` `CryptoIsExact` | while data are encoded, how many symbols the text has and that each holds its bits of the data; while a text is decoded, that the bits of its symbols are those of the output and of the lowest places of the word; see below |
| `Digest` | `DigestIsSound` | what is open and what has been hashed, by the next call of the library |
| `TokenClaims` | `TokenSaysWhatWasAsked` | what each stage holds is a function of what was asked, the same for every binding; see below |
| `ClientContext` | `TypeCorrect`, `OneOriginSent`, `AuthenticationIsEarly`, `RejectedNeverSent`, `RpcImplemented` | the credentials of a context are `Resolve`'s and complete; a bearer is made of them; what each call may have sent, by where it is |
| `ServiceCalls` | `RequestSentAsAsked` | from the client on, the request and its grant are right, and before that nothing was sent |
| `CurlTransport` | `TypeCorrect`, `NothingDangles`, `OwnFinalResponse`, `CallbackFailureKept`, `TransportImplemented` | the mutex says who is between lock and unlock; options point to that Send or nowhere, and all of a group are set when its phase is over; what is stored is of the current block; a stored failure is the outcome |
| `WinHttpTransport` | `WinTypeCorrect`, `ConnectionsAreKept`, `WinTransportImplemented` | who looks at the cache holds the mutex; the open handles are the cached ones, each of one target, and the lost ones; a working Send has the connection of its target; the size of the body is what was read |
| `NativeLibrary` | `TypeCorrect`, `ReferencesCounted`, `NeverUsedAfterUnload`, `HostErrorReturned`, `EveryResultFreed`, `LeaseImplemented` | the count is the live references plus the leases, a module with a count is loaded, and a call starts from a live reference; the phases of a call (`CallInv`) |
| `NativeServer` | `NetTypeCorrect`, `NetLeaseHeld`, `NetHostErrorReturned`, `NetEveryResultFreed`, `NetLeaseImplemented` | the count is the leases, whenever they were taken, plus one until `Dispose`; counted means loaded; `CallInv` |
| both, as `MCModuleLeases` runs them | `LeasesSafe`, `CountImplementsLease`, `DisposeImplementsLease` | the two invariants, one per initial choice of the module |
| `CallbackSlot` | `UserCodeHoldsNoLock`, `GuardedWordsAreARegister` | who holds the lock is in the code it guards and nobody else is; the words are the latest callback's but for those the holder has still to write; what was read is of the callback that was the latest when the reading began |
| `CAbi` | `EnvelopeIsTrue`, `CallIsAHostInvoke` | what is known of the arguments and of the answer at each phase, and that what was copied is freed |
| PHP, Python, Ruby, Rust, Java, `JniReferences` | `ContextsAreOwn`, `ErrorsAreOwn`, `EveryCallCleansUp`, `JniIsRespected` | PHP: the stack is the calls under way, in the order they began. Python and Ruby: a library that is published is complete, and whoever uses it has it. Rust and Java: a failure is held by the call it happened in; an exception of Java is pending exactly while the call it was thrown in is on its way out. `JniReferences`: the rest of the code fits in the room that is left |

The safety properties alone are not inductive: that a dispatch acts on one set of
callbacks follows only from what the half-done copy of a call and the half-done
move of another may look like, and from the mutex that keeps the two apart; that a
module is loaded under a call follows only from what the count counts. Each proof
has the three usual facts (`Init` implies the invariant, each action keeps it, it
implies the property), one step per action; the refinements show that the initial
states map to initial states and each step to a step or a stutter of the promise.

**Induction along texts and sequences.** The order of the natural numbers is well
founded, so a nonempty set of them has a least element (`LeastNumber`) and a set
that has 0 and is closed under successor has them all (`SetInduction`). These speak
of sets, which the provers can instantiate, and carry the proofs that need more
than a state: the digits of a number, the sums of a scan, a sequence of sequences
written one after the other, the local references after each call of a method.
For `TokenClaims` the argument is:

* `EscapeJson` writes the escapes of a text one after the other, each at a place
  that is the length of those before it (`JoinedPlaces`, `EscapeJsonPlaces`);
* a reader that stands at such a place takes exactly that escape and reads the
  character it stands for (`ReadCharacter`), so from there on it reads the rest of
  the text, by induction from its end (`ReadBack`);
* no two fields of the grants are spelt alike (`NamesStayApart`), so Java's names
  are undone by the JNI code (`JavaBack`), and a grant comes back from the object a
  binding makes of it (`GrantBack`) and from its claims (`GrantTold`);
* hence each stage is a function of what was asked for (`ClaimsInv`), and the claims
  say it.

For `Base64` everything is said of single bits, since a text and its bytes cut the
same bits at different places:

* `PowerOf2` is a recursive function; that it is what its definition says
  (`PowerDefined`), is never zero and turns sums into products (`PowerSum`) is
  proved by induction, and from it what shifts and masks do to a bit
  (`BitShiftedOut`, `BitKept`, `BitShiftedIn`) and that a number is its bits
  (`SameBits`);
* a symbol of a group holds the bits of the data at its place (`SymbolOfGroup`), so
  each group adds its symbols or Pads to what is encoded (`EncodesOneMore`);
* the word keeps the bits that are not yet a byte, however it is cut off, because it
  holds a byte and a symbol (`WordBitsRead`), so each symbol keeps what is decoded
  (`SymbolRead`);
* at the end of a text that was encoded here as many bits were read as the data have
  and less than a symbol, so it is accepted and the bytes are the data
  (`DataComeBack`); the bits behind the data are zero (`EncodingIsOne`); and any
  accepted text is its bytes' bits (`AcceptedIsExact`).

`JniReferences` counts over the same kind of sequence: a piece of native code, with
loops over its headers, *fits* if it goes from one number of references to another
within the room of its frame, and pieces that fit, fit one after the other
(`ConcatFits`). The proof brought out a state the model could reach and the code
cannot, in which a method that a C++ exception had ended went on to push a frame or
to return a value; `PushLocalFrame` and `Return` are guarded against it since.

`NativeLibrary` takes the contract of the Zig README for granted (its
lines 91-94: a caller holds a live reference when it starts a call), and
`NativeServer` what .NET does in `SafeHandle`: `DangerousAddRef` throws once the count
of references is zero, and not before, even if `Dispose` was called; and whoever
drops the count to zero, `Dispose` or a `DangerousRelease`, runs `ReleaseHandle` once.
`WinTransportImplemented` speaks of the body that was read; that the server sent
no more it does not say, since the code does not look.

Checked by TLC only is what is about liveness (`EveryCallEnds`, `EverySendReturns`,
`SlotCallsEnd`, `ModuleUnloads`), which this prover does not reach.

## 5. Findings

1. **A destructor under the mutex** (`webhook_reentrant_destructor`).
   `include/livekit/server/webhook_receiver.h:95-96` says callbacks "may be
   replaced safely while events are being handled". `SetCallbacks` assigns under
   `callbacks_mutex_` (`src/webhook_receiver.cpp:143`), so replaced targets are
   destroyed under it; one whose destructor calls the receiver waits for its own
   thread. The Rust binding drops the old callback after the guard for this reason
   (`pkg/rust/src/webhook.rs:120`).
2. **Environment variables per option** (`client_environment`). The README's line
   67 promises the variables "when the corresponding options are omitted"; the code
   reads the key and the secret only when no credential at all was given
   (`src/detail/client_context.cpp:118-124`). Not mixing origins is arguably
   better, and `ExplicitCredentials` checks it; it is the README that says more.
3. **URLs that are accepted and cannot be sent** (`client_url`). The constructor
   takes `HTTP://host` and `http://`; the libcurl transport rejects both on
   every call (`src/detail/curl_transport.cpp:93`).
4. **Calls after `Dispose`** (`dotnet_dispose`). `pkg/dotnet/README.md:69` says
   "`Dispose()` rejects future calls". `Invoke` leaves that to
   `SafeHandle.DangerousAddRef` (`NativeServer.cs:151`), which throws only once the
   count is zero: with a call in flight, one that begins after `Dispose` runs. It is
   safe (`NetLeaseHeld`), but calls that keep overlapping keep the module loaded.

Not a finding, since no text of the binding promises otherwise, but of the kind of
finding 1: `set_callback` of Python (`pkg/python/src/livekit_server/webhook.py:85-86`)
drops the replaced callback under its lock, and a `__del__` that calls the receiver
waits for its own thread. `UserCodeUnlocked` and `SlotCallsEnd` except exactly this.

## 6. What the models leave out

* **Cryptography** is OpenSSL's and BCrypt's: `Digest` has the calls and their
  failures, signatures and checksums are equalities. That the comparison takes
  constant time is not a property of states.
* **Protobuf and JSON** conversions: a model may not convert (`NotTheMessage`), a
  reply may not parse; what the fields of a model say is not modelled, and
  `include/livekit/server/model/models.h` and `protocol_fwd.h` only declare the
  names of the models. Of the envelope of the C ABI `CAbi` keeps which fields have
  the right kind, not the text.
* **A claim looked for by its text**: an issuer that is literally `exp` comes before
  the field and is found in its place (`src/webhook_receiver.cpp:38`).
  `ReadsTheField` says "the first occurrence", which is the field in the tokens of
  the server.
* **The global locale**: `ToJwt` writes its numbers to a stream
  (`src/access_token.cpp:167`), which would group the digits if the application had
  set a locale that does.
* **Allocation failures** only where the code handles them or they matter: copying
  callbacks, setting libcurl options, storing a response, the `emplace` of a
  connection (after which WinHTTP's new connection handle is lost; `leaked` in
  `WinHttpTransport` says so), the steps of a binding's call.
* **WinHTTP and libcurl themselves** are taken at what the code uses of them. WinHTTP
  follows redirects by default, up to ten (`MaxRedirects`), and the code leaves that
  so; libcurl is told not to (`src/detail/curl_transport.cpp:127`;
  `docs/platform-backends.md:45` gives the reason). Either may send a request again
  when the connection it reused turns out dead, WinHTTP also to authenticate: "at
  most once" counts what the transport asks for. "0 available" is taken for the end
  of a body, as in the code. libcurl delivers no body with an interim response
  (`docs/plan/server-sdk-implementation-plan.md:120` still lists redirects and
  truncated bodies among the tests to write).
* **A C++ application that calls `AccessToken` itself** has no check of the sum of
  time and lifetime (`src/access_token.cpp:163`); `LifetimeFits` is about tokens
  made through the C ABI.
* **Transports of a host** may fail a call as `invalid_argument` or
  `authentication` after the request went out (`src/c_api.cpp:165-170`), so
  `RejectedUnsent` and `NoLateAuthentication` are about libcurl. `EnvelopeTrue` says
  that a host is told so only if it broke its contract.
* **Grants**: an agent dispatch asks for `room_admin` even with an empty room
  (`src/agent_dispatch_client.cpp:16`); a `SendData` without a nonce goes out without
  one where Windows has no random bytes, and fails where `std::random_device`
  throws. Both are in `ServiceCalls` as they are.
* **The options' other checks** are `ClientContext`'s: `ServiceCalls` lets the C ABI
  refuse any options.
* **PHP** runs on one thread; **Ruby** leaves the answers of a failed
  `JSON.generate` to the collector; **Rust**'s compiler keeps a library alive for
  its calls; collected hosts destroy a replaced callback later and elsewhere.
  **Python** counts references, and `CallbackSlot` has what that runs; that its cycle
  collector may also run a `__del__` of anything at any allocation, under the lock
  too, is left out.
* **Loading** of native libraries, except Ruby's and Python's, which happen lazily
  and under locks. An open that fails leaves nothing, so it is no action.
* The request id of a call, the wording of messages, logging, and the builds,
  generators, examples and tests.

## 7. Plan

Done, in this order: the receiver and its promise; the RPC layer and the
transports under it; the leases of native modules; verification and the
arithmetic in front of it; the calls of the other bindings; their receivers; the
service clients and token lifetimes; the C ABI between them; the claims of a token
and the event of a webhook on their way through it; digests; the local references
of JNI; the proofs in section 4, which now cover every safety property of the runs.

Next: the order of `ReceiveAndDispatch` in the bindings with a key provider that
calls the receiver.

# Verification of the ESP32 hybrid key exchange

TLA+ models of the firmware and the server of
`esp32-hybrid-pqc-key-exchange`, model-checked with TLC, with proofs checked by
TLAPS. Paths below are relative to the repository (`src/`).

## The system

| Component | State | Operations | Talks to |
|---|---|---|---|
| **Device task** `firmware/main/main.c` (`pqc_task`), `crypto_hybrid.c` | `hybrid_ctx_t` (ephemeral secrets, session key, `handshake_complete`, `telemetry_counter`), session id, `telemetry_errors`, `packets_sent`, `telemetry_seq` | handshake, seal and post a packet, check its acknowledgement, wipe the context, delay | server, over HTTP; reads `server_ip` |
| **Server sessions** `server/server.py` | `sessions`, `session_counters`, `telemetry_log`, `handshake_count` | `handle_handshake`, `handle_telemetry`, restart | devices |
| **Wi-Fi station** `main.c` (`wifi_event_handler`, `wifi_init_sta`) | event group bits, `wifi_retry_count`, `server_ip` | the event handlers, the wait that starts the task | Wi-Fi driver, device task |
| **HTTP front end** `server.py` (`handle_request`) | one coroutine per connection, `latest_benchmarks` | read line, headers and body, time out, handle, respond, drain, close | devices, dashboard |
| **Benchmarks** `firmware/main/benchmark.c` | a context and a record per run, the array of latencies, running totals, the CSV log | campaign of 100 handshakes before the telemetry loop | server |
| **ML-KEM-768** `firmware/components/mlkem768` | none (pure functions) | key generation, encapsulation, decapsulation, reductions, transform, packing | device task; the server through a shared library |
| **Keccak and SHA-3** `mlkem768/src/ref/fips202_ref.c` | the state and its `pos` | absorb, finalize, squeeze, squeeze whole blocks; the sampling loop of `gen_matrix` on top | ML-KEM-768 |
| **Tools** `tools/`, `tls_benchmark/`, `dashboard/`, `benchmarks/`, `tests/` | none of the protocol's | log analysis, TLS timing, display, test drivers | |

`server/app.py` is a byte-for-byte copy of `server/server.py`.

### What is hard in it

- Requests and answers travel over Wi-Fi with a 5 s client timeout. The server
  may have acted on a request the device has given up on, so anything can be
  lost, late, repeated or out of order.
- Both directions of a session share one key, and an acknowledgement carries the
  counter of its packet. Nothing in a sealed message says who sealed it.
- Both ends keep everything in memory. A device reset puts its counters back to
  zero, a server restart forgets sessions and the counters that stop replays.
- The session table is a FIFO that other devices' handshakes push entries out
  of. A device does not learn of it except by failing.
- The loop that rotates keys counts acknowledgements and consecutive errors;
  what bounds the number of packets under one key is the product of the two.
- Without its native library the server still completes handshakes, with keys
  that do not match.
- Wi-Fi events, the wait in `app_main` and the task on the other core share
  `server_ip` and the event group without a lock.
- A connection to the server can stop after any piece of a request, close one
  way or both, fall silent, or not read what it asked for, while other
  connections run at each of its awaits. Some exceptions come before the response was written, some after.
- The campaign goes on through handshakes that fail and repeats runs whose key
  generation failed; four records of the same runs must stay in step.
- ML-KEM computes on `int16_t` with values that are reduced only now and then,
  carries factors of 2^16 from one function to the next, and reads and writes
  eight packings. The sponge keeps a position that two kinds of callers use in
  different ways.

`PROJECT.json` lists the hazards with their lines and the properties for each.

### What makes each component correct

- Device: it never seals two packets with one counter under a key; an
  acknowledgement of the server is taken only for the packet it is for; a key is
  always wiped in the end.
- Server: a packet is logged once and in order; it never seals two
  acknowledgements with one counter under a key and takes none of them for a
  packet; the two tables stay in step,
  bounded, and hold the newest sessions.
- Together: equal keys for a session both hold; a device is never locked out of
  its own session; the channel the application sees is `TelemetryChannel`.
- HTTP front end: a client that listens gets one answer at most; without a
  confirmation nothing happened; a GET serves the last upload that was
  confirmed; a connection hangs only at a client that stops in its headers or
  does not read.
- Benchmarks: rows, array and summary are of the same runs; a row's payload
  tells whether a full response was read; the telemetry loop starts.
- ML-KEM: each pass computes what the algebra says and stays within its
  integers; what is packed is read back; together an ideal key encapsulation.
- Sponge: the stream of FIPS 202 however the calls cut it; sampling loses and
  repeats nothing.
- Station: it reports when it gives up, gives up only after ten retries in a
  row, settles the address before the task reads it, starts the task unless it
  stays associated without a lease.

## The modules

| Module | Models |
|---|---|
| `HybridNet` | the messages on the wire and the symbolic cryptography; constants both ends share |
| `EdgeDevice` | `pqc_task` and the `hybrid_*` functions it calls; one action per stretch of code between two waits |
| `PqcServer` | the two handlers and the restart; one action per request |
| `TelemetryChannel` | the abstract specification: seal, log, count as acknowledged |
| `HybridSystem` | devices, server and network together; the properties; the refinement |
| `HybridSystemMC` | the symmetry set for TLC |
| `WifiStation` | the event handler, `app_main`'s wait, the driver's events |
| `HttpServer` | `handle_request`: connections interleaved at its awaits, timeouts, exceptions, the handlers' effects |
| `BenchmarkCampaign` | the campaign's loop, one run of it, and the server and network it meets |
| `KyberArith` | `reduce_ref.c`, the layers of `ntt_ref.c`, `poly_ref.c`, `cbd_ref.c` and the packings, as operators on integers with the code's widths |
| `KyberRing` | those operators applied to polynomials, one pass per action, with the algebra as reference |
| `KyberKem`, `KyberKemMC` | key generation, encapsulation, decapsulation on top of `KyberArith`; ciphertexts changed or sent to the wrong owner |
| `IdealKem` | the abstract specification of a key encapsulation |
| `KyberSponge` | `keccak_absorb`, `_finalize`, `_squeeze`, `_squeezeblocks`, the one-shot functions, `gen_matrix`'s sampling |
| `HybridSystemProofs` | the session: types, counters, keys, log, acknowledgements, refinement; the session table, simulation mode |
| `WifiProofs` | the station |
| `HttpProofs` | the front end's types, answers and downloads |
| `CampaignProofs` | the campaign's types, rows, sessions and figures |
| `KyberSpongeProofs` | the sponge's types, the stream it gives, the sampling from it |
| `KyberArithProofs` | lemmas about `KyberArith` that the next two rest on: the two modular reductions, the bounds of each pass, the packings, the decoding of messages, and what each pass computes modulo q |
| `KyberRingProofs` | the bounds of every pass of the transform and the remainders it holds, the packings read back, the messages |
| `KyberKemProofs` | the calls of the key encapsulation, its types, what decryption leaves of a message, its refinement |

### How state and actions correspond to the code

*Device.* `phase` is the place in `pqc_task`: `idle` at the top of the loop,
`handshaking` inside the first POST, `session` at the head of the telemetry
loop, `posting` inside its POST, `backoff` in a `vTaskDelay` before the next
handshake. `ctx` keeps four things of `hybrid_ctx_t`: which ephemeral key pairs
it holds (0: none, wiped), the session key, `handshake_complete` and
`telemetry_counter`. Every failure path of the loop is an action
(`SetupFails`, `HandshakeFails`, `EncryptFails`, `TelemetryFails`), and each
includes the cleanup and the counting the code does on that path. `EncryptFails`
has two outcomes, before and after the counter moves. Key generation can only
fail in the ECDH set-up, before it writes to the context. What it draws comes
from the fallback of `hybrid_keygen`: `mbedtls_ecdh_make_params` writes a record
with a header, for which 32 bytes are too few, so it fails every time. If it
ever succeeded, the private key would stay in `ecdh` and not reach the context;
the model does not cover that. `uint32_t` values are taken modulo `UintMod`.

*Server.* `handle_handshake` and `handle_telemetry` contain no suspension point
between reading the request's body and writing the response, so on the asyncio
event loop a request is one step. Session ids are 16 random bytes; the model
numbers them in the order they are drawn, which is the insertion order of the
dictionary, and never repeats one. Requests the server answers with an error
change nothing in its tables; for the device that is one of its failure actions.
A restart clears all four attributes. `accepted` and `confirmed` are history
variables.

*Network.* Four sets that only grow. A receiver may take any message that was
ever sent, as often as it likes, or none. What a device may be given as the
answer to a packet (`Answers`) includes what devices sealed themselves, with the
session id cut off (`Sealed`). The reverse, an acknowledgement brought to the
server as a packet, is refused in every state, which is `OwnAckIsStale`, and
therefore no action. Truncated and corrupted bodies fail
the HMAC or the GCM tag and are the failure actions.

*Cryptography.* A session key is identified by what the HKDF's input depends on:
the client's ephemeral pairs, the server's ephemeral key and encapsulation
(drawn with the session id) and whether the two ends' KEM secrets agree. Without
the library the server uses random bytes as ciphertext and as secret, and the
client's ML-KEM rejects implicitly: two different values. An HMAC verifies
exactly over the transcript it was made for, a GCM tag exactly under the key it
was made with. An IV is its counter and a `token` for its 8 random bytes: the
server's draws are numbered, 0 stands for a device's. The PSK is common to all devices.

*Station.* The event task handles one event at a time. The GOT_IP branch is two
actions, because the other core may run between writing `server_ip` and setting
the bit. The driver is external: an attempt is refused, which posts
DISCONNECTED, or the station is associated (`joined`), which posts nothing the
handler has a branch for; then DHCP may answer, which posts GOT_IP, or not. A
link, with or without a lease, may be lost.

*HTTP front end.* A slot is a connection. `phase` is the await its coroutine is
at (`line`, `headers`, `body`, `drain`) or a point the code passes without one
(`handle`, `closing`); `sent` counts the three pieces of the request that have
arrived. What `readline` and `readexactly` give follows from `sent` and from
whether the client is still sending (`open`), has shut down its side but listens
(`eof`) or is gone: a short read, `IncompleteReadError`, or `ConnectionReset`. `AwaitsReader` is a connection
whose `drain()` or `wait_closed()` waits for its client: with a response longer
than the buffers, which the stored benchmarks can be, as uploads have no limit.
`TimeOut` is `asyncio.wait_for`, enabled in the two phases that use it. A handler
is one step, with the response it writes. Request bodies are the classes the
handlers tell apart; for an upload a JSON object, the empty object, other JSON
that is true or false to Python, text that is no JSON, bytes that are no UTF-8.
The state of the two device endpoints is in `PqcServer`; here it is enough which
slots changed it. `answers`, `performed` and `uploads` are history variables.

*Campaign.* `at` is the place in the loop. A run draws its figures from `Times`,
the network handshake one of six outcomes (two of them with a full response:
one the device accepts and one `hybrid_process_server_response` rejects, because
it was damaged or a step of the key derivation failed), and `payload` follows
`*response_len` through `do_network_handshake`, which leaves the size of the
buffer in it on an early return. `Never` is the `999999.0f` of `min_ms`; the
array has the resolution of `Unit`, since the mean and the deviation are taken
from it. Integers stand for the floats, so the rounding of the running sum is
not modelled. The run number that `memset` clears is left out of the rows, and
the key material of a run, its context and the local `ss` of the encapsulation
measured without a server, is not modelled.

*ML-KEM arithmetic.* `Int16` wraps as two's complement does.
`MontgomeryReduce`, `BarrettReduce`, the compressions and `poly_tomsg` are
translated operation by operation; TLC's own integers are 32 bits, so the
products of the compressions are taken by bytes. The table of zetas is the
code's, and the layers pick from it as its loops do. `KyberRing` keeps two
`int16_t` arrays and makes one pass per action; its reference knows neither the
table nor the loops: it computes powers of 17, takes the exponents from the tree
of factors of X^N + 1 (`RootExponent`), divides by Horner's scheme (`Remainder`)
and multiplies coefficient by coefficient (`NegacyclicProduct`).

*Key encapsulation.* `KyberKem` composes the passes into `indcpa_*` and
`crypto_kem_*`. Hashes, random bytes and the matrix are fixed functions of their
arguments (`Mix`, `Digest`, `Draw`), the secrets are symbolic (`<<"key", m, h>>`,
`<<"rejected", z, c>>`). `Arrive` hands the owner of a key any ciphertext that
was issued for any key, whole or with one byte changed.

*Sponge.* The permutation is symbolic: its result is named by everything XORed
into the state before it, so two states are equal only if the code fed them the
same blocks. Input is the bytes 0, 1, 2, ...; a byte of the state is the set of
what was XORed into it. A candidate of twelve bits is named by its place in the
stream, and which candidates are below q is any subset. `SqueezeBlocks` is taken
at a block boundary only (`pos = Rate`), where its callers in this repository
are; called in the middle of a block the code would lose the rest of it, which
the model leaves out.

## The runs

| Run | Instance | Shows |
|---|---|---|
| `Rotation` | one device, two handshakes, two sessions, errors 3 (the code's value), rotation after 1, counters modulo 4, fairness | types; neither side seals twice with one counter under a key; an acknowledgement of the server stands for a logged packet; key agreement with the responses of an earlier attempt under way; the system implements `TelemetryChannel`; every session key is wiped in the end |
| `System` | two devices with one key generation each, three sessions, table limit 1 | key agreement between devices, order of the log, the server refuses its own acknowledgements, devices stay ahead of the server, tables in step, bounded and holding the newest sessions |
| `Simulation` | two devices, no native library, errors 2, rotation after 2, counters modulo 5 | the server never logs or acknowledges anything; the counter's bound where devices take their own packets for answers, the errors starting anew within a session |
| `Wifi` | ten retries (the code's value), two gateways, `SERVER_HOST` 0.0.0.0 | the station's properties, safety and liveness |
| `Http` | two connections at a time, three in all | one answer; no confirmation, no effect; what GET /api/benchmarks serves after any uploads; connections hang only at a client that stops in its headers or does not read |
| `Campaign` | three runs, two times, fairness | figures match the rows; a row's payload tells whether a full response was read; a session per row at most; the telemetry loop starts |
| `Sponge` | blocks of six bytes, inputs and outputs of up to 13, polynomials of five coefficients, up to four blocks | the output is FIPS 202's stream, however it is cut; sampling takes the first candidates below q |
| `Ring` | the code's own 256 coefficients, fourteen cases | layers are remainders, products are products modulo X^256 + 1, bounds of every pass, packings read back, messages survive |
| `Kem` | polynomials of eight coefficients, K = 3, two key pairs, two encapsulations, two decapsulations | `KyberKem` implements `IdealKem`; ciphertexts issued decrypt to their messages; the error is noise; types |
| `RotationLimit` | expected violation | the paper's "strictly rotated every 50 packets" against a loop that counts acknowledgements |
| `Reflection` | expected violation | the paper's "directional reflection ... is mitigated by the monotonic sequence counter" against a check that a device's own packet passes |
| `CampaignSuccess` | expected violation | "Failure Rate: 0%% (%d/%d successful)" counts every run that generated keys, also with no server at all |

`RotationLimit` does no harm to the properties above: a key seals at most three
times as many packets as documented, far from a counter wrap. The session table
settles at one entry more than the limit the code tests (`MaxSessions + 1`, 101):
the test is strict and comes before the insertion, and `TablesHoldNewest` says so.

`Reflection` bounds what an acknowledgement means. The sealed part of a packet
carries the counter `hybrid_decrypt_response` expects and verifies under the same
key, so a device whose packet comes back to it counts it as acknowledged
although it is not in the log. What does hold is stated separately:
acknowledgements *of the server* stand for logged packets (`AckAnswersLogged`),
the server refuses them as packets (`OwnAckIsStale`), and nothing is logged that
was not sealed, twice or out of order (`ChannelSpec`), all with reflection
possible. For the same reason `CounterOncePerSide` speaks of each side: a packet
and its acknowledgement share key and counter, and only 8 random bytes keep
their IVs apart.

`CampaignSuccess` concerns what the published figures mean.
`PayloadTellsAnswer` says how far the rows help: a payload other than that of a
full exchange belongs to a run without a handshake, but a rejected response and
an accepted one give the same row.

*Bounds.* `MaxKeygens` and `MaxOpened` bound the handshakes a device starts and
the sessions the server opens; nothing else is bounded, resets and restarts
included. In `Rotation` two handshakes and two sessions of one device are enough
for anything of an old session or an abandoned attempt to meet a new one; in
`System` three sessions in a table that settles at two are enough for eviction to
happen, to a device in the middle of its session; in `Simulation` a session with
two acknowledgements lets the error count start anew within it. `MaxErrors`,
`RotateAfter`, `MaxSessions` and `UintMod` stand for 3, 50, 100 and 2^32. They
are small, and `UintMod` is so small that `telemetry_seq`, which nothing bounds,
does wrap (`DeviceAssumption` says how small it may be). Devices run the same
program and are symmetric; the symmetry is used for safety only. Deadlock is
checked: with both bounds used up a device can still fail to set up.

In `Http` two connections at a time show every interleaving of a pair of
coroutines; they share nothing but `latest_benchmarks`, which one of them writes.
Three in all are an upload, another that displaces it and a download, in any
overlap, or a slot used again after a connection ended in any way. In `Campaign`
three runs give the running minimum and maximum a first, a middle and a last;
the two times are of different parity so that the array's rounding shows, and
`RequestLen`, `ResponseLen` and `BufferLen` keep the order of 1249, 1168, 1200
that matters, that of the last two (`CampaignAssumption`).

In `Sponge` the length of a block only has to be a multiple of three, so that
sampling starts; thirteen bytes are two blocks and one byte, so an
input or output can end before, at and after a block's end, twice. Five
coefficients from blocks of four candidates need one block, several, or end in
the middle of a pair.

`Ring` uses the code's constants. Its cases hold, between them, every residue
for each of the packings, every error from -831 to 831 for both values of a
message bit, and products of the extremes (alternating 0 and 3328), of noise and
of centred values. `poly_tomsg` turns out to read a zero correctly with an error
of 832 as well; 832 flips a one.

`Kem` is small in N only: the layers, reductions, packings, K and q are the
code's, and `InvF` follows from N as 1441 does from 256. With 256 coefficients
the error of an honest ciphertext stays below q / 4 with overwhelming
probability, not always: the bound `12 * K * N + 107` proves correct decryption
for small N only, and the failure probability for N = 256 is not shown here.
Changed bytes include ones that decrypt to the same message.

*Fairness.* `FairSpec` assumes of each device that its task goes on: it is the
only application task pinned to its core and every wait in it has a timeout
(`timeout_ms = 5000`, `vTaskDelay`). The network, the server and the absence of
resets are not assumed to be fair. For the station, the tasks are scheduled and
an attempt to connect ends in a refusal or an association, because the driver's
own authentication and association timers run. Neither a DHCP answer nor the
loss of a link is promised, so `LaunchedUnlessNoLease` has an exception: an
association without a lease posts no event the handler acts on, and `app_main`
waits for ever (`portMAX_DELAY`). For the HTTP
front end the event loop runs every coroutine that can go on; a client promises
nothing, neither to send, nor to read, nor to close. For the campaign the task
runs, every call of `esp_http_client` returns by its timeout, and a key generation that is tried
again for ever succeeds some time (strong fairness of `KeygenSucceeds`). `timeout_ms`
bounds each read; that a response sent a few bytes at a time comes to an end is
assumed. Without the fairness of `KeygenSucceeds` the campaign, and the device,
would hang, since line 313 retries without limit.

Seven runs turn the deadlock check off, because what they model does stop: a
station that gave up stays offline, a server nobody connects to waits, a
campaign that is over (in both its runs) hands the task to `EdgeDevice`, and the
three ML-KEM runs are computations that end.

## The proofs

The session's theorems are proved for every set of devices, every bound, every
error limit, rotation limit and table size with `RotateAfter * MaxErrors < UintMod` (150 < 2^32 in the
code), and for both values of `NativeKEM`:

| Theorem | States |
|---|---|
| `TypeInvariant`, `TypeCorrect` | `TypeOK` |
| `CounterIsBounded` | `CounterBounded` |
| `KeysAgree` | `KeyAgreement` |
| `OncePerSide` | `CounterOncePerSide` |
| `LogIsOrdered` | `LoggedInOrder` |
| `AckMeansLogged` | `AckAnswersLogged` |
| `OwnAcksRefused` | `OwnAckIsStale` |
| `DeviceStaysAhead` | `DeviceIsAhead` |
| `ChannelImplemented` | `ChannelSpec`: the system implements `TelemetryChannel` |
| `NewestSessionsKept` | `TablesHoldNewest` |
| `SimulationIsInert` | `SimulationLogsNothing` |
| `StationTypes`, `OfflineIsReported`, `AddressIsKnown` | the station's invariants |
| `FailureNeedsRetries`, `AddressIsSettled` | the station's action properties |
| `HttpInvariant`, `HttpTypes` | the front end's inductive invariant, `TypeOK` |
| `AnsweredOnce`, `SilenceIsSafe`, `DownloadsFollow` | `OneAnswer`, `SilenceMeansUndone`, `DownloadFollowsUploads` |
| `PayloadTells`, `SessionsAreCounted` | `PayloadTellsAnswer`, `OneSessionPerRow` |
| `FiguresAreOfTheRows`, `CampaignTypeCorrect` | `FiguresMatchLog`, the campaign's `TypeOK` |
| `SpongeInvariant`, `SpongeTypeCorrect` | the sponge's inductive invariant, `TypeOK` |
| `OutputIsTheStream` | `OutputIsStream` |
| `PolynomialIsSampledInOrder` | `SampledInOrder` |
| `BarrettIsCentred`, `MontgomeryIsReduced` | what the reductions return, for every argument allowed |
| `RingInvariant` | the inductive invariant of the passes |
| `PassesStayBounded` | `BoundsOfPasses` |
| `WhatIsReadWasWritten`, `MessagesSurvive` | `ReadBack`, `MessageSurvives` |
| `LayersHoldRemainders` | `LayersAreRemainders`: what the transform, the product and the way back compute |
| `CallsInvariant` | the inductive invariant of the key encapsulation's calls |
| `KemTypeCorrect` | `KyberKem`'s `TypeOK` |
| `DecryptionLeavesTheError` | `indcpa_dec` after `indcpa_enc`: the message and the error, for every N |
| `ErrorsAreNoise` | `ErrorIsNoise` |
| `IssuedDecrypts` | `DecryptsIssued`, for N = 8 and 16 |
| `EncapsulationIsIdeal` | `IdealSpec`: under `[]DecryptsIssued`, `KyberKem` implements `IdealKem` |
| `ShortRingsAreIdeal` | `IdealSpec` for N = 8 and 16, with no such hypothesis |

What they are proved for:

- Front end: any number of connections at a time and in all.
- Campaign: any number of iterations, any sizes with a buffer larger than a
  response (`CampaignAssumption`), and any times that are bounded and whose sums
  `min_ms`'s first value exceeds (`TimesAssumption`: a run's waits end by their
  timeouts, well before 999999 ms).
- Sponge: every `Rate` (the code's 168, 136 and 72 among them), every length of
  seed, input, output and polynomial, and every number of first blocks, zero
  included. Sampling starts only at a rate divisible by three, as the code's
  `#error` demands.
- Reductions: every `int16_t`, and every product in the range
  `montgomery_reduce`'s comment asks for.
- Passes: every N from 8 to 256 that the layers divide (`SizeAssumption`), every
  factor f that is an `int16_t` (`FactorAssumption`), every set of cases. The
  lemmas below them (`NttLayerBound`, `InvNttLayerBound`, `BaseMulBound`,
  `WholeReadBack`, `FourReadBack`, `TenReadBack`, `MessageReadBack`, ...) are for
  every polynomial within the bounds they name, not for the cases only.
  `ScaleAssumption`, that f undoes what the layers multiply by, is used by
  `LayersHoldRemainders` and the theorems on decryption only: the bounds hold
  without it. `LayersHoldRemainders` speaks of the inputs of the runs; the lemmas
  it joins (`LayerHolds`, `RemLayer`, `ProductTransforms`) are for every
  polynomial.
- Key encapsulation: every N of `SizeAssumption`, any coins, messages (sets of
  bits), changes of a byte and bounds (`KemAssumption`, `ChangesAssumption`).
  `KemTypeCorrect` needs no more, and `DecryptionLeavesTheError` and
  `ErrorsAreNoise` no more than `ScaleAssumption` besides; for the refinement
  there are two hypotheses. `HashAssumption`
  says that no two of the coins give public keys with the same hash, as SHA3-256
  does of any that will ever be made; TLC evaluates it on the run's coins.
  `[]DecryptsIssued` says that decryption undoes encryption. `IssuedDecrypts`
  proves it where no coins can make the error reach q / 4 (`ErrorBound` is
  36 N + 106, 682 for N = 16); for N = 256 it is a matter of probability, and
  what is proved is that the message is read wherever the error, given there as a
  formula of the noise, stays within 831.

For the session none of the properties is inductive by itself. The argument goes
in layers, each proved from the ones before:

1. `TypeInv`: a packet is well typed only because a device in a session holds a
   session id and a key, so types and `ContextMatchesPhase` are one invariant.
2. `CounterInv`: `telemetry_counter` is at most
   `packets_sent * MaxErrors + telemetry_errors`, plus one while posting. With
   the loop's limits no counter in use wraps; this is where
   `RotateAfter * MaxErrors < UintMod` is needed.
3. `SessionInv`, `DeviceKeyInv`: the table's key and the device's key of a
   session both come from the one welcome with that session id. Key agreement
   follows.
4. `NonceInv`: packets under a device's present key are behind its counter, and
   no packet exists under a key that is still to be drawn. A reset is safe
   because the key goes with the counter.
5. `LogInv`: the log of a session is behind the server's counter for it as long
   as the session is in the table, and a session that left the table never
   comes back.
6. `AckInv`: an acknowledgement of the server is for a logged packet, and no
   other has its counter under its key; with (4) the counter and the key identify
   that packet, with (5) the server's counter is not behind it. `ConfirmedInv`
   says of what a device counts, reflected packets included, that it was sealed
   and is counted once.
7. `CounterSource`: the server's counter was taken from a packet, which (4) puts
   behind the device's.
8. The refinement maps sealing, logging and confirming to the abstract actions
   and every other step to a stutter.
9. `TableInv`: the table is an interval of session ids that ends at the last one
   opened; its first id is what eviction removes.

For the station, `QueueMatchesRadio` says what the event queue can hold in each
state of the driver (never more than two events), `BitsMatch` relates the bits
to the retry counter and the address.

For the front end, `HttpInv` has a part for each connection (`SlotInv`) and one
for what is stored. A connection in `drain` or `closing` is the only one that
can have written or changed anything, and a `drain()` that fails has nobody to
read its second response; these give `OneAnswer` and `SilenceMeansUndone`.
`StoredMatchesUploads` relates `latest_benchmarks` to the uploads handled so far;
`OthersKeep` shows that a later upload does not disturb what an earlier answer
said, and that a step of one connection leaves the others' parts alone.

For the campaign, `RunInProgress` says what is known at each place of the loop:
the index is in the array's range, and the record's payload matches the outcome
before the row is printed. `TotalsInv` adds that the running totals are those of
the rows printed so far: `min` is `Never` only before the first row and is one
of the rows' figures afterwards, which needs that no run takes as long as
`Never`; the sum is the last of the partial sums of the log. `SumsAreUnique`
shows that the log has only one sequence of partial sums, `SumsGrow` that a row
more only extends it.

For the sponge, the loops of `keccak_absorb`, `keccak_squeeze` and
`keccak_squeezeblocks` are given in closed form: `Absorbed(n)` is the state and
the position after n bytes, `ReadState` the state after so many blocks were
read, `Piece(n, from, len)` a part of the stream. `StateInv` says that state and
`pos` are always those, which is where a caller of `squeezeblocks` has to be at
the end of a block. Two pieces that meet make one (`PiecesJoin`), so it does not
matter how the output is cut. `PaddingOfPart` is the numeric edge: an input that
ends one byte short of a block shares that byte between domain and last bit, one
that fills its blocks pads a block of its own, and `keccak_absorb_once` gives
the same. `SampleInv` says that the coefficients are what is kept of the
candidates read, cut at `Length`; it needs that candidates of different blocks
are different (`CandAtInjective`), since what a later block is found to hold
below q must not change what was kept of an earlier one (`KeptLocal`).

The loops of both are recursive functions. What such a function computes is
proved by induction in the form of sets of numbers: `LeastElement` is what the
library knows of `<` on `Nat` being well founded, `SetInduction` follows from
it, and each use of it takes the set of the numbers for which the claim holds.
That a recursive definition has a value at all is proved the same way
(`KeptExists`, `RejExists`).

The reductions are proved from the quotient and the remainder of one division,
with every constant a number: what is left is linear arithmetic. The passes
follow from them. `TransformInv` bounds the coefficients by how many layers were
done: each adds at most q - 1 on either side, seven of them stay within
`int16_t`, so that no addition wraps and every `fqmul` is given a product it may
be given (`FqMulBound`); `poly_reduce` centres what comes out, and products of
centred values, two of them added, are again in range. `BytesInv` says what the
bytes of each packing hold. That they give the values back is divided into a
statement on groups (`Pairs`, `GroupsOfFour`, bytes and the coefficients they
share), one on bits, and, for the two compressions, that the multiplication by
80635 or 1290167 and the shift are the rounded division by q (`MulShift24Is` for
the product taken by bytes, `Compress4Facts`, `Compress10Facts`). `NoisyBit` is
the decision of `poly_tomsg` for each error.

That the passes compute what they should (`LayersHoldRemainders`) takes relating
a reference that knows no table to the table and the loops. `RemaindersInv` says
that the arrays are the remainders, or (len / 2) / R times those of the product,
up to multiples of q; with `TransformInv`, so that no `int16_t` wraps, it is
inductive. Its steps:

1. The functions of the reference are recursive. That they have values is proved
   once for all of them (`Recursion`), by induction stated as a fact about sets of
   numbers (`SetInduction`).
2. The zetas are powers of 17: entry k of the table is R times 17 to the power
   of k's seven bits in reverse order (`ZetasArePowers`, `ZetaIsPower`). The tree
   of factors halves exponents, which is reversing bits (`ExponentIs`), so the
   root of each block in the code is the one of the tree (`RootIsPower`).
3. Dividing by X^2l - w^2 and then by X^l - w is dividing by X^l - w, term by
   term of Horner's scheme (`RemainderSplits`): one layer of `ntt` turns the
   remainders of one length into those of half the length (`RemLayer`), and all
   of them together are `Transforms` (`RemTransforms`), the relation described
   below.
4. The reference product is a sum of coefficients times rotated polynomials
   (`PartialIs`), a polynomial is a sum of its coefficients times powers of X
   (`FirstStep`), and a power of X is transformed to what rotating does
   (`UnitTransforms`): so the product is transformed to the product in the pairs
   (`ProductTransforms`), which is what `basemul` computes.
5. `invntt`'s layer is undone by `ntt`'s up to a factor 2, and a layer of `ntt`
   has one inverse (`LayerInjective`), so the remainders double on the way up;
   at its end f takes the N / 2 away and gives the R back (`GainFacts`,
   `OneOverR`).

For the key encapsulation, `CallsInv` says that every key pair is the one of its
coins, that every ciphertext issued is the encryption of some message for its
owner, and that every secret given out is what decapsulation makes of the
ciphertext. It needs nothing of the arithmetic. The argument for
`EncapsulationIsIdeal` is that of the Fujisaki-Okamoto transform: `verify`
compares every byte, so `crypto_kem_dec` gives a `"key"` secret only for a
ciphertext that is the encryption of what it decrypts to
(`VerifyIsEquality`); a ciphertext issued decrypts to its message, by hypothesis,
so it passes; and equal secrets mean the same message under the same
public key, hence the same ciphertext (`GivenIsIdeal`, `HashFacts`). A ciphertext
that was changed, or issued for another key, either fails the comparison, and
gets `rkprf`'s secret, which no encapsulation returns, or is itself an encryption
nobody issued.

`KemTypeCorrect` takes the bounds of the single layers to whole polynomials. The
loops of `ntt`, `invntt_tomont` and `polyvec_basemul_acc_montgomery` are recursive
functions over the layers' lengths or the vector's entries; that they have values
is `DownExists`, `UpExists` and `AccExists`, and a claim about every layer is
proved along the lengths (`Downwards`, `Upwards`). Going down, `Room(l)` is how
much a coefficient has grown before the layer of length l; going up, every layer
reduces. With that, `IndcpaKeypairTyped`, `IndcpaEncTyped` and `DecryptTyped`
follow the code line by line: what `cbd2` and the matrix give, the transform of
it, a sum of three products (`BaseMulAccBound`, for a first factor that is any
`int16_t`, as the twelve bits of `poly_frombytes` need not be reduced), the
additions and what the reduction leaves, down to the bytes of the packings. A
ciphertext that was changed on the way is still bytes, which is all decryption
needs; re-encryption takes whatever message came out. `TypeInv` says this of the
ciphertexts and of what `poly_tomsg` gets, and is inductive together with
`CallsInv`.

That decryption undoes encryption is proved on the code's own arithmetic, modulo
q (`Cong`, `Same`):

1. A layer of `ntt` is, up to multiples of q, `Layer`: two halves of a block from
   the block, with the root the zeta table gives (`Root`, `NttLayerSame`). The
   zetas are in order: each root is a square root of the one above it
   (`RootSquare`), the second half's is the negative, and `invntt`'s zeta undoes
   `ntt`'s (`InverseRoot`).
2. `Transforms(x, y)` says that y is what all the layers make of x. It is a
   relation modulo q, so it composes: it is linear (`TransformsPlus`), takes
   multiplication by X, as each layer does modulo its root, to multiplication by
   X in the pairs (`TransformsShift`), takes 1 to 1, and has one value each way
   (`TransformsOnto`, `TransformsOneToOne`). `ntt` computes it
   (`PolyNttTransforms`) and `invntt_tomont` undoes it with a factor R
   (`PolyInvNttTransforms`, by `Gain`, what the layers not yet undone have made
   of a coefficient; here f counts).
3. `basemul` is the product in each pair over R (`BaseMulSame`), pairs are a
   commutative ring (`ProdSwap`, `ProdAssoc`, `ProdPlus`), so `Dot` is the inner
   product of `polyvec_basemul_acc_montgomery`, and R cancels in `DotBack` and in
   `poly_tomont` (`DotInMontgomery`).
4. A product in the ring of small polynomials is small: by Horner's scheme it is
   N additions of a coefficient times a rotated polynomial (`ProductWithin`).
5. `KeyRead`, `EncryptionErrors` and `DecryptionParts` say what is read of the
   key and the ciphertext, roundings as errors (2 and 104). `RowTimes` and
   `Rearranged` are (A s + e) . r - s . (A^T r + g) = e . r - s . g, with
   `gen_matrix` giving A to one function and its transpose to the other.
6. What is left of v - s . u is the message and the error
   (`DecryptionLeavesTheError`); `ErrorWithin` bounds it, `ErrorsAreUndone`
   decodes it.

`SentInv` carries it to the states: the ciphertext last decrypted, where the
model remembers its message, is that message's encryption under the pair that
decrypted it, since a byte changed by nothing leaves the ciphertext as it was.

*Model-checked only:*

- liveness (`KeyIsRetired`, `LaunchedUnlessNoLease`, `StallsOnlyOnClient`,
  `TelemetryStarts`), which is out of the prover's reach;
- `DecryptsIssued` for N above 16, which does not hold of all coins (the run
  `Kem` has N = 8);
- the expected violations, which are counterexamples.

## Plan

1. Secure session: `HybridNet`, `EdgeDevice`, `PqcServer`, `HybridSystem`,
   `TelemetryChannel`, the station, and their proofs. *Done.*
2. `HttpServer`, `BenchmarkCampaign`, and the proofs of their invariants. *Done.*
3. `KyberArith`, `KyberRing`, `KyberKem` with `IdealKem`, `KyberSponge`: modelled
   and checked; every property of the sponge and of the passes proved, and of
   `KyberKem` the types, the errors of decryption and the refinement of
   `IdealKem`. *Done.* Left to TLC: `DecryptsIssued` for N above 16.

## Not modelled

- The primitives: SHA-256, HKDF, HMAC, AES-GCM, X25519, and the 24 rounds of
  Keccak's permutation, one straight computation on 1600 bits that TLC has no
  means to compare with anything but itself.
- Constant-time execution: the masks of `cmov` and `verify` are modelled by
  what they compute.
- Weak randomness: ephemeral keys and session ids never repeat.
- Of the benchmarks: `benchmark_run_suite`, which nothing calls, heap and cycle
  figures, the local encapsulation's cost, the mean and the deviation, and the
  wiping of a run's key material (the local `ss` of `benchmark_run_single`,
  line 142, is not wiped by the code).
- Concurrent writes to the console, wording and layout of logs, display.
- `test_google_connection`, which nothing calls.
- GET /, GET /api/telemetry and OPTIONS, which read and answer only.
- `tools/analyze_endurance_log.py`, an offline reader of log files with a
  single pass and no state that outlives it.
- The dashboard, the TLS baseline, scripts and tests (see `PROJECT.json`).

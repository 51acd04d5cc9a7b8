# Verification of esp-pqc in TLA+

This directory models the parts of esp-pqc whose correctness depends on order,
failure and state that outlives a call: first of all the bootloader of
`examples/pqc_boot_verify`, which checks an ML-DSA-65 signature next to Secure
Boot V2 before it starts an application. The modules are translated from the
source; TLC checks them on small instances, and TLAPS proves the most important
results for every value of the constants.

Paths below are relative to `src/`; `IV/` stands for
`examples/pqc_boot_verify/bootloader_components/esp_image_verify/`.

## 1. The system

| Component | Source | State it keeps | Operations | What makes it correct |
|---|---|---|---|---|
| Signature block | `IV/include/pqc_sig_block.h` | none: 8 KB in flash behind the classical sector | layout, sizes per algorithm | a block the tool writes passes, anything else does not |
| PQC verifier | `IV/src/pqc_bootloader_verify.c`, `pqc_stack.S` | `s_tlsf_heap`, `s_sig_obj`, `s_digest`, `s_block`, borrowed SRAM | `pqc_bootloader_verify` | accepts only what the owner signed; leaves nothing behind that spoils the next call |
| Image loader | `IV/src/esp_image_format.c` | `ram_obfs_value`, the caller's metadata, SRAM, the SHA context | `bootloader_load_image`, `bootloader_load_image_no_verify`, `esp_image_verify` | only images with both signatures run, unaltered; a refused one does not keep the next from booting |
| Signing tool | `examples/pqc_boot_verify/scripts/pqc_sign.py` | files | `keygen`, `sign`, `header`, `verify` | signs what the device checks; signing again replaces the block |
| Memory layout | `.../bootloader_components/main/ld`, `IV/Kconfig` | none | TLSF or stack strategy | what is borrowed is not something that was loaded |
| Keccak port | `components/liboqs/ports/fips202_kyber.c` | sponge state and position | absorb, finalize, squeeze | any split of the calls gives the same stream |
| liboqs start-up, random numbers | `components/liboqs/ports/esp_liboqs_init.c`, `esp_rand_adapter.c` | the registered callback, the entropy source on or off | init, random bytes | the source is on while bytes are drawn |
| Hybrid TLS client | `examples/esp_hybrid_tls/main/esp_hybrid_tls.c` | TLS contexts, a socket, two buffers, the stored file, a hash operation | one request, its answer stored and hashed | every path releases what it opened; what is stored is the body; failures are told |
| Signature example | `examples/signature_basic/main/signature_basic.c` | two tasks, a semaphore, buffers, `ml_dsa_metrics` | `app_main`, `test_signature`, the classical tests | the tasks take turns; buffers are freed and secrets wiped on every path; what is reported was done |
| KEM example | `examples/kem_basic/main/kem_basic.c` | a task, a semaphore, buffers | `app_main`, `test_kem` | the same |
| Emulator runner | `ci/emu_run.py` | output seen so far, a reader thread, a deadline | run and judge | PASS means that the work was done; every run is judged and ended |
| Test applications | `test_apps` | a task with a small stack | memory tests | the task never outlives what it uses |

How they interact: the signing tool appends the block at build time. At boot,
ESP-IDF's bootloader (external) calls the image loader for one partition after
another; the loader reads and loads the segments, finishes its SHA context, calls
the verifier, then the classical check, and only then takes the obfuscation off
what it loaded. The verifier shares with the loader the flash mapping window, the
SHA engine and the SRAM: in the TLSF strategy its pool and its stack lie in the
top 56 KB of the SRAM the application has just been loaded into. liboqs allocates
through `oqs_platform_malloc`, which the verifier overrides. Everything in liboqs that hashes goes
through the Keccak port. The TLS client shares no state with the rest. The two benchmark
examples draw their random numbers through the start-up code, which registers the callback before `app_main`;
their FreeRTOS tasks share the entropy source and a semaphore. What they print goes through the emulator's pipe and the
runner's queue to its main loop, which knows nothing of them but lines.

What is hard about it: in the bootloader there is one CPU and no preemption, so the difficulty is in
what each of some twenty early returns leaves behind for the next partition;
resources of which there is one; memory used twice; a wake-up from deep sleep that
skips verification once; and resets at any point. In the examples and the runner it is the order: of two tasks and
`app_main`, of a process, a thread and a clock, and of a crash with what was printed before it.

## 2. Modules

| Module | What it holds |
|---|---|
| `SigBlock` | The block, the checks on it, what the tool writes. Symbolic keys, bodies and signatures. |
| `PqcVerify` | `pqc_bootloader_verify`: one action per step, with every early return. |
| `LoadAddresses` | `verify_load_addresses` on intervals of addresses, and what it should exclude. |
| `ImageLoad` | `image_load` on top of `PqcVerify` and `LoadAddresses` (EXTENDS), its callers, resets and deep sleep. |
| `SecureBoot` | The abstract promise: nothing runs but a trusted application. |
| `PqcSign` | The signing tool's commands on key files and application files, and the builds around them. |
| `Sponge` | The incremental SHAKE functions of the Keccak port on one context. |
| `TlsClient` | `https_get_task` of the TLS example: one request, and the answer that arrives in pieces. |
| `Uart` | The lines a chip prints: what the applications and the runner share. |
| `Example` | What the two benchmark applications share: start-up, random numbers, memory, tasks, crash and restart. |
| `SignatureExample`, `KemExample` | The two applications on top of it (EXTENDS). |
| `EmuRun` | The runner: reader thread, main loop, deadline, end of the emulator. |
| `CiRun` | The composition: an application on a chip of its own, or in the emulator under the runner. |
| `PqcVerifyProofs`, `LoadAddressesProofs`, `ImageLoadProofs`, `PqcSignProofs`, `SpongeProofs`, `TlsClientProofs`, `CiRunProofs` | Theorems and proofs about the seven. |
| `ImageMemoryProofs` | Theorems about the memory of `ImageLoad`, on top of `ImageLoadProofs`. |
| `MCPqcVerify`, `MCImageLoad`, `MCPqcSign`, `MCTlsClient` | Images, memory, applications and answers for TLC. |

### PqcVerify

Program variables keep their meaning: `heap` is `s_tlsf_heap # NULL`, `sigObj` is
`s_sig_obj` and where it points, `digest` is `s_digest`, `blk` is `s_block`, `map`
is the mapping window, `sha` the open SHA contexts, `vret` the returned code.
`vfault` is a history variable: a resource failed in this call. Only `RefusesOnlyForCause`
and the invariant behind it read it.

| Action | Code (`pqc_bootloader_verify.c`) |
|---|---|
| `tlsf_ensure_init` | 93-112 |
| `NewSigObject` | 331-350: the object is allocated and tested only when there is none |
| `HashStart`, `HashOneChunk`, `HashFinish` | `sha256_flash_region`, 211-246 |
| `MapBlock` | 382-388 |
| `CheckBlock` | `validate_pqc_block` and the filling of the stack, 390-412 |
| `pqc_verify_on_stack` | 291-312, through `run_with_pqc_stack` |
| `CleanUp` | 430-451 |

Abstractions. A *body* is the content of image, padding and classical sector;
SHA-256 is injective, so a digest is a body, and `NoBody` stands for the digest of
anything else, such as a part of a body. ML-DSA accepts exactly the full-length
signature made with the key over the message. Flash is counted in sectors. SRAM is
a set of cells, each holding data of some owner and what stands between it and that data (`Marks`): the obfuscation
words, which take turns from the first word of a segment and so differ for segments at even and odd word addresses, and
the two words by which it may lie off its place. If something
wrote over the signature object, calling through it may give any verdict.

### ImageLoad

One action per step of `image_load`'s body, in order: header, one per segment,
checksum, appended hash and length, `verify_secure_boot_signature` (which finishes
the SHA context and calls the verifier), the verifier's own steps, the classical
check, the fault assertion with deobfuscation, the confirmation of the security
version, and the `err` label. Each loaded segment is XORed with the obfuscation words when it is stored and
once more in `Deobfuscate`, by itself, as in lines 343-352: a cell that two loaded segments hold keeps what
the later one stored and is XORed twice. A failed `ESP_FAULT_ASSERT` resets the chip, which
is the step `Reset`. So does a failed `assert`, of which two depend on the image: the end of a segment above its
start (line 516, false when the end is beyond the largest `intptr_t`, although the comment there says it "should always
be true") and, in an anti-rollback build, the magic word of the app descriptor (line 863). They lead to the place `abort`, from
which only `Reset` goes on. Assertions are on, as they are by default, and a panic restarts the chip. On chips
with a configurable MMU page size `verify_segment_header` looks for the magic word first and
refuses the image, which is the model's `valid`. The configuration is that of `sdkconfig.defaults`: a bootloader
build with Secure Boot V2 enabled in hardware; anti-rollback is a constant. In an anti-rollback build the two words of the descriptor
are not stored, so a first segment that is loaded would lie two words off its place; line 949 says that it is not loaded.

The callers are ESP-IDF's and external: `bootloader_load_image` for each partition
until one loads, `esp_image_verify` of any partition, the bootloader's own
included, and, only when waking from deep sleep and before anything else,
`bootloader_load_image_no_verify` of the partition that ran. `Reset` may happen at any moment and
`DeepSleep` while the application runs; both forget all static state, SRAM becomes
unknown and RTC memory is kept.

`ClassicValid` are the bodies whose classical sector verifies; `Segment.valid`
is the outcome of the segment header checks; `hdr`, `sum`, `efuse` those of the header, the checksum and the
eFuse block version; `desc` says that the first segment begins with the magic word of the app descriptor. No segment is
empty, and a segment that is loaded is stored in one piece.

### LoadAddresses

The regions of a chip and of the bootloader are constants, each a pair of addresses. `ClearAsAddressed` is the
call of `verify_load_addresses` that does not recurse, `ClearAsFetched` and `ClearAsData` are the two recursive
calls through the other bus, `AddressesAllowed` is the whole. The pointer tests, the conversions and the overlap test are
ESP-IDF's and external. `ClearOfBootloader` is the reference: no byte of the segment is one of the
bootloader's stack, data or loader, under either of its addresses. `SeparateBuses` says that the two buses have
addresses of their own, as on ESP32-C3. The repeated check before each piece of a segment
is of the same addresses and changes nothing.

### SecureBoot

An application is started (by `bootloader_utility_load_boot_image`, which is external) only when none runs and only if its image is `Trusted`;
it may stop at any time. `ImageLoad` implements it (`ImplementsSecureBoot == SB!Spec`): what a partition holds is the
whole signed image, and of all the loader's state only `running` is seen from outside.

### PqcSign

Files are sequences of 2 KB units, so that a slice in the code is a `SubSeq` here: a
sector is two units, the block four. Of a unit are kept where it comes from and
whether its first byte is 0xE8, which is all `strip_pqc_sector` looks at. `pk` and
`sk` are the two key files, `hdr` is `pqc_public_key.h`, `fw` the key in the bootloader
built last, `bin` the application files; `built`, `signed` and `mended` are history. The
actions are `cmd_keygen`, `cmd_header`, `cmd_sign` (with any output file) and, external,
the builds of the bootloader and of the application, signed by ESP-IDF or not. A
command that writes may be interrupted, which leaves a key file short, or the output
cut between two units or inside one (`Rests`): its last unit is then torn, and `at` says how many bytes of it are there. Commands that
refuse change nothing and are no steps. A missing and an empty input file are one here, on which `sign` does nothing;
the code refuses only the missing one. `cmd_verify` changes nothing
either and is the operator `Verifies`; `BootAccepts` is what the bootloader makes of the same file.

Where a file is cut matters in the last unit of a block. The bootloader reads the block's first 7267 bytes, up to its
checksum (`CrcEnd`), and never the 925 of padding behind them. A file cut there boots (`BlockEnd`, `Holds`), whatever the flash holds behind it; behind a file that is cut earlier the flash is
taken not to complete the block. `cmd_verify` takes the last 8192 bytes of the file and refuses it. A later
command that reads a file with a torn end (`Ragged`) finds no block 8 KB before its end, but a byte inside some unit, which may be 0xE8 by
chance (`InnerMagic`); `pad_to_sector` then fills the torn unit with 0xFF (`Filled`), which makes it whole if 0xFF is what it lacks.
A torn block that is padded stays where it was, in front of the new one. `mended` are the files signed on from one with a torn end.

### Sponge

`pos` is `keccak_state.pos`. The lanes are symbolic: `mix` is the set of what was XORed into them,
each thing with its byte and the number of permutations before it, and `perms` counts the permutations.
The k-th message byte is the number k. XORing a thing twice takes it out of the set. A call of one of the
`shake128_` and `shake256_` functions is an action and so is each turn of its loops. `phase` is the
protocol callers keep: absorb, finalize, squeeze; init and absorb_once at any time; squeezeblocks
only at the start of a block, as the comment at `fips202_kyber.c:640` asks. `SqueezeChunk` is a turn of either loop of
`keccak_squeeze`. `shake128`, `shake256`, `sha3_256` and `sha3_512` are such calls one after the
other on a local context. Rates are multiples of eight, so working by lanes and by bytes is one here.

### TlsClient

`pc` is the place in `https_get_task`; the other variables have the names of the code's. The answer is a
stream of units, the k-th of which is the number k: `head` of them are the HTTP header, the rest is the body,
and `length` is the number of the length field. A call that fails takes its goto. `mbedtls_ssl_read`
gives any number of units up to what it was asked for, the end of the connection or an error, each for
good. A turn of the loop of the request, of the header and of the body is an action. Calls that ask to be repeated
change nothing and are no steps. `held` is what has to be released, `server_fd` the socket: `"unset"`
before `mbedtls_net_init`. `short` (an `fwrite` that wrote less) is history; `said` is what the log says.
Of a header that arrived in part the length may be any the first digits make. Lengths are natural numbers, where
the code's are `int`. A hash of the stored file is one step, which fails or not. A TLS session is what its calls return.

### Example, SignatureExample, KemExample

`task[t]` is where a task is: `app_main`, the benchmark's and, in `signature_basic`, that of the classical algorithms.
A place is named for what comes next. `sem` is `xSemaphoreSequential`; `held` are the buffers allocated and `secrets` those that hold
a secret, where buffers without one are grouped as `"open"`. `rng` says that liboqs has its
callback, `entropy` that the hardware source is on. `weak`, `spilled` and `checked` are history: random bytes that are used
were drawn without the source, a buffer was given back with a secret in it, how many iterations of each boot came out right.
`SigGive` is both the giving of the semaphore and the task's end behind it (lines 554-555); that the
deleted task's stack is free again is not part of any claim. `weak` leaves out the eight bytes that `esp_liboqs_rng_init` draws as a test, before the source can be on: they are thrown away.
`fixed` is the build switch `USE_COMMON_TEST_KEYS`.

| Action | Code |
|---|---|
| `esp_liboqs_init` | the constructor, `esp_liboqs_init.c:33`, and `esp_rand_adapter.c:51` |
| `CreateSemaphore`, `CreateSigTask`, `CreateClassicalTask` | `app_main`, `signature_basic.c:605-639` |
| `SigStart`, `SigGive` | `signature_test_task`, 492-556 |
| `SigAllocate` ... `SigCleanup` | `test_signature`, 260-487, each call that can fail with its goto |
| `xSemaphoreTake`, `ClassicalTests`, `ClassicalOver` | `classical_rsa_ecdsa_task`, 558-603 |
| `KemCreateSemaphore`, `CreateKemTask` | `app_main`, `kem_basic.c:473-494` |
| `KemStart`, `KemComplete`, `KemGive` | `kem_test_task`, 430-471 |
| `KemAllocate` ... `KemCleanup` | `test_kem`, 208-425 |

Any library call may fail, allocation may stop at any buffer, and a chip may crash at any point (`Panic`: a stack too small,
the watchdog) or because a semaphore that is NULL is given (`KemGive`). A crash prints its line, stops all tasks and
forgets all state; `Reboot` starts the same application again, and what was printed stays printed.

### EmuRun

The lines printed are one sequence, `uart`. `got` of them have been moved from the pipe into the queue by the reader, `taken` of
those have been taken by the main loop, and `judge` is the place of the main loop in `run_emulator`: the clock, `q.get`, `proc.poll()`, `q.empty()`,
the report, and the `finally` clause. The two looks at line 129 are two steps, since the reader runs between them. A line is
one that some pattern looks for or `"other"`. The six patterns of `DEFAULT_FAIL_PATTERNS` (lines 32-40) are one line, `"crash"`, and every
crash is taken to print a line that one of them matches. That holds for panics, failed assertions and the watchdogs. It does not hold for the text that FreeRTOS's own check for stack
overflows prints, which none of the six matches: such a crash is left out, the runner would read on into the next boot. A job has 600 seconds; here the deadline may be over at any time (`Time`).

### CiRun

The application and the runner share `uart`. With `proc = "none"` there is no runner: a chip of its own. When the
emulator has exited or was ended nothing on it runs any more. `Expects` are the patterns of the two jobs in `.gitlab-ci.yml`.

## 3. Properties

Of the verifier:

- `AcceptsOnlySigned`: an accepted image carries the owner's signature over the bytes now in the slot.
- `RefusesOnlyForCause`: a well signed image is refused only if a resource failed in its own call.
- `NothingLeftOpen`: no SHA context, mapping or dangling block pointer at a return.
- `SigObjAlive`: the signature object never outlives its pool.
- `BorrowAccounted`: borrowed memory is clean between calls, or `s_tlsf_heap` says it is not.
- `Answered`: every call returns.

Of the loader:

- `ImplementsSecureBoot`, `RunsOnlyTrusted`: what runs carries both signatures and is not rolled back.
- `PlainOnlyAuthentic`: code lies in SRAM in the clear only after both checks.
- `RamIsImage`: the application starts with exactly what its image holds in every cell that one segment alone holds (`SoleCells`).
  What two loaded segments hold starts altered, see section 6; in an anti-rollback build the first segment is not counted.
- `RtcKept`: RTC memory survives deep sleep and the loads after it.
- `CleanReturn`: what the caller finds when `image_load` returns.
- `HaltsOnlyForCause`: the bootloader gives up only if nothing is bootable or a resource failed. `Bootable` is the standard:
  an image built, signed and sized for this chip, with a first segment, which in an anti-rollback build holds the app descriptor with the
  security version.
- `BootloaderKept`: no segment is loaded over the bootloader's own stack, data or loader.
- `BootsInTheEnd`: a bootable image boots in the end, when no partition holds an image that ends in an assertion (`EndsInAssertion`).
  Such an image restarts the chip, the partitions are tried in the same order again, and one behind it may never have its turn.

Of the signing tool:

- `SignedVerifies`: what `sign` wrote to its end with a pair of keys passes `verify`, whatever came before.
- `SignedBoots`: an application built and signed boots with the header of that pair, also when the block's padding is cut short.
- `BootsOnlyMatched`: what boots was written by the last `sign`, up to the checksum of its block at least, with the header's pair.
  The files in `mended` are left out, see section 6.
- `ResignKeepsImage`: signing a whole file again replaces the block and nothing else.

Of the sponge:

- `AbsorbsPadded`: the permutations see the message padded as FIPS 202 says, however it was cut.
- `StreamInOrder`: the output is one stream, however it was cut and by whichever function.
- `ExactlyAsked`: a call reads and writes what it was told to, no more and no less.
- `Returns`: every call returns.

Of the TLS client:

- `HeaderInBuffer`: the terminator behind the header is written inside the buffer.
- `StoredInOrder`: what is stored is a stretch of the answer, without a gap, and `body_bytes` is its length, to the end of the task.
- `SizeOkIsBody`: next to a length field, "File size OK" is said of the whole body and of nothing else.
- `CleansUp`: every path releases what it opened before the exit, and the rest there.
- `FailuresTold`: a failure up to the request reaches the final message.
- `Finishes`: the task ends.

Of the examples and the runner:

- `DrawnFromEntropy`: random bytes that are used are drawn with the entropy source on, whichever task draws.
- `OneAfterTheOther`: the classical algorithms run when the first task is through and has given back its memory.
- `Released`: whichever call failed, everything is freed and no secret is given back with its memory.
- `PassMeansDone`: PASS is said only of an application that made all its iterations, with the right results, in its first boot.
- `FailForCause`: FAIL is said only after a crash, at the deadline or after the emulator's exit.
- `Judged`: the runner returns with a verdict and leaves no emulator behind.
- `SourceOff`: once both tasks exist, the entropy source goes off in the end.

Proved and not checked by a run of their own, since others that are checked say more: `LInv`, `OneShaContext`,
`VTypeOK`, `SecretGuarded` (without `--force` no secret key is written over), `NeverAtZero` (`keccak_squeeze` never runs at position 0,
where a short output would not be permuted), `StoresWhatIsLeft` (of a download that ran to its end the body is in the file just when
the last read of the header loop ended with the header), and that what boots passes `verify` with the bootloader's key
exactly when its file does not end inside a unit (`mended` left out).

## 4. Runs

| Run | Instance | Question |
|---|---|---|
| `verify_tlsf` | two slots, eleven images each, TLSF, every resource may fail | the verifier's properties |
| `load_safety` | two partitions and the bootloader's, eight images, in one of which two segments share a cell, one check without loading, one reset or sleep, every resource may fail | the loader's safety properties, the refinement |
| `load_faulty` | an image for every check that can refuse it and for both assertions as well, a segment for every stretch of up to three addresses in and around the SRAM, and one that fills the SRAM, anti-rollback on, stack strategy, no resource fails, weak fairness | booting in the end; nothing too old runs; segments and the bootloader's own memory |
| `sign_builds` | two applications, two files, two pairs and the shipped key, one interruption, cut between two units or inside one, before or behind the place of the checksum | the tool's properties |
| `sponge_calls` | blocks of four bytes, every sequence of calls on one context | the sponge's properties |
| `tls_download` | every answer of up to ten units, with and without a length field, right or wrong, cut into reads in every way | the client's properties |
| `examples` | either application with two iterations, one restart, both builds of the test keys, on a chip of its own and under the runner | the examples' and the runner's properties |
| `verify_borrow`, `load_pool`, `load_fits`, `sign_strip`, `tls_body` | | the disagreements of section 6 |

Bounds, and why they are enough:

- Two application partitions: everything one attempt leaves behind for another
  needs two, and static state does not count attempts.
- `HashChunk = 2` with images of 1, 2 and 4 sectors: less than a chunk, a whole
  number of chunks, several chunks with a remainder (the signature sector is
  hashed too).
- `PartLen = 4`: the images of 2 and of 3 sectors fit by the code's rule, only
  the one of 4 does not; with the block counted, 3 does not either.
- `MaxVerify = 1`, `MaxResets = 1`: a check without loading, or a load without verification, before the
  loads of a boot, and a second boot. Both are guards of the model and not of the program.
- In the loader's runs one partition may hold any image and the other one that boots or one that
  is signed by somebody else (`MCInit`); the verifier's run takes all pairs.
- Cells: one for the pool, one for the PQC stack, two for the application, of which two segments share one, one for RTC memory; in the
  verifier's run the pool has two, to tell its head from the rest.
- Addresses: six in the SRAM, seen twice, one in the part of IRAM that has no second address, and three on either side:
  the loader, the data and the stack have one each with application memory or a gap between them, so a
  stretch of three can start, end or lie in each of them or across any border.
- Applications of 3 and of 6 units: one that needs padding and is below the 12 KB that the tool asks for,
  one that is aligned. In `sign_builds` their 0xE8 are where no block can start.
- `Cuts = {1122, 1216}`: a unit is cut just before the place where a block's checksum ends (1123), or where a classical signature does (1216);
  these are the comparisons made of a cut, besides those of the bytes 832 and 1664 of a classical sector, at which `count_sig_blocks` would find the signature by its second or third
  look and which `CutAssumption` excludes. `InnerE8` has an application with a 0xE8 where a cut file is looked at.
- `MaxTears = 1`, `MaxLen = 12`: one interruption; only files up to the length of a signed application are
  signed again, which leaves out stumps that grow with every further signing.
- `Rate = 4`, `MaxIn = 9`, `MaxOut = 13`: two blocks of input and three of output and a byte more, so
  calls end before, at and behind the end of a block, also twice in a row.
- `HTTP_HDR_BUF_SIZE = 5`, reads of up to 3 units: headers of 0, 2, 4 and 6 units end in the first read, in the second,
  exactly at the full buffer, and not in the buffer; bodies of 0, 2 and 4 are shorter and longer than a read.
- `iterations = 2`, `MaxReboots = 1`: an iteration that is not the last, and one after another; the second boot prints
  behind the lines of the first, and a third would add nothing that the second does not.

Deadlock is checked in the verifier's runs and the sponge's. When all keys are used up the tool has nothing left that changes a file. In the loader's the system may stop: when no
partition boots the bootloader halts, and the number of resets is bounded. The TLS client's task deletes itself, and so do those of the examples.

Fairness: there is one CPU and nothing preempts the bootloader, so a step that can
be taken is taken. `VFairSpec` has weak fairness of the verifier's steps and its
return, `LFairSpec` of the bootloader's progress: loading the next partition, the
steps of `image_load`, starting or giving up. `SpongeFairSpec` has it of the loops of a
call, and not of the caller. `CFairSpec` says that the client's task runs and that every read returns: the
server answers or the connection ends. The code sets no read timeout, so with a silent server the task waits forever. `CiFairSpec` says that each task of the signature example
that can go on does, since FreeRTOS shares the processor among tasks of one priority; that the runner's main loop goes on, each of its waits having a
timeout; and that time passes. The reader thread, the emulator and the KEM example get none: a verdict has to come without them. Nothing is assumed of resets, deep sleep, checks without loading or the load that skips verification.

Each property of a passing run has a mutant of the code it catches (`PROJECT.json`): a result that is
not looked at, a missing reset, a chunk cut wrongly, a condition dropped.

## 5. Proofs

Assumptions are those named in the modules: the layout of pool and stack, images of the right
type, slots and configuration values in their sets. They do not bound the number
of slots, images, cells, resets or checks, nor the size of chunks and partitions.

`PqcVerifyProofs`. `VInv` is inductive. The properties themselves are not: that a
signature object left behind by an early return is still usable needs that the
heap and the object come and go together and that nothing else writes the
allocator's cells (`HeapInv`); that the verdict is about the bytes in the slot needs
that hashing ends exactly at the block (`ArgsInv`) and that the digest is this image's
from then on (`VerdictInv`); that nothing stays open needs to know at which
points something is (`OpenInv`). There is one lemma per step, then:

- `VInvariant`, `VTypeCorrect`, `VAcceptsOnlySigned`, `VRefusesOnlyForCause`,
  `VNothingLeftOpen`, `VSigObjAlive`, `VBorrowAccounted`.

`ImageLoadProofs`. `LInv` adds to `VInv` what image_load has established at each
point (`AuthInv`), who called whom (`CallInv`) and that what was loaded, runs or slept is
trusted (`TrustInv`). The lemma `VFrame` says which steps of image_load leave `VInv` alone:
those that do not write borrowed memory. That is not a fact of the code, it is the
assumption `ImagesClear`: no image is loaded into memory the verifier borrows. Without it the
signature object may be overwritten between two partitions, and nothing follows. Then:

- `LInvariant`, `LTypeCorrect`, `LRunsOnlyTrusted`, `LOneShaContext`;
- `LBootloaderKept`, also assuming `SeparateBuses`: `process_segment` goes past a segment only after
  `verify_load_addresses` has allowed it (`SegmentChecked`), and what that allows is clear (`AllowedIsClear`);
- `LHaltInvariant`, `LHaltsOnlyForCause`, also assuming `Override`, a build in which liboqs allocates from the pool: without it
  the verifier refuses every new object. That nobody gives up without cause is about partitions that were tried
  before, so `TriedInv` says of each of them that it holds nothing bootable or that a resource has failed in this boot. One
  step is hard, the refusal: a bootable image passes each check (`GoesOn`), the verifier's by `RefusesOnlyForCause`
  (`PqcRefusal`), and the confirmation of the security version because what the load read is the version of the image
  (`VersionInv`, `VersionRead`). `LoadFrame` says what the other steps leave alone;
- `LImplementsSecureBoot`: every step of `ImageLoad` is a step of `SecureBoot` or changes neither flash nor
  what runs.

`LoadAddressesProofs`. `AllowedIsClear`: for any regions that lie in each other as they do on the chip and with
separate buses, what `verify_load_addresses` allows is `ClearOfBootloader`. `AsAddressed` says it of the call that does not recurse,
`AsFetched` and `AsData` of the converted part, which holds the other address of each byte that has one.

`PqcSignProofs`. `SignInv` is inductive: every file is a sequence, and one that `sign` wrote is
some data of a sector at least followed by the block of exactly this data up to its checksum (`WrittenWith`). That it is
so whatever the file held before rests on lemmas about slices and concatenation, stated once.
Then `SInvariant`, `SSignedVerifies`, `SSecretGuarded`. Three layers go on top of it:

- `BlockInv`: the block at the end of a signed file is the only one with its checksum in a file that is not `mended`. The checksum is
  written last but for padding, so an interruption leaves it only where the block is as good as whole, and neither stripping nor padding makes
  one (`NoBlockEnd`). The bootloader looks for the block behind
  the image and the tool at the end of the file, and this is why they find the same one, or, when the padding is cut, the tool finds none: `SBlockInvariant`,
  `SBootsOnlyMatched`, `SBootsVerified` (what boots passes `verify` if and only if its file has no torn end), `SResignKeepsImage`.
- `TypeInv`: of which units files are made; `SignTypeOK` alone is not inductive, since what `sign` writes depends on
  what it reads. `STypeInvariant`, `SSignTypeCorrect`.
- `BuildInv`: what is below the block of a file made from a build is that application with its signature sector. This is not true
  of every application, as the run `sign_strip` shows, and `MagicApart` is the condition: none has a 0xE8 at the two
  places where `strip_pqc_sector` may look, which are the start of the last 8 KB of the application as it is linked and with
  its signature sector. The applications of `sign_builds` meet it, although one has 0xE8 elsewhere; those of `sign_strip` do not.
  `SBuildInvariant`, `SSignedBoots`, `SSignsWhatWasBuilt`.

`SpongeProofs`. `SpongeInv` adds to the properties where the next byte goes and comes from:
`fed = perms * Rate + pos` while absorbing, and while squeezing a length of the output that is whole blocks
and `pos`. The lemmas `BlocksApart` and `OnePlace` (a byte has one block and one place in it) are all the
arithmetic that is needed; there is one lemma per action. Then, for any rate: `SpongeInvariant`, `SpAbsorbsPadded`,
`SpStreamInOrder`, `SpExactlyAsked`, `SpNeverAtZero`.

`TlsClientProofs`. `CInv` says what is held at which place (`HeldAt`), that nothing is stored before the header
is parsed (`HeadInv`), and that a goto before the request is out has a result to take along (`ExitInv`). That a turn of
the body loop keeps `StoredInOrder` is the lemma `Stretches` (a stretch of the answer and the one behind it make one) on
top of `Written`, what `fwrite` does to a file; `SizeOkIsBody` then follows by counting (`SizeFits`): if
as many units were stored as the body has, the header loop took none of it. The same place, where one loop hands over to the
other, is the lemma `Seam`, and `CStoresWhatIsLeft` follows from it in both directions. For any answers and any sizes: `CInvariant`,
`CTypeCorrect`, `CHeaderInBuffer`, `CStoredInOrder`, `CStoresWhatIsLeft`, `CSizeOkIsBody`, `CCleansUp`, `CFailuresTold`.

`ImageMemoryProofs`. `MemInv` goes on top of `LInv`. That what runs is its image needs that the segments loaded so far lie in
SRAM as they were stored (`StoredInv`), and that the obfuscation words were drawn exactly when something was stored with them
(`ObfsInv`): a load without verification comes first in its boot, so the words cannot be left from another.
Most steps write borrowed memory at the most, and for those `AsideKeeps` and `StoredKeeps` say all; storing a segment,
deobfuscation and restarts are treated one by one. Beside `ImagesClear` this needs `RtcApart`: only segments linked to RTC memory lie in it.
Segments of an image may overlap: a cell has as many `Holders` as loaded segments hold it, what `StoredInv` says is about cells with one
(`HeldOnce`, `HoldersKept`), and for those `ObfuscationOff` shows that XORing segment by segment takes off exactly what storing put on, at
even and at odd addresses. Then `MemInvariant`, `LPlainOnlyAuthentic`, `LRamIsImage`, `LRtcKept`, `LCleanReturn`.
`OwnerAssumption` says that a slot's content is not mistaken for zeroes or the allocator's data.

`CiRunProofs`. `CiInv` says which places the tasks can be at together (`PlacesInv`), where the source is on (`RandomInv`), where memory is held
(`HeapInv`), that the loop counts what came out right (`LoopInv`), that a line of success has all iterations of the first boot or a crash
before it (`LinesInv`), and what the main loop knows at each place (`JudgeInv`). `PassMeansDone` is where the two halves meet: a PASS has
taken a line of success and no crash before it. The runner leaves the chip alone and the chip
only appends to `uart`, so each step is shown to keep its own half, and appending to keep the other. For any number of iterations and restarts: `CiInvariant`,
`CiTypeCorrect`, `CiDrawnFromEntropy`, `CiOneAfterTheOther`, `CiReleased`, `CiPassMeansDone`, `CiFailForCause`.

TLC checks the parts of the inductive invariants that are properties. As a whole, before they were proved, `LInv`, `MemInv`,
`CInv` and `CiInv` were checked with the instances of `load_safety`, `load_faulty`, `tls_download` and `examples`, `HaltInv` with both of the
loader's, and `BlockInv` and `BuildInv` with that of `sign_builds`.

Every invariant and every action property of a passing run is the statement of a theorem, and so is the refinement. Only model-checked are the
liveness properties, `Answered`, `BootsInTheEnd`, `Returns`, `Finishes`, `Judged` and `SourceOff`: liveness
under fairness is out of the prover's reach.

## 6. Where the code and its documentation disagree

- `verify_borrow`: `README.md:147` says the borrowed pool is zeroed after verification. Five
  early returns leave it as it is.
- `load_pool`: the application's link window ends where the pool ends, so an image with data in the
  last 56 KB links, loads, verifies, and is zeroed there.
- `load_fits`: the length check counts the classical sector and not the PQC block behind it.
- `sign_strip`: `strip_pqc_sector` takes a file for one with a PQC block because of one byte, which an
  application may hold by chance; 8 KB of it are then cut off and the rest is signed, without an error. `SSignsWhatWasBuilt` says
  that it takes such a byte: without one at those places no application is ever cut.
- `tls_body`: the help of `EXAMPLE_HTTP_DOWNLOAD` says the body is stored and its checksum proves that it arrived
  intact. Body bytes that come in the same read as the end of the header are dropped. `SizeOkIsBody` says that
  this is noticed when there is a length field, and `CStoresWhatIsLeft` exactly when it happens.

Seen while modelling and not runs of their own. Deobfuscation goes over the segments, not over the memory (`esp_image_format.c:343-352`), so an image two of
whose loaded segments overlap passes both checks and starts altered where they do; no linker script makes one, and no check refuses it. In an
anti-rollback build an image without the descriptor's magic word is not refused, it restarts the chip (line 863), as an end of a segment that overflows does (line 516): a
bootable partition behind it may never be tried. A signed file cut in the last 925 bytes boots, `pqc_sign.py verify` refuses it, and signing it again
with other keys, as the next build does, keeps its old block right behind the image, filled up with 0xFF, with a second signature sector and the new block after it: what boots then
is the old pair's, though the last command signed with the new one.

The comment at `esp_image_format.c:500` says that a segment must not overlap any memory
of the bootloader; on chips with one address range for instructions and data (ESP32-C5, C6, S31), which `SeparateBuses` excludes, the test against the
loader's code is never reached, since every address is taken for DRAM first. An application that keeps to its
link window is not concerned. The test that the signature object comes from the pool
(`pqc_bootloader_verify.c:340`) is made once, and in a build without the override a second call goes on with the object that failed it; `README.md:119` says a failed check stops the bootloader before it loads
the application, but segments are loaded, obfuscated, before either check, and the next partition is tried; the help of `PQC_MEM_TLSF` places the pool at the
bottom of the SRAM (`IV/Kconfig`), the code at its top; the README lists the key comparison after the
signature check, the code makes it before; the message at
`esp_image_format.c:1262` says the boot is halted, but the next partition is tried. In the TLS client `ret` keeps the last
count after a body that was read to its length, so a success ends with "Final error"; a header that fills the
buffer exactly counts as missing, and one cut short by an error as found; the socket is freed before it was
initialised on three gotos.

In `signature_basic` the source stays on when one of the two tasks cannot be created (lines 632 and 637). `kem_basic` prints "Example complete!" whether the test
succeeded or not, gives a semaphore whose creation it did not look at, and subtracts cycle counts of 32 bits in 64, so a wrap gives a number near 2^64.
Neither application's failure messages are a pattern of the runner, so a failed check is told only by the deadline, after ten minutes.
The runner calls an early exit of the emulator a timeout, and when the emulator exits while the reader still holds its last lines the verdict may be FAIL although
the expected line was printed (lines 129-132): `FailForCause` allows this.

## 7. Not modelled

What could be done next: what the length check does guarantee, as a theorem next to the run `load_fits`; the task with a small stack in `test_apps/liboqs_test/main/test_liboqs_mem.c`, which may outlive the context
it was given. Not planned: the mapping windows, into which every segment of
the supported chips fits, and the rest of the test applications, which are sequences of assertions on single calls.

Left out for good: the mathematics of ML-DSA and Keccak permutations, linker scripts
beyond what they say of the borrowed region, the CMake files, the mbedtls
component (its sources are a submodule that is not in the tree), formatting and
timing output, the classical RSA and ECDSA benchmarks beyond the random numbers they draw, and the branches of `esp_image_format.c` for chips and configurations this project
does not build (Secure Boot V1, ESP32, application builds).

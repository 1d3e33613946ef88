# TLA+ models of sgx-experiments

The repository holds two Intel SGX experiments: `basic-enclave`, a host
application with an enclave that exercises threads, pointers and library calls
across the boundary, and `attestation/remote`, a remote attestation between an
application, its enclave and a simulated service provider. This directory models
the parts in which something can go wrong in an order nobody wrote down: the
threads that share the enclave, the calls that cross its boundary, and the
attestation with its failures and retries. TLC checks small instances; TLAPS proves
the safety of the threads and their driver for every number of threads and loops and every
buffer size, of the provider, the attestation and the secret's delivery for any
clients, key pairs and power transitions, and of the one ECALL on raw host memory, its
checksum included, for every size and contents.

Paths below are relative to `src/code-experiments/`.

## 1. Inventory

### basic-enclave

| part | state | operations | interaction |
|---|---|---|---|
| bounded buffer, `Enclave/TrustedLibrary/Thread.cpp` 41-104 | `buffer`: slots, `occupied`, `nextin`, `nextout`, a mutex, conditions `more` and `less` | `ecall_producer`, `ecall_consumer` | five host threads run them at once |
| shared counter, same file 38-73 | `global_counter`, `global_mutex` | `ecall_increase_counter` | four host threads; the result goes to the host's `counter` |
| thread driver, `App/TrustedLibrary/Thread.cpp` | `counter` | `ecall_thread_functions`: create, join, assert | creates the threads of both workloads, which share the enclave's TCS pool |
| basic app, `App/App.cpp`, `Enclave/Enclave.cpp` | `global_eid`, `r` | create the enclave, four arithmetic ECALLs, destroy | synchronous ECALLs |
| EDL demonstrations, `App/Edger8rSyntax`, `Enclave/Edger8rSyntax` | host and enclave copies of the arguments | array, pointer and function attributes | marshalling, nested ECALL in OCALL |
| libc/libc++ demonstrations | none | cpuid, malloc, exceptions, map | synchronous |

`main` of `App.cpp` has only the four arithmetic ECALLs left; the thread
functions and demonstrations are compiled in and declared in `App.h`, and are
modelled as called once, as the SDK's sample does. Their assertions exist in
debug builds only; the models keep them, as what the code says of itself.

What is hard: a read-modify-write by four threads; a host variable that four
threads may write without a lock; a wait that gives up the mutex between the test
and the update it guards; signals that are forgotten when nobody waits; ring
indices that wrap; a thread that keeps its TCS while it sleeps; an enclave that
is lost in a power transition while some threads are inside it and others
asleep outside; a host buffer that changes under the enclave's hands; calls that nest
across the boundary and fail half way; a result variable that outlives a failed call.

What makes it correct: no increment is lost and exactly one adder reports the
total; one thread at a time in the critical section; indices, count and slots
agree; no item is lost or taken twice; no wakeup is lost; nobody waits for ever;
the driver returns with nothing left running, and aborts only if the enclave was
lost. The checksum is that of the bytes copied in; every buffer holds on each side what
its attribute promises; the private ECALL is reached only by the OCALL that allows it;
a printed result is its own, or the call failed.

### attestation/remote

| part | state | operations | interaction |
|---|---|---|---|
| application, `app/app.cpp` | `main`'s locals: `ret`, `enclave_id`, `context`, two retry budgets, five buffers | `main`: msg0, key selection, enclave, msg1, msg2, clean-up | calls the provider through the network functions, the enclave through ECALLs |
| network, `service_provider/network_ra.cpp` | none | `ra_network_send_receive` | synchronous dispatch to the provider |
| service provider, `service_provider/service_provider.cpp` | group pointer, `g_is_sp_registered`, `g_spid`, `g_sp_db` | `sp_ra_proc_msg0_req`, `sp_ra_proc_msg1_req` | calls the attestation server through a table of function pointers |
| attestation server, `service_provider/ias_ra.cpp` | none | `ias_enroll`, `ias_get_sigrl` | never fails in this simulation |
| key derivation, `service_provider/ecp.cpp`, `enclave/enclave.cpp` | none | `derive_key` in two variants on the provider's side, `key_derivation` in the enclave | one Makefile flag selects the variant for both |
| enclave, `enclave/enclave.cpp` | key exchange contexts (in the SDK's library), one `g_secret` for all of them | `enclave_init_ra`, `enclave_ra_close`, `verify_att_result_mac`, `put_secret_data` | ECALLs from `main`, which opens one context |

`sp_ra_proc_msg3_req` and everything in `main` after msg2 is commented out, so an
attestation ends when the enclave has accepted msg2 and the library returned msg3.

What is hard: each of about twenty calls may fail, and the failures meet state that
was half written (the provider's database, the group pointer before enrolment) or
half allocated (`main`'s buffers); three retry loops with post-decremented budgets,
two of which share a variable; an enclave that is lost between any two calls and
is created again only in one place; requests to the provider in the wrong order; a
secret decrypted in place before it is validated; results that a host delays or replays.

What makes it correct: both sides end with the same four keys or none; what leaves
the provider belongs to one exchange; key pairs are not reused; retries are
bounded; the clean-up closes what is open, in order, and frees what is allocated; the
enclave accepts a result and a secret only of the exchange its open context belongs to.

## 2. Modules

    BoundedBuffer     what the buffer promises           (abstract)
      ^ refines
    CondBuffer        the buffer and its threads         <- MCCondBuffer, CondBufferProofs
    IncreaseCounter   the counter and its threads        <- IncreaseCounterProofs
      both composed by
    ThreadFunctions   the driver                         <- MCThreadFunctions, ThreadFunctionsProofs

    KeyExchange       secrets and derived keys
      extended by
    ServiceProvider   provider, network, server          <- ServiceProviderProofs
    EnclaveRA         enclave and key exchange library
      both composed by
    RemoteAttestation   main, and the whole attestation  <- RemoteAttestationProofs
    SecretProvisioning  the enclave's result ECALLs under a host in any order
      | refines                       <- MCSecretProvisioning, SecretProvisioningProofs
      v
    SecretDelivery    what provisioning promises         (abstract)

    UserCheck         the ECALL on host memory           <- UserCheckProofs
    BasicApp          main, the arithmetic and every demonstration
                                                         <- BasicAppProofs

**CondBuffer.** The variables are the fields of `cond_buffer_t` under their own
names, `pc` and `i` for each thread, the TCSs in use, whether the enclave was lost
and whether the process aborted. One action per statement between lock and unlock:
`Lock`, `ProducerWait`/`ProducerGo` (the `while` test), `ProducerStore` (the
store and the index), `ProducerCount`, `ProducerSignal`, `Unlock`, and the same for
a consumer. `Spawn`, `Enter`, `Return` and `EcallFails` are the host thread: an
ECALL that fails makes it `abort()`. The constants `LOOPS_PER_THREAD`,
`BUFFER_SIZE` and `TCSNum` have the code's names; the code's factor 4 is the number
of consumers.

The SDK's mutex and conditions are external. `sgx_thread_cond_wait` queues the
caller and releases the mutex in one step (the SDK does both under the condition's
spin lock), and has no spurious wakeups: the SDK's wait loops until the thread has
left the queue. A signal removes any queued thread; the SDK takes the oldest, so
its behaviours are among the model's. A thread that sleeps in a condition is outside
the enclave, in the SDK's wait OCALL, keeps its TCS, and does not notice that the
enclave is lost; every other thread inside does.

**IncreaseCounter.** The increment is three steps (read, write, unlock), and the
host's `if (cnr != 0) counter = cnr` a step of its own, outside any lock.

**ThreadFunctions.** `main` thread as a script of statements, in the order of the
source; the threads' steps are those of the two modules, which share `tcs`, `lost`
and `aborted`.

**KeyExchange.** A key is a record of all that its derivation hashes, so the code's
keys agree exactly when the model's do. Byte order, labels and lengths are abstracted;
they are the same constants on both sides. The build flag `SUPPLIED_KEY_DERIVATION` is a
variable with either value at the start that no step changes, so every run of the
attestation covers both builds.

**ServiceProvider.** A request is one step, because calls are synchronous.
`sp_ra_proc_msg1_req` is one action over the number of the call that fails:
`DbAfter` is the database with what was written before that call, and the rest
from earlier requests. A failed default derivation may leave its own key half
written. `IASMayFail` lets the attestation server's functions fail; the simulation
in this repository never does, but the handlers are written for it.

**EnclaveRA.** The four ECALLs and, as external steps, the library functions they and
`main` depend on. Every `sgx_ra_init` opens a further context in its enclave (`Home` says
whose a context is), and every later call names the one it is for; `g_secret` is one
buffer for all contexts of an enclave. `Accepts` is the library's test of msg2: KDF id, signature over
(g_b, g_a), MAC under this exchange's smk. `verify_att_result_mac` changes no state and is
the set of statuses it may return. `put_secret_data` decrypts into `g_secret` and
compares it afterwards whatever the decryption returned; on a wrong tag the library
clears its output or leaves it, and may run out of memory before it starts.

**RemoteAttestation.** One action per call of `main` and outcome of it, `at` being
the next statement. `main` opens at most one context in an enclave, so the enclave's id
names it. `calls` counts the calls of each retry loop and of the close. Each call may fail
whatever the enclave's state: `CloseFails` also where the key exchange is open, after which
`main` destroys the enclave all the same; `ProcMsg2Fails` before or after the trusted part
took msg2.
`heap` holds the names of the live buffers. `PowerTransition` loses the enclave
between any two steps.

**SecretProvisioning.** A host that makes the calls of both sides in any order, in any
number of contexts at once, and keeps every message it ever saw (`held`), plus one damaged
result. The provider that answers
msg3 is external: the repository's is commented out, and `IssueResult` is what the
enclave's two ECALLs are written for. `reply` is a result ECALL with its outcome,
until the host has read it (`Return`).

**SecretDelivery.** What all of that is for, with no message, key or database in it: a
context confirms a session, the provider issues the secret to a confirmed session, the
enclave takes it in the session one of its contexts keeps, and a context may give its
session up for good. A session is a pair of key pairs. `SecretProvisioning` reads it off its
own state: the session a context keeps is the one its sk was derived from, the confirmed ones
are those of the msg3s made, the issued ones those of the results that carry the secret.

**UserCheck.** `ecall_pointer_user_check` with a step for every byte or word it reads or
writes: the check, the copy in, the summing loop, the printing OCALL, the copy out.
`HostWrite` is another host thread, `Lose` a power transition. The size, contents and
place of the buffer are free. The reference checksum weighs bytes one by one, where the
code adds 16-bit words.

**BasicApp.** A stack of frames for one host thread. The functions are data: `Script`
lists the calls of each function that makes any, with what it sets before and
asserts after each; `Leaves` says how each other function's argument passes, what it
asserts of it and what it leaves there. The actions are the boundary and the runtimes:
`MakeCall` copies in, `RunLeaf` copies out, `CallRefused`, `BridgeFails`, `LeafAborts` and
`LostReturn` are the ways to fail (any call may fail in its bridge, and any leaf that
allocates or calls the SDK may abort), `Check` and `CheckAborts` the test after a call. `fault`
records that something outside the program's code failed. A leaf runs in one step:
the program has one thread here, and what it does to host memory before a power
transition is never looked at, because its caller aborts.

Bounds of the models: `MaxKeys` (key pairs the provider generates), `MaxLosses`
(power transitions), `LOOPS_PER_THREAD` and `BUFFER_SIZE` (500 and 50 in the code),
`PublicKeys` (the enclave's key pairs), `Slots` (contexts open at once in an enclave),
`EnclaveIds` (enclaves alive at once in SecretProvisioning; in RemoteAttestation the two
that `main` can create), `MaxSize`, `TMP` and `MSG` (128, 100 and 12 in the code) and
`MaxWrites` in UserCheck. BasicApp has no bound. What the models leave out beside these
bounds is in section 5.

## 3. Runs

| run | instance | question |
|---|---|---|
| CondBufferSafety | 4 consumers, 2 loops, 2 slots, 5 TCSs, consumers symmetric | are mutual exclusion, ring, items and wakeups right in every interleaving? |
| CondBufferLive | 3 consumers, 3 loops, 2 slots, 3 TCSs for 4 threads | does it implement `BoundedBuffer`, and does everybody finish or the process abort? |
| IncreaseCounter | 3 adders, 3 loops, 2 TCSs | is every increment counted and the total reported once? |
| ThreadFunctions | 3 adders, 2 consumers and a producer, 2 loops, 2 slots, 3 TCSs | does the driver's order keep assertion, pool and clean return? |
| ServiceProvider | group 0 known, 0 and 1 asked for; 2 client keys; 3 key pairs; both builds | is the provider consistent for requests in any order, with any call failing? |
| RemoteAttestation | 2 enclaves, 2 losses, both builds | do keys agree, is clean-up complete, are retries bounded? |
| RemoteAttestationExitCode | as RemoteAttestation | *violated*: does `main` return the `ret` it restored? |
| RemoteAttestationBuffers | as RemoteAttestation | *violated*: are msg2 and msg3 freed on every path? |
| SecretProvisioning | 1 enclave with 2 contexts (symmetric), 2 key pairs on each side, 1 loss, both builds | does the enclave accept only results and secrets of the session that is open, and does the exchange implement `SecretDelivery`? |
| SecretProvisioningGcm | as SecretProvisioning | *violated*: is the decryption's error what `put_secret_data` returns? |
| UserCheck | sizes 0 to 5, copy of 4, message of 3, bytes 14, 127, 200, 2 host writes | is the ECALL right whatever the host does to the buffer meanwhile? |
| BasicApp | as in the code | do all assertions hold, the gate close, `main` print its own results and end? |

*Why the bounds are enough.* A two-slot buffer with eight items wraps four times, is
full, empty and neither, and four consumers with two iterations each compete for
one item and sleep together. Three adders on two TCSs include the abort by a full pool. In
ThreadFunctions the pool fits exactly one phase, so a thread of the other phase
would overflow it. Three key pairs give two complete exchanges after a failed one.
Two losses hit the first enclave and the one created in its place. Two key pairs on each
side give an earlier session whose messages are replayed into a later one of the same
enclave, and with two contexts two sessions that are open side by side, whose msg2s and
results are delivered in each other's context and share `g_secret`. A second enclave would
differ from a second context by not sharing that buffer; the proofs cover any number of
both. Sizes up to 5 are
zero, odd and even, below the message, between message and copy, at the copy and above
it, and the three byte values have both signs in both halves of a word.

*Fairness.* Weak fairness of all program steps together (`Progress`): while some
thread can run, some thread runs. It needs no fairness between threads, because
every thread has a finite number of iterations and only the scheduling of the
whole process is assumed. Power transitions are not under fairness. In
RemoteAttestation and BasicApp the program's thread is fair, the user's key is not.

*Deadlock* is checked in every run. A process that ended or aborted stutters and the
provider always takes another request, so any other state with no successor is an
error.

*What the three violations show.* `main` ends with the clean-up and no `return`, so
its exit code is 0 whatever failed, although it takes care to restore `ret` after
`enclave_ra_close`. And its successful path returns after `getchar()` without
reaching the clean-up: msg2 and msg3 are not freed although its comments
say that the application is responsible for both (the process ends, so nothing but the
statement is wrong). And `put_secret_data` replaces the error of a failed decryption by
`SGX_ERROR_UNEXPECTED`, although its header promises the AES-GCM function's error; the
secret itself is never accepted wrongly (`SecretAuthentic`).

## 4. Proofs

Every safety invariant, action property and refinement that the passing runs check is
proved here for all values of the constants. Each run's instance gives
one value of each constant; the theorems leave them free, under the assumptions declared
in the modules: thread sets finite and disjoint from `NoThread`, numbers natural, a buffer
with a slot, the driver's two lists enumerate the same threads, `EnclaveIds` is 1 and 2
because `main` can create no third enclave, `0 \in GroupIds` and `1 \in PublicKeys` because
`main` sends these in its msg0 and msg1, and `AnyValue` is no integer. TLC evaluated the inductive invariants of all
eight modules on the runs' instances before they were proved.

Six theorems have a hypothesis of their own, stated as a definition next to them:

| hypothesis | theorem | why the code has it |
|---|---|---|
| `EnoughTCS`: the pool holds each phase's threads | `AbortsOnlyIfLost` | `TCSNum` is 10 in `Enclave.config.xml`, for 4 adders and then 5 threads |
| `RegistrationSettled`: one group, or enrolment never fails | `RegisteredComplete` | `g_extended_epid_groups` has one entry, and the simulated `ias_enroll` never fails |
| `NullIsNoContext`, `NullIsNoRecord`: NULL is none of these records | `KeysAgree`; `SecretNeverBehindError`, `SecretDelivered`, `SessionsOwned` | a null pointer points to none |

`RegistrationSettled` is needed. `sp_ra_proc_msg0_req` sets the group pointer before it
enrols and does not unset it, and `g_is_sp_registered` stays set from an earlier msg0. A
comment (`service_provider.cpp:50`) foresees more than one group: with two in the table and
a server that may fail, a provider registered for the first whose enrolment for the second
fails is registered with the second group and the first one's SPID.

### The bounded buffer: `CondBufferProofs`

| theorem | statement |
|---|---|
| `Synchronised`, `Typed` | `Spec => [](TypeOK /\ MutexInv)` |
| `RingCorrect`, `IndicesAgree` | `Spec => [](IndexInv /\ SlotInv)` |
| `WakeupsKept`, `ItemsConserved` | `Spec => [](Conservation /\ NoLostWakeup)` |
| `DeadlockFree` | `Spec => []NoDeadlock` |
| `Implements` | `Spec => Refinement` |

The argument is in three layers, each inductive relative to the one before.

1. `SyncInv` = `TypeOK`, `MutexInv`, `QueueInv` (queues are exactly the sleeping
   threads), `TestedInv` (a thread that passed its test still finds it true),
   `PoolInv` (`tcs` counts the threads inside). `TypeOK` alone is not inductive:
   `occupied <= BUFFER_SIZE` after a count needs the test to have survived, which
   needs the mutex; and `tcs >= 0` after a return needs `PoolInv`.
2. `RingInv` = `IndexInv`, `SlotInv`. While a thread is between moving its index and
   counting, `Filled` corrects `occupied`; only one thread can be there, by layer 1.
3. `CountInv` = `LoopInv`, `Conservation`, `NoLostWakeup`. Items are counted
   through sets of tickets (consumer, iteration), so that a step moves one
   ticket between two sets and the library's cardinality facts apply. `NoLostWakeup`
   counts: while a consumer sleeps, items in the buffer are at most the consumers that are
   awake and hungry plus the producer's pending signal.

Deadlock freedom then needs no induction: if all are asleep or done and the producer
sleeps, the buffer is full and, by counting, a consumer still wants an item, so it
sleeps although the buffer has items and nobody is awake; if the producer is done,
`Conservation` leaves items for the sleepers, with the same contradiction.
`Implements` maps `produced` to the producer's completed puts and `consumed` to the
tickets taken; every step but the two counts stutters.

The induction starts from `Fresh`, a buffer nobody has entered, rather than from `Init`:
the driver gets there with an enclave that may be lost already.

### The shared counter: `IncreaseCounterProofs`

| theorem | statement |
|---|---|
| `CounterTyped` | `ASpec => [](ATypeOK /\ AMutexInv)` |
| `ATyped` | `ASpec => []ATypeOK`, and `global_counter`, `counter` and every result are at most `Goal` |
| `EveryIncrement` | `ASpec => []NoLostUpdate` |
| `SingleReport` | `ASpec => [](OneWriter /\ GoalReported)` |
| `NeverEarly` | `ASpec => []GoalReported`: no result before the last increment |
| `AssertionHolds` | `ASpec => []CounterComplete` |

`NoLostUpdate` is not inductive: a write adds one to what was read, not to what is
there. `ASyncInv` adds `AMutexInv` and `FreshRead` (nobody wrote since the read),
`ALoopInv` and `APoolInv`. Above it, `ACountInv` counts increments as tickets (adder,
iteration): there are `Goal` tickets, so the counter stays at or below the goal and
only the adder that uses the last ticket sees it; until then no adder has a result.
`ReportInv` (some adder has the goal once it is reached, and the host has it once that
adder is done) gives the assertion.

### The driver: `ThreadFunctionsProofs`

| theorem | statement |
|---|---|
| `AssertionHolds` | `TFSpec => []AssertHolds` |
| `ReturnsClean` | `TFSpec => []CleanReturn` |
| `AbortsOnlyIfLost` | `EnoughTCS => (TFSpec => []AbortOnlyIfLost)` |

A composition proof. The two modules of theorems are instantiated on the driver's
variables, and their invariants hold here too, each in its phase: `FirstInv` (the counter's
invariant; the buffer is untouched) up to the assertion, `SecondInv` (all adders done;
the buffer's invariant) after it. `LineInv` says what the joins passed so far have waited
for; at the assertion they have waited for every adder, so the first phase's end is the
second one's `Fresh` start, and the pool is empty in between. The text of the script is
never unfolded: `WhichPart` and `WhichLine` say which statement stands on which line,
for lists of any length.

### The service provider: `ServiceProviderProofs`

| theorem | statement |
|---|---|
| `SPTypes` | `SPSpec => []SPTypeOK` |
| `VkIsCommitPoint` | `SPSpec => []VkCommits` |
| `Msg2Authentic` | `SPSpec => []Msg2Inv` |
| `KeysAreFresh` | `SPSpec => FreshKeys` |
| `RegisteredComplete` | `RegistrationSettled => (SPSpec => []RegisteredInv)` |

`VkCommits` is not inductive. A failed request may store a new `g_a` only, and a later one
derive keys from it: nothing in the property says that the keys between are not of a newer
key pair. `SPInv` adds `PairInv` (the stored `g_b` is that of the stored `b`, which was
generated), `KeysInv` (each key is zero, scribbled, or derived under its own name from a
generated pair) and `VkInv` (a verification key of the stored `b`, with whatever `g_a`,
brings the other three of the same secret). Each key has a lemma of its own about what a
request that fails at call *n* leaves of it.

### The attestation: `RemoteAttestationProofs`

| theorem | statement |
|---|---|
| `MainTypes` | `RASpec => []RATypeOK` |
| `RetriesBounded` | `RASpec => []RetryBounds` |
| `CleansUp` | `RASpec => []CleanupInv` |
| `ClosedFirst` | `RASpec => CloseBeforeDestroy` |
| `KeysAgree` | `NullIsNoContext => (RASpec => []KeyAgreement)` |
| `ProviderImplemented` | `RASpec => SP!SPSpec` |

`MainInv` ties each piece of `main`'s state to the statement it is at: `CreateInv` and
`BusyInv` (in each loop, calls made plus budget left is constant, and where the budget is
reset), `RetInv`, `HeapInv`, `EnclaveInv` (an enclave that is alive is the one `main`
names; a key exchange is open only there, and when `main` destroys it only if its one call
of `enclave_ra_close` failed). Each part is
inductive relative to the others and is proved against all of `main`'s actions in a lemma
of its own. `ExchangeInv` is on top: the msg2 in `main`'s hands is the one made of the
database as it is now, and before msg2 no enclave has keys; that the enclave's derivation
of (a, g_b) equals the provider's of (b, g_a) is the lemma `SameKeys`.
`ProviderImplemented` ties the composition to its component: through every failure and
retry `main` makes of the provider only what a client of `ServiceProvider` may, because
(`RequestInv`) its one msg1 carries the first key pair generated.

### The secret's delivery: `SecretProvisioningProofs`

| theorem | statement |
|---|---|
| `ResultsAuthentic` | `PSpec => []ResultAuthentic` |
| `SecretsAuthentic` | `PSpec => []SecretAuthentic` |
| `SecretNeverBehindError` | `NullIsNoRecord => (PSpec => SecretOnlyBySuccess)` |
| `SecretDelivered` | `NullIsNoRecord => (PSpec => DeliveredInSession)`, where `DeliveredInSession == D!DSpec` |
| `SessionsOwned` | `NullIsNoRecord => (PSpec => []D!OneOwner)` |
| `ProviderImplemented` | `PSpec => SP!SPSpec` |
| `ProviderGuarantees` | `PSpec => []SP!Msg2Inv /\ []SP!VkCommits /\ SP!FreshKeys` |

For any enclaves, contexts, key pairs and messages that the host holds. `PInv` adds `ShapeInv`,
`HeldInv` (each msg2 held carries a g_b that was generated) and `ContextInv` (a context
that accepted msg2 holds the keys of its own key pair and of one of the provider's).
The properties then follow from the MAC's key, by the injectivity of the derivation.

The refinement needs more, because its abstract steps have guards about the past. Which
action maps to which:

| step of `SecretProvisioning` | step of `SecretDelivery` | what its guard needs |
|---|---|---|
| `ProcMsg2(c, msg2)` | `Confirm(c, s)` | `OwnKeys`, `NotYet`: no other context has this key pair, and a msg3 made with it was made in this context since |
| `IssueResult` with the secret | `Issue(s)` | `Msg3Inv`, `DbInv`: the sk in the database is that of the smk the msg3 was authenticated with |
| `PutSecret` that leaves the secret | `Deliver(c)`, or none if it was there | `ContextInv`, `ResultInv`: the key that opened the payload is this session's, and results carry the secret only under the sk of a session |
| `PutSecret` that leaves other bytes | `Overwrite(Home[c])` | |
| `CloseRA`, `GetGa` | `GiveUp(c)` | |
| `PowerTransition` | `Lose` | |
| the rest | none | |

`DbInv` is where the half-failed requests of the provider bite. A msg1 that fails after
`smk` was derived leaves a new `smk` beside the old `sk`, which the external provider would
then issue the secret under. No enclave can have a session of that `smk`: the request that
derived it was not answered, and a key pair is in one msg2 at most (`Msg1Keys`). So where
the `smk` belongs to a session that was answered, the `sk` does too. `NotYet` is where
replays bite: a stored msg2 is accepted again only in the context it was made for, because
`sgx_ra_get_ga` generates a key pair each time; with one that is kept, TLC finds a closed
session revived. `OneOwner` (no two contexts, of one enclave or of two, keep a session of one
key pair, nothing is issued to a session nobody confirmed) then follows from the abstract specification alone.

The last two theorems compose: the host makes of the provider only the requests of a client
(`KeysSent`), so `ServiceProviderProofs`, instantiated on this system's variables, says of
its provider what it says of any.

### The ECALL on host memory: `UserCheckProofs`

| theorem | statement |
|---|---|
| `CallInBounds` | `USpec => []InBounds` |
| `HostFindsMessage` | `USpec => []WrittenBack` |
| `ChecksumOfCopy` | `USpec => []ChecksumCorrect` |

For every size of the host's buffer, of the copy (below 2^16, so that the sum fits
`int32_t`) and of the message, every contents and any number of host writes. `BoundsInv`
adds to `InBounds` that both buffers hold bytes, whoever writes them, which bounds each
word the sum adds. `WriteBackInv` says how much of the copy-out is done. `ChecksumInv` is
the loop's: `i` is even, and `sum` is the reference checksum of the bytes before it.

That step needs that the reference, a fold of the community modules over a set, grows by
one byte's contribution. The library states this only through an operator parameter, which
the prover cannot instantiate. The module proves it another way: a contribution of *c* is
counted by *c* tokens of that byte, so the fold equals the difference of two cardinalities
(`Gains` and `Losses`), which holds for all sets because a smallest one for which it
does not cannot exist (`WFMin`, with the strict subset order on finite sets); and the
cardinalities add up.

### The basic application: `BasicAppProofs`

| theorem | statement |
|---|---|
| `GateHolds` | `BSpec => []PrivateGate` |
| `NoAssertFails` | `BSpec => []AssertsHold` |
| `LinesAreOwn` | `BSpec => []PrintedOwn` |

*The gate.* Whatever is on the stack and whatever fails, the private ECALL runs only
inside the OCALL that allows it, inside the public ECALL. `PrivateGate` is not inductive,
since it says nothing of the OCALL's own caller when the private ECALL is not there yet;
`CallerInv` says of each of the two who called it, and `StackInv` that main's frame is
never popped. That no other script calls the OCALL is read off the scripts
(`HostScripts`).

*The assertions.* An assertion is about the call before it, of which the state keeps only
the outcome. The data of the program is checked once and for all: each statement of each
script `Fits` the function it names, which is to say that the leaf it calls finds what it
asserts of its argument and leaves what the statement asserts after it, for any value of
the variable (`ScriptsFit`, one lemma for each script). The invariant then carries that
through the stack. `WaitInv`: each frame but the newest stands at the statement whose
call is the next frame, with the argument that call was made with. `TestInv`: unless
something failed from outside, the newest frame's outcome is one its statement accepts.
Neither is inductive without the other, or without the gate: that the runtime refuses
the private ECALL is what one of the statements expects.

*The printed lines.* `PrintInv` relates main's frame to the lines printed: `r` is the
line before, or `Junk` at the first, until the call returned with success, and the
operation's own result after. It needs `AnyValueAssumption`: with a number for `AnyValue`, a
leaf whose result is that number would be read as one that leaves `r` alone.

### Model-checked only

* Liveness (`Termination`, `ATermination`, `TFTermination`, `RATermination`,
  `BTermination`): fairness and `ENABLED` are out of the prover's reach.
* The three violations, which are counterexamples.

## 5. Not modelled

* `sp_ra_proc_msg3_req`, the rest of `main` after msg2: commented out.
  `ias_verify_attestation_evidence` and `verify_cmac128` have no caller for that reason.
* `sample_libcrypto`, the SDK: external, present as calls that succeed or fail.
* What `malloc`, the thrown exception and the map of the libc/libc++ demonstrations
  compute, and `almost_equal` on the constants of the type demonstrations: their
  assertions are about the library and are taken as true.
* Printing, build files and containers: no state.
* Local attestation: the directory holds a README only.
* Malformed pointers to `ra_network_send_receive` and wrong sizes are one action,
  `Reject`.

## 6. Plan

Everything the runs check is modelled and, liveness apart, proved. What could still be
added: an abstract specification of the provider (one exchange at a time, committed by the
verification key) that `ServiceProvider` implements; one of the basic
application as a sequence of four results; and, once the source completes msg3, the
provider's own handler in place of the external one.

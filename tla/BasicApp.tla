------------------------------ MODULE BasicApp ------------------------------
(***************************************************************************)
(* The basic enclave's application: main and its four arithmetic ECALLs,   *)
(* and the demonstrations of the EDL attributes and of the trusted C and   *)
(* C++ libraries (basic-enclave/App and basic-enclave/Enclave).            *)
(*                                                                         *)
(* One host thread.  A call that crosses the boundary goes through code    *)
(* that edger8r generates from the .edl files: it refuses an ECALL that is *)
(* not allowed here, copies buffers in and out as their attributes say,    *)
(* and may itself fail.  Control is a stack of frames.  Every function is  *)
(* a script, a list of calls each followed by the test of its outcome, or  *)
(* a leaf, which tests and rewrites the buffer it is given.  main of this  *)
(* repository makes the arithmetic calls only; the demonstrations are the  *)
(* entry points of App.h, which the model lets main call first, each at    *)
(* most once and in any order.                                             *)
(***************************************************************************)
EXTENDS Integers, Sequences

CONSTANTS
  AnyValue,   \* where nothing is set, asserted, tested or rewritten
  Junk        \* what an uninitialised variable holds

\* The marker is not a number: no r that main prints is taken for it.
ASSUME AnyValueAssumption == AnyValue \notin Int

VARIABLES
  phase,     \* start, running, prompt (getchar), exited or aborted
  enclave,   \* none, alive, lost or crashed
  stack,     \* the calls in progress: frames, the newest last
  todo,      \* the demonstrations main has yet to call
  printed,   \* the values of r that main has printed
  report,    \* what print_error_message said
  fault      \* has a call failed for a reason outside this program's code?

bvars == <<phase, enclave, stack, todo, printed, report, fault>>
-----------------------------------------------------------------------------
(* The host's scripts.  Call(fn, set, want): the caller sets its variable,  *)
(* passes its address to fn, aborts on a status other than SUCCESS and      *)
(* asserts what the variable holds.                                         *)

Call(fn, set, want) ==
  [fn |-> fn, set |-> set, want |-> want, status |-> "SUCCESS"]

Ident(n)  == [k \in 0 .. n - 1 |-> k]
Rev(n)    == [k \in 0 .. n - 1 |-> n - 1 - k]
Zeroes(n) == [k \in 0 .. n - 1 |-> 0]

ArrayCalls ==
  <<Call("ecall_array_user_check", Ident(4), Rev(4)),
    Call("ecall_array_in",         Ident(4), Ident(4)),
    Call("ecall_array_out",        Ident(4), Rev(4)),
    Call("ecall_array_in_out",     Ident(4), Rev(4)),
    Call("ecall_array_isary",      Ident(10), Rev(10))>>

PointerCalls ==
  <<Call("ecall_pointer_user_check", "0x0e...", "SGX_SUCCESS"),
    Call("ecall_pointer_in", 0, 0),
    Call("ecall_pointer_out", 0, 1234),
    Call("ecall_pointer_in_out", 0, 1234),
    Call("ocall_pointer_attr", AnyValue, AnyValue),
    Call("ecall_pointer_string", "1234567890", "0987654321"),
    Call("ecall_pointer_string_const", "1234567890", "1234567890"),
    Call("ecall_pointer_size", "1234567890", "0987654321"),
    Call("ecall_pointer_isptr_readonly", "1234567890", "1234567890"),
    Call("ecall_pointer_count", Ident(10), Rev(10))>>

TypeCalls ==
  <<Call("ecall_type_char", 18, AnyValue),
    Call("ecall_type_int", 1234, AnyValue),
    Call("ecall_type_float", "1234.0", AnyValue),
    Call("ecall_type_double", "1234.5678", AnyValue),
    Call("ecall_type_size_t", 12345678, AnyValue),
    Call("ecall_type_wchar_t", 4660, AnyValue),
    Call("ecall_type_struct", <<1234, 5678>>, AnyValue),
    Call("ecall_type_enum_union", 0, 2)>>

\* The host may not call the private ECALL, and runned must stay 0.
FunctionCalls ==
  <<Call("ecall_function_public", AnyValue, AnyValue),
    [Call("ecall_function_private", 0, 0) EXCEPT !.status = "ECALL_NOT_ALLOWED"]>>

\* Inside this OCALL the private ECALL is allowed, and runned becomes 1.
AllowCalls == <<Call("ecall_function_private", 0, 1)>>

LibcCalls ==
  <<Call("ecall_malloc_free", AnyValue, AnyValue),
    Call("ecall_sgx_cpuid", Zeroes(4), AnyValue)>>

LibcxxCalls == <<Call("ecall_exception", AnyValue, AnyValue), Call("ecall_map", AnyValue, AnyValue)>>

\* main keeps one r, sets it nowhere and looks at no status.
Operation(fn) == [fn |-> fn, set |-> AnyValue, want |-> AnyValue, status |-> AnyValue]
MainCalls == <<Operation("add"), Operation("subtract"),
               Operation("multiply"), Operation("divide")>>

\* The scripts on the enclave's side make OCALLs and test them the same way.
PublicCalls == <<Call("ocall_function_allow", AnyValue, AnyValue)>>

AttrCalls ==
  <<Call("ocall_pointer_user_check", 0, AnyValue),
    Call("ocall_pointer_in", 0, 0),
    Call("ocall_pointer_out", 0, 1234),
    Call("ocall_pointer_in_out", 0, 1234)>>

Script ==
  [main |-> MainCalls,
   edger8r_array_attributes    |-> ArrayCalls,
   edger8r_pointer_attributes  |-> PointerCalls,
   edger8r_type_attributes     |-> TypeCalls,
   edger8r_function_attributes |-> FunctionCalls,
   ecall_libc_functions        |-> LibcCalls,
   ecall_libcxx_functions      |-> LibcxxCalls,
   ecall_function_public       |-> PublicCalls,
   ocall_function_allow        |-> AllowCalls,
   ocall_pointer_attr          |-> AttrCalls]

Demos == {"edger8r_array_attributes", "edger8r_pointer_attributes",
          "edger8r_type_attributes", "edger8r_function_attributes",
          "ecall_libc_functions", "ecall_libcxx_functions"}
-----------------------------------------------------------------------------
(* The leaves.  Leaf(attr, pre, post): how the argument passes, what the    *)
(* leaf asserts of it and what it leaves there.                             *)

Leaf(attr, pre, post) ==
  [attr |-> attr, pre |-> pre, post |-> post, needy |-> FALSE]
\* A leaf that aborts if the heap or an OCALL of the SDK fails it.
Needy(leaf) == [leaf EXCEPT !.needy = TRUE]

ArrayLeaves ==
  [ecall_array_user_check |-> Leaf("user_check", Ident(4), Rev(4)),
   ecall_array_in         |-> Leaf("in", Ident(4), Rev(4)),
   ecall_array_out        |-> Leaf("out", Zeroes(4), Rev(4)),
   ecall_array_in_out     |-> Leaf("inout", Ident(4), Rev(4)),
   ecall_array_isary      |-> Leaf("user_check", Ident(10), Rev(10))]

\* Of ecall_pointer_user_check only the outcome: module UserCheck has the rest.
PointerLeaves ==
  [ecall_pointer_user_check |-> Leaf("user_check", AnyValue, "SGX_SUCCESS"),
   ecall_pointer_in     |-> Leaf("in", AnyValue, 1234),
   ecall_pointer_out    |-> Leaf("out", 0, 1234),
   ecall_pointer_in_out |-> Leaf("inout", AnyValue, 1234)]

BufferLeaves ==
  [ecall_pointer_string         |-> Leaf("inout", AnyValue, "0987654321"),
   ecall_pointer_string_const   |-> Needy(Leaf("in", AnyValue, AnyValue)),
   ecall_pointer_size           |-> Leaf("inout", AnyValue, "0987654321"),
   ecall_pointer_count          |-> Leaf("inout", AnyValue, Rev(10)),
   ecall_pointer_isptr_readonly |-> Leaf("in", AnyValue, "0987654321")]

TypeLeaves ==
  [ecall_type_char       |-> Leaf("value", 18, AnyValue),
   ecall_type_int        |-> Leaf("value", 1234, AnyValue),
   ecall_type_float      |-> Leaf("value", "1234.0", AnyValue),
   ecall_type_double     |-> Leaf("value", "1234.5678", AnyValue),
   ecall_type_size_t     |-> Leaf("value", 12345678, AnyValue),
   ecall_type_wchar_t    |-> Leaf("value", 4660, AnyValue),
   ecall_type_struct     |-> Leaf("value", <<1234, 5678>>, AnyValue),
   ecall_type_enum_union |-> Leaf("user_check", AnyValue, 2)]

LibcLeaves ==
  [ecall_malloc_free |-> Needy(Leaf("none", AnyValue, AnyValue)),
   ecall_sgx_cpuid   |-> Needy(Leaf("out", AnyValue, "cpuid"))]

\* The exception thrown and caught, the map filled and read: no state outlives
\* the call, and what they assert is about the library.  Both allocate, and a
\* bad_alloc ends in assert(false) or uncaught.
LibcxxLeaves ==
  [ecall_exception |-> Needy(Leaf("none", AnyValue, AnyValue)),
   ecall_map       |-> Needy(Leaf("none", AnyValue, AnyValue))]

FunctionLeaves == [ecall_function_private |-> Leaf("retval", AnyValue, 1)]

add(a, b)      == a + b

\* Mutant: the operands change places.
Mutsubtract(a, b) == b - a

subtract(a, b) == a - b
multiply(a, b) == a * b
\* The code's test for zero is of the pointer b, which main never passes null.
divide(a, b)   == a \div b

\* a and b are int * [in]; the result returns through &r.
Arithmetic ==
  LET a == 3  b == 5 IN
    [add      |-> Leaf("operands", AnyValue, add(a, b)),
     subtract |-> Leaf("operands", AnyValue, subtract(a, b)),
     multiply |-> Leaf("operands", AnyValue, multiply(a, b)),
     divide   |-> Leaf("operands", AnyValue, divide(a, b))]

\* The host's leaves.  A [user_check] pointer to enclave memory is of no use.
HostLeaves ==
  [ocall_pointer_user_check |-> Leaf("value", AnyValue, AnyValue),
   ocall_pointer_in     |-> Leaf("in", AnyValue, 1234),
   ocall_pointer_out    |-> Leaf("out", AnyValue, 1234),
   ocall_pointer_in_out |-> Leaf("inout", AnyValue, 1234)]

\* Two tables of leaves in one.
f ++ g == [x \in DOMAIN f \cup DOMAIN g |-> IF x \in DOMAIN f THEN f[x] ELSE g[x]]

TrustedLeaves ==
  ArrayLeaves ++ PointerLeaves ++ BufferLeaves ++ TypeLeaves ++ LibcLeaves
    ++ LibcxxLeaves ++ FunctionLeaves ++ Arithmetic

Leaves == TrustedLeaves ++ HostLeaves
ECalls == DOMAIN TrustedLeaves \cup {"ecall_function_public", "ocall_pointer_attr"}
OCalls == DOMAIN HostLeaves \cup {"ocall_function_allow"}
-----------------------------------------------------------------------------
(* The boundary: generated from the .edl files, and the SDK's runtimes. *)

\* Mutant: an [out] buffer keeps what the caller had in it.
MutCopiedIn(attr) == attr \in {"in", "out", "inout", "user_check", "value"}

\* Which arguments reach the callee with the caller's value, and which come
\* back.  An [out] buffer starts as zeros.
CopiedIn(attr)  == attr \in {"in", "inout", "user_check", "value"}
CopiedOut(attr) == attr \in {"out", "inout", "user_check", "retval", "operands"}
Zeroed(fn) == IF fn \in {"ecall_array_out", "ecall_sgx_cpuid"} THEN Zeroes(4) ELSE 0

Argument(fn, v) ==
  IF fn \in DOMAIN Leaves /\ ~CopiedIn(Leaves[fn].attr) THEN Zeroed(fn) ELSE v

\* Mutant: private ECALLs are callable like public ones.
MutAllowed(caller, fn) == TRUE

\* Inside an OCALL only the ECALLs its allow() names, outside any public one.
Allowed(caller, fn) ==
  IF caller \in OCalls
    THEN caller = "ocall_function_allow" /\ fn = "ecall_function_private"
    ELSE fn # "ecall_function_private"
-----------------------------------------------------------------------------
Frame(fn, arg) ==
  [fn |-> fn, pc |-> 1, arg |-> arg, var |-> Junk, status |-> "none"]

Top == stack[Len(stack)]
Scripted == Top.fn \in DOMAIN Script
Done == Scripted /\ Top.pc > Len(Script[Top.fn])
Statement == Script[Top.fn][Top.pc]

\* The enclave's code runs only while the enclave is there.
Running ==
  /\ phase = "running"
  /\ Top.fn \in ECalls => enclave = "alive"

SetVar == IF Statement.set = AnyValue THEN Top.var ELSE Statement.set
AtCall == Running /\ Scripted /\ ~Done /\ Top.status = "none"

\* The call returns at once with an error, its variable as the caller set it.
Failed(status) ==
  stack' = [stack EXCEPT ![Len(stack)].var = SetVar,
                         ![Len(stack)].status = status]

\* What the runtime reports of an enclave that is no longer there.
Gone == [lost |-> "ENCLAVE_LOST", crashed |-> "ENCLAVE_CRASHED"][enclave]

MakeCall ==
  /\ AtCall
  /\ Statement.fn \in ECalls => /\ enclave = "alive"
                                /\ Allowed(Top.fn, Statement.fn)
  /\ stack' = Append([stack EXCEPT ![Len(stack)].var = SetVar],
                     Frame(Statement.fn, Argument(Statement.fn, SetVar)))
  /\ UNCHANGED <<phase, enclave, todo, printed, report, fault>>

\* The runtime finds no enclave, or the enclave's entry table refuses the call.
CallRefused ==
  /\ AtCall /\ Statement.fn \in ECalls
  /\ \/ enclave # "alive" /\ Failed(Gone)
     \/ enclave = "alive" /\ ~Allowed(Top.fn, Statement.fn)
                          /\ Failed("ECALL_NOT_ALLOWED")
  /\ UNCHANGED <<phase, enclave, todo, printed, report, fault>>

\* A runtime or the generated code fails the call before it starts: no memory
\* for a buffer's copy, no room on the untrusted stack.
BridgeFails ==
  /\ AtCall
  /\ Statement.fn \in ECalls => enclave = "alive" /\ Allowed(Top.fn, Statement.fn)
  /\ Failed("OUT_OF_MEMORY")
  /\ fault' = TRUE
  /\ UNCHANGED <<phase, enclave, todo, printed, report>>

\* The caller's frame after a call returned v and a status.
Popped(v, status) ==
  LET n == Len(stack) - 1 IN
    [SubSeq(stack, 1, n) EXCEPT ![n].var = v, ![n].status = status]
CallerVar == stack[Len(stack) - 1].var

\* Nothing else runs between a leaf's body and the copies its return makes.
RunLeaf ==
  /\ Running /\ ~Scripted
  /\ LET leaf == Leaves[Top.fn]
         left == IF leaf.post = AnyValue THEN Top.arg ELSE leaf.post
     IN /\ leaf.pre \in {AnyValue, Top.arg}
        /\ stack' = Popped(IF CopiedOut(leaf.attr) THEN left ELSE CallerVar,
                           "SUCCESS")
  /\ UNCHANGED <<phase, enclave, todo, printed, report, fault>>

\* abort or a failed assert: in the enclave it ends the enclave, in the host
\* the process.
Abort ==
  IF Top.fn \in ECalls
    THEN enclave' = "crashed" /\ UNCHANGED phase
    ELSE phase' = "aborted" /\ UNCHANGED enclave

\* Its assertion fails, or the memory or the OCALL it needs does.
LeafAborts ==
  /\ Running /\ ~Scripted
  /\ LET leaf == Leaves[Top.fn]
         holds == leaf.pre \in {AnyValue, Top.arg}
     IN ~(holds /\ ~leaf.needy) /\ fault' = (fault \/ holds)
  /\ Abort
  /\ UNCHANGED <<stack, todo, printed, report>>

\* A script that is through returns; a demonstration returns to main.
ReturnScript ==
  /\ Running /\ Done /\ Top.fn # "main"
  /\ stack' = Popped(CallerVar, IF Top.fn \in Demos THEN "none" ELSE "SUCCESS")
  /\ UNCHANGED <<phase, enclave, todo, printed, report, fault>>

\* The enclave went away under the ECALL: its caller is told.
LostReturn ==
  /\ phase = "running" /\ Top.fn \in ECalls
  /\ enclave # "alive"
  /\ stack' = Popped(CallerVar, Gone)
  /\ UNCHANGED <<phase, enclave, todo, printed, report, fault>>

\* The test after a call.
Passed ==
  /\ Statement.status \in {AnyValue, Top.status}
  /\ Statement.want \in {AnyValue, Top.var}

AtCheck == Running /\ Scripted /\ ~Done /\ Top.status # "none"

\* Mutant: a call that found no enclave is made again.
MutCheck ==
  /\ AtCheck /\ Passed
  /\ stack' = [stack EXCEPT ![Len(stack)].status = "none",
                            ![Len(stack)].pc = IF Top.status = "ENCLAVE_LOST"
                                               THEN @ ELSE @ + 1]
  /\ printed' = IF Top.fn = "main" /\ Top.status # "ENCLAVE_LOST"
                THEN Append(printed, Top.var) ELSE printed
  /\ UNCHANGED <<phase, enclave, todo, report, fault>>

Check ==
  /\ AtCheck /\ Passed
  /\ stack' = [stack EXCEPT ![Len(stack)].status = "none",
                            ![Len(stack)].pc = @ + 1]
  /\ printed' = IF Top.fn = "main" THEN Append(printed, Top.var) ELSE printed
  /\ UNCHANGED <<phase, enclave, todo, report, fault>>

CheckAborts ==
  /\ AtCheck /\ ~Passed
  /\ Abort
  /\ UNCHANGED <<stack, todo, printed, report, fault>>
-----------------------------------------------------------------------------
(* main *)

ErrList ==
  {"UNEXPECTED", "INVALID_PARAMETER", "OUT_OF_MEMORY", "ENCLAVE_LOST",
   "INVALID_ENCLAVE", "INVALID_ENCLAVE_ID", "INVALID_SIGNATURE", "OUT_OF_EPC",
   "NO_DEVICE", "MEMORY_MAP_CONFLICT", "INVALID_METADATA", "DEVICE_BUSY",
   "INVALID_VERSION", "INVALID_ATTRIBUTE", "ENCLAVE_FILE_ACCESS"}

\* An error in the list by its message, with a suggestion for two of them; any
\* other by its number.
print_error_message(ret) ==
  [error |-> IF ret \in ErrList THEN ret ELSE "number",
   info  |-> ret \in {"ENCLAVE_LOST", "NO_DEVICE"}]

NoReport == [error |-> "none", info |-> FALSE]

BInit ==
  /\ phase = "start" /\ enclave = "none" /\ stack = <<>>
  /\ todo = Demos
  /\ printed = <<>> /\ report = NoReport /\ fault = FALSE

initialize_enclave ==
  /\ phase = "start"
  /\ \/ phase' = "running" /\ enclave' = "alive" /\ stack' = <<Frame("main", AnyValue)>>
        /\ report' = NoReport
     \/ \E ret \in ErrList \cup {"SERVICE_UNAVAILABLE"} :
          /\ phase' = "prompt"
          /\ report' = print_error_message(ret)
          /\ UNCHANGED <<enclave, stack>>
  /\ UNCHANGED <<todo, printed, fault>>

CallDemo(demo) ==
  /\ phase = "running" /\ Len(stack) = 1 /\ Top.pc = 1 /\ Top.status = "none"
  /\ todo' = todo \ {demo}
  /\ stack' = Append(stack, Frame(demo, AnyValue))
  /\ UNCHANGED <<phase, enclave, printed, report, fault>>

\* The calls done, main destroys the enclave, whatever became of it.
DestroyEnclave ==
  /\ phase = "running" /\ Top.fn = "main" /\ Done
  /\ enclave' = "none" /\ phase' = "prompt"
  /\ UNCHANGED <<stack, todo, printed, report, fault>>

GetChar ==
  /\ phase = "prompt" /\ phase' = "exited"
  /\ UNCHANGED <<enclave, stack, todo, printed, report, fault>>

PowerTransition ==
  /\ phase = "running" /\ enclave = "alive"
  /\ enclave' = "lost" /\ fault' = TRUE
  /\ UNCHANGED <<phase, stack, todo, printed, report>>

\* The program's thread.
HostThread ==
  \/ initialize_enclave
  \/ \E demo \in todo : CallDemo(demo)
  \/ MakeCall \/ CallRefused \/ BridgeFails
  \/ RunLeaf \/ LeafAborts
  \/ ReturnScript \/ LostReturn \/ Check \/ CheckAborts
  \/ DestroyEnclave

\* The process has ended: not a deadlock.
Finished == phase \in {"exited", "aborted"} /\ UNCHANGED bvars

BNext == HostThread \/ GetChar \/ PowerTransition \/ Finished

\* The thread keeps running; nobody need ever press a key.
BSpec == BInit /\ [][BNext]_bvars /\ WF_bvars(HostThread)
-----------------------------------------------------------------------------
\* No assert and no test of either side's scripts and leaves ever fails, so
\* neither side aborts, unless the enclave was lost or memory or the SDK failed
\* a call: every buffer holds on both sides of every call what the attribute of
\* its .edl declaration promises to whoever looks at it there.
AssertsHold == (phase = "aborted" \/ enclave = "crashed") => fault

\* The private ECALL runs only inside the OCALL that allows it, and that only
\* inside the public ECALL: the host's direct call does not reach it.
PrivateGate ==
  \A k \in DOMAIN stack :
    stack[k].fn = "ecall_function_private" =>
      /\ k > 2
      /\ stack[k - 1].fn = "ocall_function_allow"
      /\ stack[k - 2].fn = "ecall_function_public"

\* main prints r after each ECALL without a look at its status: each line is
\* the operation's own result, or a call has failed and the line repeats the one
\* before, or, if it is the first, shows a variable nobody has set.
PrintedOwn ==
  \A k \in DOMAIN printed :
    \/ printed[k] = <<8, -2, 15, 0>>[k]
    \/ fault /\ printed[k] = (IF k = 1 THEN Junk ELSE printed[k - 1])

\* Whatever fails and whenever the enclave is lost, the program comes to its
\* last prompt with its four lines printed and the enclave destroyed, or having
\* said why there is none, or it has aborted; it never waits for an enclave.
BTermination ==
  <>(\/ phase \in {"prompt", "exited"} /\ enclave = "none"
        /\ (Len(printed) = 4 \/ report # NoReport)
     \/ phase = "aborted")
=============================================================================

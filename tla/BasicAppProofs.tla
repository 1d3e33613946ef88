---------------------------- MODULE BasicAppProofs ----------------------------
(***************************************************************************)
(* Proofs about BasicApp, whatever the two model values AnyValue and Junk  *)
(* stand for: even if an uninitialised variable holds a value that some    *)
(* assertion waits for.  Only the last, of what main prints, needs         *)
(* AnyValueAssumption.                                                     *)
(***************************************************************************)
EXTENDS BasicApp, TLAPS

\* A call in progress, with the place its script is at.
IsFrame(f) ==
  /\ DOMAIN f = {"fn", "pc", "arg", "var", "status"}
  /\ f.pc \in Nat \ {0}

\* t is a stack of n frames, of the functions of the first n frames of s.
SameCalls(s, t, n) ==
  /\ n \in Nat /\ Len(t) = n
  /\ t = [k \in 1 .. n |-> t[k]]
  /\ \A k \in 1 .. n : IsFrame(t[k]) /\ t[k].fn = s[k].fn

\* While the program runs, main's frame lies at the bottom.
StackInv ==
  /\ SameCalls(stack, stack, Len(stack))
  /\ phase = "running" => Len(stack) > 0 /\ stack[1].fn = "main"

\* Who calls the two functions behind the gate.
CallerInv ==
  \A k \in 1 .. Len(stack) :
    /\ stack[k].fn = "ecall_function_private" =>
         k > 1 /\ stack[k - 1].fn = "ocall_function_allow"
    /\ stack[k].fn = "ocall_function_allow" =>
         k > 1 /\ stack[k - 1].fn = "ecall_function_public"

GateInv == todo \subseteq Demos /\ StackInv /\ CallerInv
-----------------------------------------------------------------------------
(* Frames. *)

\* Its frames make the stack a sequence, so that Append and SubSeq are defined.
LEMMA StackSeq ==
  ASSUME NEW s, NEW t, NEW n, SameCalls(s, t, n)
  PROVE  \E S : t \in Seq(S)
<1> DEFINE S == {t[k] : k \in 1 .. n}
<1>1. t \in [1 .. n -> S]
  BY DEF SameCalls
<1>2. n \in Nat
  BY DEF SameCalls
<1>3. t \in Seq(S)
  BY <1>1, <1>2
<1>4. QED
  BY <1>3

\* A frame put in the place of another of the same function.
LEMMA Replaced ==
  ASSUME NEW s, NEW t, NEW n, SameCalls(s, t, n), NEW j \in 1 .. n,
         NEW f, IsFrame(f), f.fn = s[j].fn
  PROVE  SameCalls(s, [t EXCEPT ![j] = f], n)
<1>1. PICK S : t \in Seq(S)
  BY StackSeq
<1>2. [t EXCEPT ![j] = f] \in Seq(S \cup {f})
  BY <1>1 DEF SameCalls
<1>3. Len([t EXCEPT ![j] = f]) = n
  BY <1>1 DEF SameCalls
<1>4. QED
  BY <1>2, <1>3 DEF SameCalls

\* What a return leaves of the stack.
LEMMA Shortened ==
  ASSUME NEW s, NEW n \in Nat, SameCalls(s, s, n), NEW m \in 0 .. n
  PROVE  SameCalls(s, SubSeq(s, 1, m), m)
<1>1. PICK S : s \in Seq(S)
  BY StackSeq
<1>2. SubSeq(s, 1, m) \in Seq(S) /\ Len(SubSeq(s, 1, m)) = m
  BY <1>1 DEF SameCalls
<1>3. \A k \in 1 .. m : SubSeq(s, 1, m)[k] = s[k]
  BY <1>1 DEF SameCalls
<1>4. QED
  BY <1>2, <1>3 DEF SameCalls

\* What a call adds to it.
Longer(t, f) == Append(t, f)

\* The new frame is on top of the same calls.
LEMMA Pushed ==
  ASSUME NEW s, NEW t, NEW n, SameCalls(s, t, n), NEW f, IsFrame(f),
         NEW u, u = Longer(t, f)
  PROVE  /\ SameCalls(u, u, n + 1)
         /\ \A k \in 1 .. n : u[k].fn = s[k].fn
         /\ u[n + 1] = f
<1>1. PICK S : t \in Seq(S)
  BY StackSeq
<1>2. u \in Seq(S \cup {f}) /\ Len(u) = n + 1
  BY <1>1 DEF SameCalls, Longer
<1>3. (\A k \in 1 .. n : u[k] = t[k]) /\ u[n + 1] = f
  BY <1>1 DEF SameCalls, Longer
<1>4. n \in Nat /\ u = [k \in 1 .. n + 1 |-> u[k]]
  BY <1>2 DEF SameCalls
<1>5. \A k \in 1 .. n : IsFrame(u[k]) /\ u[k].fn = s[k].fn
  BY <1>3 DEF SameCalls
<1>6. \A k \in 1 .. n + 1 : IsFrame(u[k])
  <2> SUFFICES ASSUME NEW k \in 1 .. n + 1 PROVE IsFrame(u[k])
    OBVIOUS
  <2>1. CASE k = n + 1
    BY <1>3, <2>1
  <2>2. CASE k \in 1 .. n
    BY <1>5, <2>2
  <2>3. QED
    BY <1>4, <2>1, <2>2
<1>7. SameCalls(u, u, n + 1)
  <2>1. PICK m \in Nat : m = n + 1
    BY <1>4
  <2>2. Len(u) = m
    BY <1>2, <2>1
  <2>3. u = [k \in 1 .. m |-> u[k]]
    BY <1>4, <2>1
  <2>4. \A k \in 1 .. m : IsFrame(u[k])
    BY <1>6, <2>1
  <2>5. SameCalls(u, u, m)
    BY <2>2, <2>3, <2>4 DEF SameCalls
  <2>6. QED
    BY <2>1, <2>5
<1>8. QED
  BY <1>3, <1>5, <1>7

-----------------------------------------------------------------------------
(* The scripts and the leaves. *)

\* What a script says of each call.
LEMMA CallFn ==
  ASSUME NEW fn, NEW set, NEW want
  PROVE  Call(fn, set, want).fn = fn
BY DEF Call

NoAllow(calls) ==
  /\ Len(calls) \in Nat
  /\ \A j \in 1 .. Len(calls) : calls[j].fn # "ocall_function_allow"

\* The host's own scripts call the enclave, never its OCALLs.
LEMMA HostScripts ==
  /\ NoAllow(ArrayCalls) /\ NoAllow(PointerCalls) /\ NoAllow(TypeCalls)
  /\ NoAllow(FunctionCalls) /\ NoAllow(AllowCalls) /\ NoAllow(LibcCalls)
  /\ NoAllow(LibcxxCalls) /\ NoAllow(MainCalls) /\ NoAllow(AttrCalls)
<1>1. NoAllow(ArrayCalls)
  BY CallFn DEF NoAllow, ArrayCalls
<1>2. NoAllow(PointerCalls)
  BY CallFn DEF NoAllow, PointerCalls
<1>3. NoAllow(TypeCalls)
  BY CallFn DEF NoAllow, TypeCalls
<1>4. NoAllow(FunctionCalls)
  BY DEF NoAllow, FunctionCalls, Call
<1>5. NoAllow(AllowCalls)
  BY CallFn DEF NoAllow, AllowCalls
<1>6. NoAllow(LibcCalls)
  BY CallFn DEF NoAllow, LibcCalls
<1>7. NoAllow(LibcxxCalls)
  BY CallFn DEF NoAllow, LibcxxCalls
<1>8. NoAllow(MainCalls)
  BY DEF NoAllow, MainCalls, Operation
<1>9. NoAllow(AttrCalls)
  BY CallFn DEF NoAllow, AttrCalls
<1>10. QED
  BY <1>1, <1>2, <1>3, <1>4, <1>5, <1>6, <1>7, <1>8, <1>9

\* The OCALL that opens the gate is made by the public ECALL only.
LEMMA AllowCaller ==
  ASSUME NEW fn \in DOMAIN Script, NEW j \in Nat \ {0},
         ~(j > Len(Script[fn])), Script[fn][j].fn = "ocall_function_allow"
  PROVE  fn = "ecall_function_public"
<1>1. SUFFICES ASSUME fn # "ecall_function_public" PROVE NoAllow(Script[fn])
  BY DEF NoAllow
<1>2. QED
  BY <1>1, HostScripts DEF Script

\* The tables of leaves put together.
LEMMA Together ==
  ASSUME NEW f, NEW g PROVE DOMAIN (f ++ g) = DOMAIN f \cup DOMAIN g
BY DEF ++

\* What the enclave's tables name.
LEMMA TrustedDomain ==
  DOMAIN TrustedLeaves =
    DOMAIN ArrayLeaves \cup DOMAIN PointerLeaves \cup DOMAIN BufferLeaves
    \cup DOMAIN TypeLeaves \cup DOMAIN LibcLeaves
    \cup DOMAIN LibcxxLeaves \cup DOMAIN FunctionLeaves
    \cup DOMAIN Arithmetic
<1> DEFINE T2 == ArrayLeaves ++ PointerLeaves
           T3 == T2 ++ BufferLeaves
           T4 == T3 ++ TypeLeaves
           T5 == T4 ++ LibcLeaves
           T6 == T5 ++ LibcxxLeaves
           T7 == T6 ++ FunctionLeaves
           T8 == T7 ++ Arithmetic
<1>1. DOMAIN T2 = DOMAIN ArrayLeaves \cup DOMAIN PointerLeaves
  BY Together
<1>2. DOMAIN T3 = DOMAIN T2 \cup DOMAIN BufferLeaves
  BY Together
<1>3. DOMAIN T4 = DOMAIN T3 \cup DOMAIN TypeLeaves
  BY Together
<1>4. DOMAIN T5 = DOMAIN T4 \cup DOMAIN LibcLeaves
  BY Together
<1>5. DOMAIN T6 = DOMAIN T5 \cup DOMAIN LibcxxLeaves
  BY Together
<1>6. DOMAIN T7 = DOMAIN T6 \cup DOMAIN FunctionLeaves
  BY Together
<1>7. DOMAIN T8 = DOMAIN T7 \cup DOMAIN Arithmetic
  BY Together
<1>8. TrustedLeaves = T8
  BY DEF TrustedLeaves
<1> HIDE DEF T2, T3, T4, T5, T6, T7, T8
<1>9. QED
  BY <1>1, <1>2, <1>3, <1>4, <1>5, <1>6, <1>7, <1>8

\* Each side's functions: main is a script and no ECALL, the private function
\* an ECALL.
LEMMA Sides ==
  /\ "main" \in DOMAIN Script
  /\ "main" \notin ECalls
  /\ "ecall_function_private" \in ECalls
<1>1. "main" \in DOMAIN Script
  BY DEF Script
<1>2. "ecall_function_private" \in DOMAIN FunctionLeaves
  BY DEF FunctionLeaves
<1>3. /\ "main" \notin DOMAIN ArrayLeaves
      /\ "main" \notin DOMAIN PointerLeaves
      /\ "main" \notin DOMAIN BufferLeaves
      /\ "main" \notin DOMAIN TypeLeaves
      /\ "main" \notin DOMAIN LibcLeaves
      /\ "main" \notin DOMAIN LibcxxLeaves
      /\ "main" \notin DOMAIN FunctionLeaves
      /\ "main" \notin DOMAIN Arithmetic
  BY DEF ArrayLeaves, PointerLeaves, BufferLeaves, TypeLeaves, LibcLeaves,
         LibcxxLeaves, FunctionLeaves, Arithmetic
<1>4. QED
  BY <1>1, <1>2, <1>3, TrustedDomain DEF ECalls
-----------------------------------------------------------------------------
(* Every call of every script against what it calls. *)

\* What a leaf leaves in its caller's variable.
Outcome(leaf, arg, var) ==
  IF CopiedOut(leaf.attr)
    THEN IF leaf.post = AnyValue THEN arg ELSE leaf.post
    ELSE var

\* Called with the variable as the statement sets it, the leaf finds what it
\* asserts and leaves what the statement asserts.
Agrees(c) ==
  \A v : c.set \in {AnyValue, v} =>
    /\ Leaves[c.fn].pre \in {AnyValue, Argument(c.fn, v)}
    /\ c.want \in {AnyValue, Outcome(Leaves[c.fn], Argument(c.fn, v), v)}

\* A statement names a script, of whose outcome it asserts nothing; or a leaf
\* it agrees with; or the ECALL the runtime refuses it, and it expects that.
Fits(caller, c) ==
  /\ c.fn # "main"
  /\ \/ /\ c.fn \in DOMAIN Script /\ Allowed(caller, c.fn)
        /\ c.want = AnyValue /\ c.status = "SUCCESS"
     \/ /\ c.fn \in DOMAIN Leaves /\ Allowed(caller, c.fn)
        /\ c.status \in {AnyValue, "SUCCESS"} /\ Agrees(c)
     \/ /\ c.fn = "ecall_function_private" /\ ~Allowed(caller, c.fn)
        /\ c.status = "ECALL_NOT_ALLOWED" /\ c.want \in {AnyValue, c.set}

\* A table with the entries of two.
IsUnion(h, f, g) ==
  /\ DOMAIN h = DOMAIN f \cup DOMAIN g
  /\ \A x \in DOMAIN f : h[x] = f[x]
  /\ \A x \in DOMAIN g : h[x] = g[x]

\* Two tables of different functions put together.
LEMMA Joined ==
  ASSUME NEW f, NEW g, NEW h, h = f ++ g, DOMAIN g \cap DOMAIN f = {}
  PROVE  IsUnion(h, f, g)
BY DEF ++, IsUnion

\* Where a table's leaves are found.
Found(table) ==
  \A fn \in DOMAIN table : fn \in DOMAIN Leaves /\ Leaves[fn] = table[fn]

\* The tables name different functions.
LEMMA Tables ==
  /\ Found(ArrayLeaves) /\ Found(PointerLeaves) /\ Found(BufferLeaves)
  /\ Found(TypeLeaves) /\ Found(LibcLeaves) /\ Found(LibcxxLeaves)
  /\ Found(FunctionLeaves) /\ Found(Arithmetic) /\ Found(HostLeaves)
<1> DEFINE D1 == DOMAIN ArrayLeaves
           D2 == DOMAIN PointerLeaves
           D3 == DOMAIN BufferLeaves
           D4 == DOMAIN TypeLeaves
           D5 == DOMAIN LibcLeaves
           D6 == DOMAIN LibcxxLeaves
           D7 == DOMAIN FunctionLeaves
           D8 == DOMAIN Arithmetic
           D9 == DOMAIN HostLeaves
           T2 == ArrayLeaves ++ PointerLeaves
           T3 == T2 ++ BufferLeaves
           T4 == T3 ++ TypeLeaves
           T5 == T4 ++ LibcLeaves
           T6 == T5 ++ LibcxxLeaves
           T7 == T6 ++ FunctionLeaves
           T8 == T7 ++ Arithmetic
<1>1. /\ D2 \cap D1 = {} /\ D3 \cap (D1 \cup D2) = {}
      /\ D4 \cap (D1 \cup D2 \cup D3) = {}
      /\ D5 \cap (D1 \cup D2 \cup D3 \cup D4) = {}
      /\ D6 \cap (D1 \cup D2 \cup D3 \cup D4 \cup D5) = {}
      /\ D7 \cap (D1 \cup D2 \cup D3 \cup D4 \cup D5 \cup D6) = {}
  BY DEF ArrayLeaves, PointerLeaves, BufferLeaves, TypeLeaves, LibcLeaves,
         LibcxxLeaves, FunctionLeaves
<1>2. /\ D8 \cap (D1 \cup D2 \cup D3 \cup D4 \cup D5 \cup D6 \cup D7) = {}
      /\ D9 \cap (D1 \cup D2 \cup D3 \cup D4 \cup D5 \cup D6 \cup D7 \cup D8) = {}
  BY DEF ArrayLeaves, PointerLeaves, BufferLeaves, TypeLeaves, LibcLeaves,
         LibcxxLeaves, FunctionLeaves, Arithmetic, HostLeaves
<1>3. Leaves = T8 ++ HostLeaves
  BY DEF Leaves, TrustedLeaves
<1>4. IsUnion(T2, ArrayLeaves, PointerLeaves)
  BY <1>1, Joined
<1> HIDE DEF T2
<1>5. IsUnion(T3, T2, BufferLeaves)
  <2>1. D3 \cap DOMAIN T2 = {}
    BY <1>1, <1>4 DEF IsUnion
  <2>2. QED
    BY <2>1, Joined
<1> HIDE DEF T3
<1>6. IsUnion(T4, T3, TypeLeaves)
  <2>1. D4 \cap DOMAIN T3 = {}
    BY <1>1, <1>4, <1>5 DEF IsUnion
  <2>2. QED
    BY <2>1, Joined
<1> HIDE DEF T4
<1>7. IsUnion(T5, T4, LibcLeaves)
  <2>1. D5 \cap DOMAIN T4 = {}
    BY <1>1, <1>4, <1>5, <1>6 DEF IsUnion
  <2>2. QED
    BY <2>1, Joined
<1> HIDE DEF T5
<1>8. IsUnion(T6, T5, LibcxxLeaves)
  <2>1. D6 \cap DOMAIN T5 = {}
    BY <1>1, <1>4, <1>5, <1>6, <1>7 DEF IsUnion
  <2>2. QED
    BY <2>1, Joined
<1> HIDE DEF T6
<1>9. IsUnion(T7, T6, FunctionLeaves)
  <2>1. D7 \cap DOMAIN T6 = {}
    BY <1>1, <1>4, <1>5, <1>6, <1>7, <1>8 DEF IsUnion
  <2>2. QED
    BY <2>1, Joined
<1> HIDE DEF T7
<1>10. IsUnion(T8, T7, Arithmetic)
  <2>1. D8 \cap DOMAIN T7 = {}
    BY <1>2, <1>4, <1>5, <1>6, <1>7, <1>8, <1>9 DEF IsUnion
  <2>2. QED
    BY <2>1, Joined
<1> HIDE DEF T8
<1>11. IsUnion(Leaves, T8, HostLeaves)
  <2>1. D9 \cap DOMAIN T8 = {}
    BY <1>2, <1>4, <1>5, <1>6, <1>7, <1>8, <1>9, <1>10 DEF IsUnion
  <2>2. QED
    BY <1>3, <2>1, Joined
<1>12. Found(ArrayLeaves) /\ Found(PointerLeaves) /\ Found(BufferLeaves)
  BY <1>4, <1>5, <1>6, <1>7, <1>8, <1>9, <1>10, <1>11 DEF Found, IsUnion
<1>13. Found(TypeLeaves) /\ Found(LibcLeaves) /\ Found(LibcxxLeaves)
  BY <1>6, <1>7, <1>8, <1>9, <1>10, <1>11 DEF Found, IsUnion
<1>14. Found(FunctionLeaves) /\ Found(Arithmetic) /\ Found(HostLeaves)
  BY <1>9, <1>10, <1>11 DEF Found, IsUnion
<1>15. QED
  BY <1>12, <1>13, <1>14

\* A function that is no OCALL: no gate stands before what it calls.
Plain(caller) == caller \notin OCalls

\* Of the scripts only ocall_function_allow is an OCALL.
LEMMA PlainScripts ==
  \A caller \in DOMAIN Script \ {"ocall_function_allow"} : Plain(caller)
BY DEF Script, Plain, OCalls, HostLeaves

\* No leaf is a script.
LEMMA NoScript == DOMAIN Leaves \cap DOMAIN Script = {}
<1>1. /\ DOMAIN ArrayLeaves \cap DOMAIN Script = {}
      /\ DOMAIN PointerLeaves \cap DOMAIN Script = {}
      /\ DOMAIN BufferLeaves \cap DOMAIN Script = {}
      /\ DOMAIN TypeLeaves \cap DOMAIN Script = {}
      /\ DOMAIN LibcLeaves \cap DOMAIN Script = {}
      /\ DOMAIN LibcxxLeaves \cap DOMAIN Script = {}
      /\ DOMAIN FunctionLeaves \cap DOMAIN Script = {}
      /\ DOMAIN Arithmetic \cap DOMAIN Script = {}
      /\ DOMAIN HostLeaves \cap DOMAIN Script = {}
  BY DEF ArrayLeaves, PointerLeaves, BufferLeaves, TypeLeaves, LibcLeaves,
         LibcxxLeaves, FunctionLeaves, Arithmetic, HostLeaves, Script
<1>2. DOMAIN Leaves = DOMAIN TrustedLeaves \cup DOMAIN HostLeaves
  BY Together DEF Leaves
<1>3. QED
  BY <1>1, <1>2, TrustedDomain

\* A call of a leaf in one of the tables.
LEMMA LeafFits ==
  ASSUME NEW caller, Plain(caller), NEW table, Found(table), NEW c,
         c.fn \in DOMAIN table, c.fn \notin {"main", "ecall_function_private"},
         c.status \in {AnyValue, "SUCCESS"}, Agrees(c)
  PROVE  Fits(caller, c)
BY DEF Plain, Found, Fits, Allowed

\* An argument passed in, the callee's changes lost.
LEMMA CallIn ==
  ASSUME NEW caller, Plain(caller), NEW table, Found(table),
         NEW fn \in DOMAIN table, fn \notin {"main", "ecall_function_private"},
         NEW set, NEW want, table[fn].attr \in {"in", "value"},
         table[fn].pre \in {AnyValue, set}, want \in {AnyValue, set}
  PROVE  Fits(caller, Call(fn, set, want))
<1>1. Agrees(Call(fn, set, want))
  BY DEF Agrees, Found, Call, Argument, Outcome, CopiedIn, CopiedOut
<1>2. QED
  BY <1>1, LeafFits DEF Call

\* One passed in and out.
LEMMA CallInOut ==
  ASSUME NEW caller, Plain(caller), NEW table, Found(table),
         NEW fn \in DOMAIN table, fn \notin {"main", "ecall_function_private"},
         NEW set, NEW want, table[fn].attr \in {"inout", "user_check"},
         table[fn].pre \in {AnyValue, set}, want \in {AnyValue, table[fn].post}
  PROVE  Fits(caller, Call(fn, set, want))
<1>1. Agrees(Call(fn, set, want))
  BY DEF Agrees, Found, Call, Argument, Outcome, CopiedIn, CopiedOut
<1>2. QED
  BY <1>1, LeafFits DEF Call

\* One passed out only.
LEMMA CallOut ==
  ASSUME NEW caller, Plain(caller), NEW table, Found(table),
         NEW fn \in DOMAIN table, fn \notin {"main", "ecall_function_private"},
         NEW set, NEW want, table[fn].attr = "out",
         table[fn].pre \in {AnyValue, Zeroed(fn)},
         want \in {AnyValue, table[fn].post}
  PROVE  Fits(caller, Call(fn, set, want))
<1>1. Agrees(Call(fn, set, want))
  BY DEF Agrees, Found, Call, Argument, Outcome, CopiedIn, CopiedOut
<1>2. QED
  BY <1>1, LeafFits DEF Call

\* Neither side asserts anything.
LEMMA CallAny ==
  ASSUME NEW caller, Plain(caller), NEW table, Found(table), NEW c,
         c.fn \in DOMAIN table, c.fn \notin {"main", "ecall_function_private"},
         c.status \in {AnyValue, "SUCCESS"},
         c.want = AnyValue, table[c.fn].pre = AnyValue
  PROVE  Fits(caller, c)
<1>1. Agrees(c)
  BY DEF Agrees, Found
<1>2. QED
  BY <1>1, LeafFits

\* A script of n statements that all fit.
AllFit(caller, calls) == \A j \in 1 .. Len(calls) : Fits(caller, calls[j])

\* The arrays.
LEMMA ArrayFits == AllFit("edger8r_array_attributes", ArrayCalls)
<1>1. Plain("edger8r_array_attributes")
  BY PlainScripts DEF Script
<1>2. Fits("edger8r_array_attributes",
           Call("ecall_array_user_check", Ident(4), Rev(4)))
  BY <1>1, Tables, CallInOut DEF ArrayLeaves, Leaf
<1>3. Fits("edger8r_array_attributes",
           Call("ecall_array_in",         Ident(4), Ident(4)))
  BY <1>1, Tables, CallIn DEF ArrayLeaves, Leaf
<1>4. Fits("edger8r_array_attributes",
           Call("ecall_array_out",        Ident(4), Rev(4)))
  BY <1>1, Tables, CallOut DEF ArrayLeaves, Leaf, Zeroed
<1>5. Fits("edger8r_array_attributes",
           Call("ecall_array_in_out",     Ident(4), Rev(4)))
  BY <1>1, Tables, CallInOut DEF ArrayLeaves, Leaf
<1>6. Fits("edger8r_array_attributes",
           Call("ecall_array_isary",      Ident(10), Rev(10)))
  BY <1>1, Tables, CallInOut DEF ArrayLeaves, Leaf
<1>7. QED
  BY <1>2, <1>3, <1>4, <1>5, <1>6 DEF AllFit, ArrayCalls

\* The pointers.
LEMMA PointerFits == AllFit("edger8r_pointer_attributes", PointerCalls)
<1>1. Plain("edger8r_pointer_attributes")
  BY PlainScripts DEF Script
<1>2. Fits("edger8r_pointer_attributes",
           Call("ecall_pointer_user_check", "0x0e...", "SGX_SUCCESS"))
  BY <1>1, Tables, CallInOut DEF PointerLeaves, Leaf
<1>3. Fits("edger8r_pointer_attributes",
           Call("ecall_pointer_in", 0, 0))
  BY <1>1, Tables, CallIn DEF PointerLeaves, Leaf
<1>4. Fits("edger8r_pointer_attributes",
           Call("ecall_pointer_out", 0, 1234))
  BY <1>1, Tables, CallOut DEF PointerLeaves, Leaf, Zeroed
<1>5. Fits("edger8r_pointer_attributes",
           Call("ecall_pointer_in_out", 0, 1234))
  BY <1>1, Tables, CallInOut DEF PointerLeaves, Leaf
<1>6. Fits("edger8r_pointer_attributes",
           Call("ocall_pointer_attr", AnyValue, AnyValue))
  BY <1>1 DEF Fits, Call, Script, Plain, Allowed
<1>7. Fits("edger8r_pointer_attributes",
           Call("ecall_pointer_string", "1234567890", "0987654321"))
  BY <1>1, Tables, CallInOut DEF BufferLeaves, Leaf
<1>8. Fits("edger8r_pointer_attributes",
           Call("ecall_pointer_string_const", "1234567890", "1234567890"))
  BY <1>1, Tables, CallIn DEF BufferLeaves, Leaf, Needy
<1>9. Fits("edger8r_pointer_attributes",
           Call("ecall_pointer_size", "1234567890", "0987654321"))
  BY <1>1, Tables, CallInOut DEF BufferLeaves, Leaf
<1>10. Fits("edger8r_pointer_attributes",
            Call("ecall_pointer_isptr_readonly", "1234567890", "1234567890"))
  BY <1>1, Tables, CallIn DEF BufferLeaves, Leaf
<1>11. Fits("edger8r_pointer_attributes",
            Call("ecall_pointer_count", Ident(10), Rev(10)))
  BY <1>1, Tables, CallInOut DEF BufferLeaves, Leaf
<1>12. QED
  BY <1>2, <1>3, <1>4, <1>5, <1>6, <1>7, <1>8, <1>9, <1>10, <1>11 DEF AllFit, PointerCalls

\* The basic types.
LEMMA TypeFits == AllFit("edger8r_type_attributes", TypeCalls)
<1>1. Plain("edger8r_type_attributes")
  BY PlainScripts DEF Script
<1>2. Fits("edger8r_type_attributes",
           Call("ecall_type_char", 18, AnyValue))
  BY <1>1, Tables, CallIn DEF TypeLeaves, Leaf
<1>3. Fits("edger8r_type_attributes",
           Call("ecall_type_int", 1234, AnyValue))
  BY <1>1, Tables, CallIn DEF TypeLeaves, Leaf
<1>4. Fits("edger8r_type_attributes",
           Call("ecall_type_float", "1234.0", AnyValue))
  BY <1>1, Tables, CallIn DEF TypeLeaves, Leaf
<1>5. Fits("edger8r_type_attributes",
           Call("ecall_type_double", "1234.5678", AnyValue))
  BY <1>1, Tables, CallIn DEF TypeLeaves, Leaf
<1>6. Fits("edger8r_type_attributes",
           Call("ecall_type_size_t", 12345678, AnyValue))
  BY <1>1, Tables, CallIn DEF TypeLeaves, Leaf
<1>7. Fits("edger8r_type_attributes",
           Call("ecall_type_wchar_t", 4660, AnyValue))
  BY <1>1, Tables, CallIn DEF TypeLeaves, Leaf
<1>8. Fits("edger8r_type_attributes",
           Call("ecall_type_struct", <<1234, 5678>>, AnyValue))
  BY <1>1, Tables, CallIn DEF TypeLeaves, Leaf
<1>9. Fits("edger8r_type_attributes",
           Call("ecall_type_enum_union", 0, 2))
  BY <1>1, Tables, CallInOut DEF TypeLeaves, Leaf
<1>10. QED
  BY <1>2, <1>3, <1>4, <1>5, <1>6, <1>7, <1>8, <1>9 DEF AllFit, TypeCalls

\* The C library.
LEMMA LibcFits == AllFit("ecall_libc_functions", LibcCalls)
<1>1. Plain("ecall_libc_functions")
  BY PlainScripts DEF Script
<1>2. Fits("ecall_libc_functions",
           Call("ecall_malloc_free", AnyValue, AnyValue))
  BY <1>1, Tables, CallAny DEF LibcLeaves, Leaf, Needy, Call
<1>3. Fits("ecall_libc_functions",
           Call("ecall_sgx_cpuid", Zeroes(4), AnyValue))
  BY <1>1, Tables, CallAny DEF LibcLeaves, Leaf, Needy, Zeroed, Call
<1>4. QED
  BY <1>2, <1>3 DEF AllFit, LibcCalls

\* The C++ library.
LEMMA LibcxxFits == AllFit("ecall_libcxx_functions", LibcxxCalls)
<1>1. Plain("ecall_libcxx_functions")
  BY PlainScripts DEF Script
<1>2. Fits("ecall_libcxx_functions",
           Call("ecall_exception", AnyValue, AnyValue))
  BY <1>1, Tables, CallAny DEF LibcxxLeaves, Leaf, Needy, Call
<1>3. Fits("ecall_libcxx_functions",
           Call("ecall_map", AnyValue, AnyValue))
  BY <1>1, Tables, CallAny DEF LibcxxLeaves, Leaf, Needy, Call
<1>4. QED
  BY <1>2, <1>3 DEF AllFit, LibcxxCalls

\* The public ECALL.
LEMMA PublicFits == AllFit("ecall_function_public", PublicCalls)
<1>1. Plain("ecall_function_public")
  BY PlainScripts DEF Script
<1>2. Fits("ecall_function_public",
           Call("ocall_function_allow", AnyValue, AnyValue))
  BY <1>1 DEF Fits, Call, Script, Plain, Allowed
<1>3. QED
  BY <1>2 DEF AllFit, PublicCalls

\* The OCALLs of the pointers.
LEMMA AttrFits == AllFit("ocall_pointer_attr", AttrCalls)
<1>1. Plain("ocall_pointer_attr")
  BY PlainScripts DEF Script
<1>2. Fits("ocall_pointer_attr",
           Call("ocall_pointer_user_check", 0, AnyValue))
  BY <1>1, Tables, CallAny DEF HostLeaves, Leaf, Call
<1>3. Fits("ocall_pointer_attr",
           Call("ocall_pointer_in", 0, 0))
  BY <1>1, Tables, CallIn DEF HostLeaves, Leaf
<1>4. Fits("ocall_pointer_attr",
           Call("ocall_pointer_out", 0, 1234))
  BY <1>1, Tables, CallOut DEF HostLeaves, Leaf, Zeroed
<1>5. Fits("ocall_pointer_attr",
           Call("ocall_pointer_in_out", 0, 1234))
  BY <1>1, Tables, CallInOut DEF HostLeaves, Leaf
<1>6. QED
  BY <1>2, <1>3, <1>4, <1>5 DEF AllFit, AttrCalls

\* The private ECALL, called directly, is refused, and runned stays as it was.
LEMMA FunctionFits == AllFit("edger8r_function_attributes", FunctionCalls)
<1>1. Plain("edger8r_function_attributes")
  BY PlainScripts DEF Script
<1>2. Fits("edger8r_function_attributes",
           Call("ecall_function_public", AnyValue, AnyValue))
  BY <1>1 DEF Fits, Call, Script, Plain, Allowed
<1>3. Fits("edger8r_function_attributes",
           [Call("ecall_function_private", 0, 0)
              EXCEPT !.status = "ECALL_NOT_ALLOWED"])
  BY <1>1, Sides DEF Fits, Call, Plain, Allowed
<1>4. QED
  BY <1>2, <1>3 DEF AllFit, FunctionCalls

\* Through the gate it runs, and sets runned.
LEMMA AllowFits == AllFit("ocall_function_allow", AllowCalls)
<1>1. Allowed("ocall_function_allow", "ecall_function_private")
  BY DEF Allowed, OCalls
<1>2. Agrees(Call("ecall_function_private", 0, 1))
  BY Tables DEF Agrees, Found, FunctionLeaves, Leaf, Call, Outcome, CopiedOut
<1>3. Fits("ocall_function_allow", Call("ecall_function_private", 0, 1))
  BY <1>1, <1>2, Tables DEF Fits, Found, FunctionLeaves, Call
<1>4. QED
  BY <1>3 DEF AllFit, AllowCalls

\* main asserts nothing of the four operations.
LEMMA MainFits == AllFit("main", MainCalls)
<1>1. Plain("main")
  BY PlainScripts DEF Script
<1>2. \A fn \in DOMAIN Arithmetic : Fits("main", Operation(fn))
  <2> SUFFICES ASSUME NEW fn \in DOMAIN Arithmetic
               PROVE  Fits("main", Operation(fn))
    OBVIOUS
  <2>1. Arithmetic[fn].pre = AnyValue
    BY DEF Arithmetic, Leaf
  <2>2. fn \notin {"main", "ecall_function_private"}
    BY DEF Arithmetic
  <2>3. QED
    BY <1>1, <2>1, <2>2, Tables, CallAny DEF Operation
<1>3. {"add", "subtract", "multiply", "divide"} \subseteq DOMAIN Arithmetic
  BY DEF Arithmetic
<1>4. QED
  BY <1>2, <1>3 DEF AllFit, MainCalls

\* Every statement of every script fits what it calls.
LEMMA ScriptsFit == \A fn \in DOMAIN Script : AllFit(fn, Script[fn])
BY ArrayFits, PointerFits, TypeFits, FunctionFits, AllowFits, LibcFits,
   LibcxxFits, MainFits, PublicFits, AttrFits DEF Script
-----------------------------------------------------------------------------
(* The steps. *)

\* A step that returns, or looks at an outcome, opens no gate.
LEMMA ReturnKeepsGate ==
  ASSUME GateInv, NEW m \in 0 .. Len(stack), SameCalls(stack, stack', m),
         phase' = "running" => m > 0 /\ phase = "running",
         todo' \subseteq todo
  PROVE  GateInv'
<1>1. Len(stack') = m
  BY DEF SameCalls
<1>2. SameCalls(stack, stack, Len(stack))
  BY DEF GateInv, StackInv
<1>3. \A k \in 1 .. m : stack'[k].fn = stack[k].fn
  BY DEF SameCalls
<1>4. SameCalls(stack', stack', m)
  BY DEF SameCalls
<1>5. m \in Nat /\ Len(stack) \in Nat
  BY <1>2 DEF SameCalls
<1>6. StackInv'
  BY <1>1, <1>3, <1>4, <1>5 DEF GateInv, StackInv
<1>7. CallerInv'
  BY <1>1, <1>3, <1>5 DEF GateInv, CallerInv
<1>8. QED
  BY <1>6, <1>7 DEF GateInv

\* A call keeps the gate if it goes through it in the right order.
LEMMA CallKeepsGate ==
  ASSUME GateInv, phase = "running",
         NEW n \in Nat, n = Len(stack),
         SameCalls(stack', stack', n + 1),
         \A k \in 1 .. n : stack'[k].fn = stack[k].fn,
         NEW fn, stack'[n + 1].fn = fn,
         fn = "ecall_function_private" => Top.fn = "ocall_function_allow",
         fn = "ocall_function_allow" => Top.fn = "ecall_function_public",
         todo' \subseteq todo
  PROVE  GateInv'
<1>1. n > 0 /\ Top.fn = stack[n].fn /\ stack[1].fn = "main"
  BY DEF GateInv, StackInv, Top
<1>2. Len(stack') = n + 1
  BY DEF SameCalls
<1>3. StackInv'
  BY <1>1, <1>2 DEF StackInv
<1>4. \A k \in 1 .. n + 1 :
        /\ stack'[k].fn = "ecall_function_private" =>
             k > 1 /\ stack'[k - 1].fn = "ocall_function_allow"
        /\ stack'[k].fn = "ocall_function_allow" =>
             k > 1 /\ stack'[k - 1].fn = "ecall_function_public"
  <2> SUFFICES ASSUME NEW k \in 1 .. n + 1
               PROVE  /\ stack'[k].fn = "ecall_function_private" =>
                           /\ k > 1
                           /\ stack'[k - 1].fn = "ocall_function_allow"
                      /\ stack'[k].fn = "ocall_function_allow" =>
                           /\ k > 1
                           /\ stack'[k - 1].fn = "ecall_function_public"
    OBVIOUS
  <2>1. CASE k = n + 1
    BY <1>1, <2>1
  <2>2. CASE k \in 1 .. n
    BY <1>1, <2>2 DEF GateInv, CallerInv
  <2>3. QED
    BY <2>1, <2>2
<1>5. CallerInv'
  BY <1>2, <1>4 DEF CallerInv
<1>6. QED
  BY <1>3, <1>5 DEF GateInv

\* What each action has to show of the stack it leaves.
LEMMA Bottom ==
  ASSUME GateInv, phase = "running"
  PROVE  /\ Len(stack) \in Nat /\ Len(stack) > 0
         /\ SameCalls(stack, stack, Len(stack))
         /\ IsFrame(Top) /\ Top = stack[Len(stack)]
         /\ stack[1].fn = "main"
BY DEF GateInv, StackInv, SameCalls, Top

\* A call that fails at once keeps the stack's functions.
LEMMA FailedSame ==
  ASSUME GateInv, phase = "running", NEW status, Failed(status)
  PROVE  SameCalls(stack, stack', Len(stack))
<1> DEFINE f == [Top EXCEPT !.var = SetVar, !.status = status]
<1>1. IsFrame(f) /\ f.fn = Top.fn
  BY Bottom DEF IsFrame
<1>2. stack' = [stack EXCEPT ![Len(stack)] = f]
  BY DEF Failed, Top
<1>3. Len(stack) \in 1 .. Len(stack)
  BY Bottom
<1> HIDE DEF f
<1>4. QED
  BY <1>1, <1>2, <1>3, Bottom, Replaced

\* A return takes the newest frame off, and the caller learns the outcome.
LEMMA PoppedSame ==
  ASSUME GateInv, phase = "running", Top.fn # "main", NEW v, NEW status
  PROVE  /\ Len(stack) - 1 \in 1 .. Len(stack)
         /\ SameCalls(stack, Popped(v, status), Len(stack) - 1)
<1>1. PICK n \in Nat : n = Len(stack) - 1
  BY Bottom
<1>2. n > 0
  BY <1>1, Bottom
<1> DEFINE s == SubSeq(stack, 1, n)
           f == [s[n] EXCEPT !.var = v, !.status = status]
<1>3. SameCalls(stack, s, n)
  BY <1>1, <1>2, Bottom, Shortened
<1>4. IsFrame(s[n]) /\ s[n].fn = stack[n].fn
  BY <1>2, <1>3 DEF SameCalls
<1>5. IsFrame(f) /\ f.fn = stack[n].fn
  BY <1>4 DEF IsFrame
<1>6. Popped(v, status) = [s EXCEPT ![n] = f]
  BY <1>1 DEF Popped
<1> HIDE DEF s, f
<1>7. SameCalls(stack, [s EXCEPT ![n] = f], n)
  BY <1>2, <1>3, <1>5, Replaced
<1>8. QED
  BY <1>1, <1>2, <1>6, <1>7, Bottom

\* The test that passes moves the caller's frame to its next call.
LEMMA CheckSame ==
  ASSUME GateInv, Check PROVE SameCalls(stack, stack', Len(stack))
<1>1. phase = "running"
  BY DEF Check, AtCheck, Running
<1> DEFINE f == [Top EXCEPT !.status = "none", !.pc = Top.pc + 1]
<1>2. Top.pc + 1 \in Nat \ {0}
  BY <1>1, Bottom DEF IsFrame
<1>3. IsFrame(f) /\ f.fn = Top.fn
  BY <1>1, <1>2, Bottom DEF IsFrame
<1>4. stack' = [stack EXCEPT ![Len(stack)] = f]
  BY <1>1, Bottom DEF Check, Top, IsFrame
<1>5. Len(stack) \in 1 .. Len(stack)
  BY <1>1, Bottom
<1> HIDE DEF f
<1>6. QED
  BY <1>1, <1>3, <1>4, <1>5, Bottom, Replaced

\* A new frame.
LEMMA FrameOf ==
  ASSUME NEW fn, NEW arg
  PROVE  IsFrame(Frame(fn, arg)) /\ Frame(fn, arg).fn = fn
BY DEF IsFrame, Frame

\* A call into either side.
LEMMA MakeCallGate == ASSUME GateInv, MakeCall PROVE GateInv'
<1>1. /\ phase = "running" /\ Top.fn \in DOMAIN Script
      /\ ~(Top.pc > Len(Script[Top.fn]))
      /\ Statement = Script[Top.fn][Top.pc]
      /\ Statement.fn \in ECalls => Allowed(Top.fn, Statement.fn)
  BY DEF MakeCall, AtCall, Running, Scripted, Done, Statement
<1> DEFINE f == [Top EXCEPT !.var = SetVar]
           t == [stack EXCEPT ![Len(stack)] = f]
           g == Frame(Statement.fn, Argument(Statement.fn, SetVar))
<1>2. IsFrame(f) /\ f.fn = Top.fn
  BY <1>1, Bottom DEF IsFrame
<1>3. Len(stack) \in 1 .. Len(stack)
  BY <1>1, Bottom
<1>4. stack' = Longer(t, g) /\ UNCHANGED <<phase, todo>>
  BY DEF MakeCall, Top, Longer
<1>5. IsFrame(g) /\ g.fn = Statement.fn
  BY FrameOf
<1> HIDE DEF f, g
<1>6. SameCalls(stack, t, Len(stack))
  BY <1>1, <1>2, <1>3, Bottom, Replaced
<1> HIDE DEF t
<1>7. PICK n \in Nat : n = Len(stack)
  BY <1>1, Bottom
<1>8. SameCalls(stack, t, n)
  BY <1>6, <1>7
<1>9. /\ SameCalls(stack', stack', n + 1)
      /\ \A k \in 1 .. n : stack'[k].fn = stack[k].fn
      /\ stack'[n + 1] = g
  BY <1>4, <1>5, <1>8, Pushed
<1>10. ASSUME Statement.fn = "ecall_function_private"
       PROVE  Top.fn = "ocall_function_allow"
  BY <1>1, <1>10, Sides DEF Allowed
<1>11. ASSUME Statement.fn = "ocall_function_allow"
       PROVE  Top.fn = "ecall_function_public"
  <2>1. Top.pc \in Nat \ {0}
    BY <1>1, Bottom DEF IsFrame
  <2>2. QED
    BY <1>1, <1>11, <2>1, AllowCaller
<1>12. stack'[n + 1].fn = Statement.fn
  BY <1>5, <1>9
<1>13. todo' \subseteq todo
  BY <1>4
<1>14. QED
  BY <1>1, <1>7, <1>9, <1>10, <1>11, <1>12, <1>13, CallKeepsGate

\* main calls a demonstration: none of them is behind the gate.
LEMMA CallDemoGate ==
  ASSUME GateInv, NEW demo \in todo, CallDemo(demo) PROVE GateInv'
<1>1. phase = "running" /\ todo' \subseteq todo /\ demo \in Demos
  BY DEF CallDemo, GateInv
<1> DEFINE g == Frame(demo, AnyValue)
<1>2. stack' = Longer(stack, g)
  BY DEF CallDemo, Longer
<1>3. IsFrame(g) /\ g.fn = demo
  BY FrameOf
<1> HIDE DEF g
<1>4. PICK n \in Nat : n = Len(stack)
  BY <1>1, Bottom
<1>5. SameCalls(stack, stack, n)
  BY <1>1, <1>4, Bottom
<1>6. /\ SameCalls(stack', stack', n + 1)
      /\ \A k \in 1 .. n : stack'[k].fn = stack[k].fn
      /\ stack'[n + 1] = g
  BY <1>2, <1>3, <1>5, Pushed
<1>7. demo # "ecall_function_private" /\ demo # "ocall_function_allow"
  BY <1>1 DEF Demos
<1>8. stack'[n + 1].fn = demo
  BY <1>3, <1>6
<1>9. QED
  BY <1>1, <1>4, <1>6, <1>7, <1>8, CallKeepsGate

\* Nothing pops main's own frame.
LEMMA PopGate ==
  ASSUME GateInv, phase = "running", Top.fn # "main", NEW v, NEW status,
         stack' = Popped(v, status), UNCHANGED <<phase, todo>>
  PROVE  GateInv'
<1>1. PICK m : m = Len(stack) - 1
  OBVIOUS
<1>2. m \in 1 .. Len(stack) /\ SameCalls(stack, stack', m)
  BY <1>1, PoppedSame
<1>3. m \in 0 .. Len(stack) /\ m > 0
  BY <1>2, Bottom
<1>4. QED
  BY <1>2, <1>3, ReturnKeepsGate

\* A step that keeps the functions on the stack.
LEMMA SameGate ==
  ASSUME GateInv, SameCalls(stack, stack', Len(stack)),
         phase' = "running" => phase = "running", todo' = todo
  PROVE  GateInv'
<1>1. Len(stack) \in Nat
  BY DEF GateInv, StackInv, SameCalls
<1>2. Len(stack) \in 0 .. Len(stack)
  BY <1>1
<1>3. phase = "running" => Len(stack) > 0
  BY DEF GateInv, StackInv
<1>4. QED
  BY <1>2, <1>3, ReturnKeepsGate

\* A step that makes no call and returns from none.
LEMMA UntouchedGate ==
  ASSUME GateInv, stack' = stack, phase' = "running" => phase = "running",
         todo' = todo
  PROVE  GateInv'
BY SameGate DEF GateInv, StackInv

\* Whatever the program does next, or happens to the enclave, the gate holds.
LEMMA GateStep == GateInv /\ [BNext]_bvars => GateInv'
<1> SUFFICES ASSUME GateInv, [BNext]_bvars PROVE GateInv'
  OBVIOUS
<1>1. CASE initialize_enclave
  <2>1. CASE stack' = <<Frame("main", AnyValue)>>
    <3> DEFINE g == Frame("main", AnyValue)
    <3>1. IsFrame(g) /\ g.fn = "main"
      BY FrameOf
    <3> HIDE DEF g
    <3>2. stack' = <<g>>
      BY <2>1 DEF g
    <3>3. Len(stack') = 1 /\ stack'[1] = g
      BY <3>2
    <3>4. SameCalls(stack', stack', 1)
      BY <3>1, <3>2, <3>3 DEF SameCalls
    <3>5. StackInv'
      BY <3>1, <3>3, <3>4 DEF StackInv
    <3>6. CallerInv'
      BY <3>1, <3>3 DEF CallerInv
    <3>7. QED
      BY <1>1, <3>5, <3>6 DEF GateInv, initialize_enclave
  <2>2. CASE phase' = "prompt" /\ stack' = stack
    BY <1>1, <2>2, UntouchedGate DEF initialize_enclave
  <2>3. QED
    BY <1>1, <2>1, <2>2 DEF initialize_enclave
<1>2. CASE \E demo \in todo : CallDemo(demo)
  BY <1>2, CallDemoGate
<1>3. CASE MakeCall
  BY <1>3, MakeCallGate
<1>4. CASE CallRefused
  <2>1. PICK status : Failed(status)
    BY <1>4 DEF CallRefused
  <2>2. phase = "running" /\ phase' = phase /\ todo' = todo
    BY <1>4 DEF CallRefused, AtCall, Running
  <2>3. QED
    BY <2>1, <2>2, FailedSame, SameGate
<1>5. CASE BridgeFails
  <2>1. Failed("OUT_OF_MEMORY")
    BY <1>5 DEF BridgeFails
  <2>2. phase = "running" /\ phase' = phase /\ todo' = todo
    BY <1>5 DEF BridgeFails, AtCall, Running
  <2>3. QED
    BY <2>1, <2>2, FailedSame, SameGate
<1>6. CASE RunLeaf
  <2>1. PICK v : stack' = Popped(v, "SUCCESS")
    BY <1>6 DEF RunLeaf
  <2>2. phase = "running" /\ UNCHANGED <<phase, todo>>
    BY <1>6 DEF RunLeaf, Running
  <2>3. Top.fn # "main"
    BY <1>6, Sides DEF RunLeaf, Scripted
  <2>4. QED
    BY <2>1, <2>2, <2>3, PopGate
<1>7. CASE LeafAborts
  <2>1. /\ phase = "running" /\ stack' = stack /\ todo' = todo
    BY <1>7 DEF LeafAborts, Running
  <2>2. QED
    BY <2>1, UntouchedGate
<1>8. CASE ReturnScript
  <2>1. PICK status : stack' = Popped(CallerVar, status)
    BY <1>8 DEF ReturnScript
  <2>2. /\ phase = "running" /\ Top.fn # "main"
        /\ UNCHANGED <<phase, todo>>
    BY <1>8 DEF ReturnScript, Running
  <2>3. QED
    BY <2>1, <2>2, PopGate
<1>9. CASE LostReturn
  <2>1. /\ phase = "running" /\ Top.fn # "main"
        /\ stack' = Popped(CallerVar, Gone) /\ UNCHANGED <<phase, todo>>
    BY <1>9, Sides DEF LostReturn
  <2>2. QED
    BY <2>1, PopGate
<1>10. CASE Check
  <2>1. phase' = phase /\ todo' = todo
    BY <1>10 DEF Check
  <2>2. SameCalls(stack, stack', Len(stack))
    BY <1>10, CheckSame
  <2>3. QED
    BY <2>1, <2>2, SameGate
<1>11. CASE CheckAborts
  <2>1. phase = "running" /\ stack' = stack /\ todo' = todo
    BY <1>11 DEF CheckAborts, AtCheck, Running
  <2>2. QED
    BY <2>1, UntouchedGate
<1>12. CASE DestroyEnclave
  BY <1>12, UntouchedGate DEF DestroyEnclave
<1>13. CASE GetChar
  BY <1>13, UntouchedGate DEF GetChar
<1>14. CASE PowerTransition
  BY <1>14, UntouchedGate DEF PowerTransition
<1>15. CASE UNCHANGED bvars
  BY <1>15, UntouchedGate DEF bvars
<1>16. QED
  BY <1>1, <1>2, <1>3, <1>4, <1>5, <1>6, <1>7, <1>8, <1>9, <1>10, <1>11,
     <1>12, <1>13, <1>14, <1>15 DEF BNext, HostThread, Finished

\* At the start nothing is called.
LEMMA GateStart == BInit => GateInv
<1> SUFFICES ASSUME BInit PROVE GateInv
  OBVIOUS
<1>1. stack = <<>> /\ Len(stack) = 0
  BY DEF BInit
<1>2. SameCalls(stack, stack, 0)
  BY <1>1 DEF SameCalls
<1>3. QED
  BY <1>1, <1>2 DEF BInit, GateInv, StackInv, CallerInv

\* The private ECALL runs only inside the OCALL that allows it, and that only
\* inside the public ECALL, at any depth of nested calls and whatever fails.
THEOREM GateHolds == BSpec => []PrivateGate
<1>1. BInit => GateInv
  BY GateStart
<1>2. GateInv => PrivateGate
  <2> SUFFICES ASSUME GateInv, NEW k \in DOMAIN stack,
                      stack[k].fn = "ecall_function_private"
               PROVE  /\ k > 2
                      /\ stack[k - 1].fn = "ocall_function_allow"
                      /\ stack[k - 2].fn = "ecall_function_public"
    BY DEF PrivateGate
  <2>1. k \in 1 .. Len(stack) /\ Len(stack) \in Nat
    BY DEF GateInv, StackInv, SameCalls
  <2>2. k > 1 /\ stack[k - 1].fn = "ocall_function_allow"
    BY <2>1 DEF GateInv, CallerInv
  <2>3. PICK j \in 1 .. Len(stack) : j = k - 1
    BY <2>1, <2>2
  <2>4. stack[j].fn = "ocall_function_allow"
    BY <2>2, <2>3
  <2>5. j > 1 /\ stack[j - 1].fn = "ecall_function_public"
    BY <2>4 DEF GateInv, CallerInv
  <2>6. QED
    BY <2>1, <2>2, <2>3, <2>5
<1>3. QED
  BY <1>1, <1>2, GateStep, PTL DEF BSpec
-----------------------------------------------------------------------------
(* The assertions. *)

\* The statement a frame's script is at.
Now(f) == Script[f.fn][f.pc]
AtStatement(f) == f.fn \in DOMAIN Script /\ f.pc \in 1 .. Len(Script[f.fn])

\* The frame f waits for g: a demonstration that main called, or what its
\* statement calls, with the variable as the statement sets it.
Waits(f, g) ==
  /\ AtStatement(f) /\ f.status = "none" /\ g.fn # "main"
  /\ \/ f.fn = "main" /\ f.pc = 1 /\ g.fn \in Demos
     \/ /\ g.fn = Now(f).fn
        /\ Now(f).set \in {AnyValue, f.var}
        /\ g.arg = Argument(g.fn, f.var)
        /\ g.fn \in ECalls => Allowed(f.fn, g.fn)

\* Each frame but the newest waits for the next.
WaitInv == \A k \in 1 .. Len(stack) - 1 : Waits(stack[k], stack[k + 1])

\* The test of f's statement passes.
Passes(f) ==
  /\ Now(f).status \in {AnyValue, f.status}
  /\ Now(f).want \in {AnyValue, f.var}

\* As long as nothing failed from outside, the newest call's outcome is what
\* its caller tests for.
TestInv ==
  ~fault =>
    /\ phase # "aborted" /\ enclave # "crashed"
    /\ phase = "running" => /\ enclave = "alive"
                            /\ Top.status # "none" => Passes(Top)

AssertInv == GateInv /\ WaitInv /\ TestInv

\* The first j frames of t are those of s.
SameBelow(s, t, j) == \A k \in 1 .. j : t[k] = s[k]

\* A step that only returns, or rewrites the newest frame's own state.
LEMMA ReturnKeepsWait ==
  ASSUME GateInv, WaitInv, NEW m \in Nat, m <= Len(stack), Len(stack') = m,
         SameBelow(stack, stack', m - 1),
         m > 0 => /\ stack'[m].fn = stack[m].fn
                  /\ stack'[m].arg = stack[m].arg
  PROVE  WaitInv'
<1>1. PICK n \in Nat : n = Len(stack)
  BY DEF GateInv, StackInv, SameCalls
<1> SUFFICES ASSUME NEW k \in 1 .. m - 1
             PROVE  Waits(stack'[k], stack'[k + 1])
  BY DEF WaitInv
<1>2. Waits(stack[k], stack[k + 1])
  BY <1>1 DEF WaitInv
<1>3. stack'[k] = stack[k]
  BY DEF SameBelow
<1>4. stack'[k + 1].fn = stack[k + 1].fn /\ stack'[k + 1].arg = stack[k + 1].arg
  <2>1. CASE k + 1 = m
    BY <2>1
  <2>2. CASE k + 1 \in 1 .. m - 1
    BY <2>2 DEF SameBelow
  <2>3. QED
    BY <2>1, <2>2
<1>5. QED
  BY <1>2, <1>3, <1>4 DEF Waits

\* A step that calls.
LEMMA CallKeepsWait ==
  ASSUME GateInv, WaitInv, NEW n \in Nat \ {0}, n = Len(stack),
         Len(stack') = n + 1, SameBelow(stack, stack', n - 1),
         stack'[n].fn = stack[n].fn, stack'[n].arg = stack[n].arg,
         Waits(stack'[n], stack'[n + 1])
  PROVE  WaitInv'
<1>0. Len(stack') - 1 = n
  OBVIOUS
<1> SUFFICES ASSUME NEW k \in 1 .. n
             PROVE  Waits(stack'[k], stack'[k + 1])
  BY <1>0 DEF WaitInv
<1>1. CASE k = n
  BY <1>1
<1>2. CASE k \in 1 .. n - 1
  <2>1. Waits(stack[k], stack[k + 1])
    BY <1>2 DEF WaitInv
  <2>2. stack'[k] = stack[k]
    BY <1>2 DEF SameBelow
  <2>3. stack'[k + 1].fn = stack[k + 1].fn /\ stack'[k + 1].arg = stack[k + 1].arg
    <3>1. CASE k + 1 = n
      BY <3>1
    <3>2. CASE k + 1 \in 1 .. n - 1
      BY <3>2 DEF SameBelow
    <3>3. QED
      BY <1>2, <3>1, <3>2
  <2>4. QED
    BY <2>1, <2>2, <2>3 DEF Waits
<1>3. QED
  BY <1>1, <1>2

\* What a call that fails at once leaves of the stack.
LEMMA FailedStack ==
  ASSUME GateInv, phase = "running", NEW status, Failed(status),
         NEW n \in Nat, n = Len(stack)
  PROVE  /\ n > 0 /\ Len(stack') = n /\ SameBelow(stack, stack', n - 1)
         /\ stack'[n].fn = Top.fn /\ stack'[n].pc = Top.pc
         /\ stack'[n].arg = Top.arg
         /\ stack'[n].var = SetVar /\ stack'[n].status = status
<1> DEFINE f == [Top EXCEPT !.var = SetVar, !.status = status]
<1>1. /\ f.fn = Top.fn /\ f.pc = Top.pc /\ f.arg = Top.arg
      /\ f.var = SetVar /\ f.status = status
  BY Bottom DEF IsFrame
<1>2. stack' = [stack EXCEPT ![n] = f]
  BY DEF Failed, Top
<1> HIDE DEF f
<1>3. n > 0 /\ DOMAIN stack = 1 .. n /\ stack = [k \in 1 .. n |-> stack[k]]
  BY Bottom DEF SameCalls
<1>4. stack'[n] = f /\ SameBelow(stack, stack', n - 1)
  BY <1>2, <1>3 DEF SameBelow
<1>5. Len(stack') = n
  BY FailedSame DEF SameCalls
<1>6. QED
  BY <1>1, <1>3, <1>4, <1>5

\* What a return leaves of it.
LEMMA PoppedStack ==
  ASSUME GateInv, phase = "running", Top.fn # "main", NEW v, NEW status,
         stack' = Popped(v, status), NEW n \in Nat, n = Len(stack),
         NEW m \in Nat, m = n - 1
  PROVE  /\ m > 0 /\ Len(stack') = m /\ SameBelow(stack, stack', m - 1)
         /\ stack'[m].fn = stack[m].fn /\ stack'[m].pc = stack[m].pc
         /\ stack'[m].arg = stack[m].arg
         /\ stack'[m].var = v /\ stack'[m].status = status
<1>1. m \in 1 .. n /\ SameCalls(stack, stack', m)
  BY PoppedSame
<1> DEFINE s == SubSeq(stack, 1, m)
           f == [s[m] EXCEPT !.var = v, !.status = status]
<1>2. SameCalls(stack, stack, n)
  BY Bottom
<1>3. PICK S : stack \in Seq(S)
  BY <1>2, StackSeq
<1>4. \A k \in 1 .. m : s[k] = stack[k]
  BY <1>1, <1>3
<1>5. SameCalls(stack, s, m)
  BY <1>1, <1>2, Shortened
<1>6. stack' = [s EXCEPT ![m] = f]
  BY DEF Popped
<1>7. s[m] = stack[m] /\ IsFrame(s[m])
  BY <1>1, <1>4, <1>5 DEF SameCalls
<1>8. /\ f.fn = stack[m].fn /\ f.pc = stack[m].pc /\ f.arg = stack[m].arg
      /\ f.var = v /\ f.status = status
  BY <1>7 DEF IsFrame
<1> HIDE DEF f
<1>9. DOMAIN s = 1 .. m
  BY <1>5 DEF SameCalls
<1> HIDE DEF s
<1>10. stack'[m] = f /\ SameBelow(stack, stack', m - 1)
  BY <1>1, <1>4, <1>6, <1>9 DEF SameBelow
<1>11. QED
  BY <1>1, <1>8, <1>10 DEF SameCalls

\* What a test that passes leaves of it.
LEMMA CheckStack ==
  ASSUME GateInv, Check, NEW n \in Nat, n = Len(stack)
  PROVE  /\ n > 0 /\ Len(stack') = n /\ SameBelow(stack, stack', n - 1)
         /\ stack'[n].fn = Top.fn /\ stack'[n].pc = Top.pc + 1
         /\ stack'[n].arg = Top.arg
         /\ stack'[n].var = Top.var /\ stack'[n].status = "none"
<1>1. phase = "running"
  BY DEF Check, AtCheck, Running
<1> DEFINE f == [Top EXCEPT !.status = "none", !.pc = Top.pc + 1]
<1>2. /\ f.fn = Top.fn /\ f.pc = Top.pc + 1 /\ f.arg = Top.arg
      /\ f.var = Top.var /\ f.status = "none"
  BY <1>1, Bottom DEF IsFrame
<1>3. stack' = [stack EXCEPT ![n] = f]
  BY <1>1, Bottom DEF Check, Top, IsFrame
<1> HIDE DEF f
<1>4. n > 0 /\ DOMAIN stack = 1 .. n
  BY <1>1, Bottom DEF SameCalls
<1>5. stack'[n] = f /\ SameBelow(stack, stack', n - 1)
  BY <1>3, <1>4 DEF SameBelow
<1>6. Len(stack') = n
  BY CheckSame DEF SameCalls
<1>7. QED
  BY <1>2, <1>4, <1>5, <1>6

\* What a call pushes on it.
LEMMA MakeCallStack ==
  ASSUME GateInv, MakeCall, NEW n \in Nat, n = Len(stack)
  PROVE  /\ n > 0 /\ Len(stack') = n + 1 /\ SameBelow(stack, stack', n - 1)
         /\ stack'[n].fn = Top.fn /\ stack'[n].pc = Top.pc
         /\ stack'[n].arg = Top.arg
         /\ stack'[n].var = SetVar /\ stack'[n].status = Top.status
         /\ stack'[n + 1] = Frame(Statement.fn, Argument(Statement.fn, SetVar))
<1>1. phase = "running"
  BY DEF MakeCall, AtCall, Running
<1> DEFINE f == [Top EXCEPT !.var = SetVar]
           t == [stack EXCEPT ![n] = f]
           g == Frame(Statement.fn, Argument(Statement.fn, SetVar))
<1>2. /\ f.fn = Top.fn /\ f.pc = Top.pc /\ f.arg = Top.arg
      /\ f.var = SetVar /\ f.status = Top.status /\ IsFrame(f)
  BY <1>1, Bottom DEF IsFrame
<1>3. stack' = Longer(t, g)
  BY DEF MakeCall, Top, Longer
<1>4. IsFrame(g)
  BY FrameOf
<1> HIDE DEF f, g
<1>5. /\ n > 0 /\ n \in 1 .. n /\ DOMAIN stack = 1 .. n
      /\ SameCalls(stack, stack, n) /\ Top = stack[n]
  BY <1>1, Bottom DEF SameCalls
<1>6. SameCalls(stack, t, n)
  BY <1>2, <1>5, Replaced
<1>7. t[n] = f /\ SameBelow(stack, t, n - 1)
  BY <1>5 DEF SameBelow
<1> HIDE DEF t
<1>8. SameCalls(stack', stack', n + 1) /\ stack'[n + 1] = g
  BY <1>3, <1>4, <1>6, Pushed
<1>9. PICK S : t \in Seq(S)
  BY <1>6, StackSeq
<1>10. \A k \in 1 .. n : stack'[k] = t[k]
  BY <1>3, <1>6, <1>9 DEF SameCalls, Longer
<1>11. stack'[n] = f /\ SameBelow(stack, stack', n - 1)
  BY <1>5, <1>7, <1>10 DEF SameBelow
<1>12. QED
  BY <1>2, <1>5, <1>8, <1>11 DEF SameCalls, g

\* The demonstrations are scripts.
LEMMA DemoScripts == Demos \subseteq DOMAIN Script
BY DEF Demos, Script

\* What a statement under way fits.
LEMMA NowFits ==
  ASSUME NEW f, AtStatement(f) PROVE Fits(f.fn, Now(f))
BY ScriptsFit DEF AtStatement, Now, AllFit

\* The frame below the newest waits for it.
LEMMA Caller ==
  ASSUME GateInv, WaitInv, phase = "running", Top.fn # "main",
         NEW n \in Nat, n = Len(stack)
  PROVE  n - 1 \in Nat \ {0} /\ Waits(stack[n - 1], Top)
<1>1. n > 0 /\ Top = stack[n] /\ stack[1].fn = "main"
  BY Bottom
<1>2. n > 1
  BY <1>1
<1>3. Waits(stack[n - 1], stack[n - 1 + 1])
  BY <1>2 DEF WaitInv
<1>4. QED
  BY <1>1, <1>2, <1>3

\* A leaf's caller agrees with it.
LEMMA LeafCaller ==
  ASSUME NEW f, NEW g, Waits(f, g), g.fn \notin DOMAIN Script
  PROVE  /\ g.fn = Now(f).fn /\ g.arg = Argument(g.fn, f.var)
         /\ Now(f).set \in {AnyValue, f.var}
         /\ Now(f).status \in {AnyValue, "SUCCESS"}
         /\ Agrees(Now(f))
<1>1. /\ g.fn = Now(f).fn /\ g.arg = Argument(g.fn, f.var)
      /\ Now(f).set \in {AnyValue, f.var}
      /\ g.fn \in ECalls => Allowed(f.fn, g.fn)
  BY DemoScripts DEF Waits
<1>2. Fits(f.fn, Now(f))
  BY NowFits DEF Waits
<1>3. QED
  BY <1>1, <1>2, Sides DEF Fits

\* The caller of a script asserts nothing of its outcome.
LEMMA ScriptCaller ==
  ASSUME NEW f, NEW g, Waits(f, g), g.fn \in DOMAIN Script, g.fn \notin Demos
  PROVE  Now(f).want = AnyValue /\ Now(f).status = "SUCCESS"
<1>1. g.fn = Now(f).fn
  BY DEF Waits
<1>2. Fits(f.fn, Now(f))
  BY NowFits DEF Waits
<1>3. "ecall_function_private" \notin DOMAIN Script
  BY DEF Script
<1>4. QED
  BY <1>1, <1>2, <1>3, NoScript DEF Fits

\* Where a call is made, the script is at a statement.
LEMMA AtTop ==
  ASSUME GateInv, phase = "running", Scripted, ~Done
  PROVE  AtStatement(Top) /\ Statement = Now(Top)
<1>1. Top.pc \in Nat \ {0}
  BY Bottom DEF IsFrame
<1>2. Len(Script[Top.fn]) \in Nat
  BY DEF Script, ArrayCalls, PointerCalls, TypeCalls, FunctionCalls,
         AllowCalls, LibcCalls, LibcxxCalls, MainCalls, PublicCalls, AttrCalls
<1>3. QED
  BY <1>1, <1>2 DEF AtStatement, Now, Scripted, Done, Statement

\* A call sets the variable its statement sets.
LEMMA MakeCallWaits ==
  ASSUME GateInv, WaitInv, MakeCall PROVE WaitInv'
<1>1. PICK n \in Nat : n = Len(stack)
  BY Bottom DEF MakeCall, AtCall, Running
<1>2. /\ n > 0 /\ Len(stack') = n + 1 /\ SameBelow(stack, stack', n - 1)
      /\ stack'[n].fn = Top.fn /\ stack'[n].pc = Top.pc
      /\ stack'[n].arg = Top.arg
      /\ stack'[n].var = SetVar /\ stack'[n].status = Top.status
      /\ stack'[n + 1] = Frame(Statement.fn, Argument(Statement.fn, SetVar))
  BY <1>1, MakeCallStack
<1>3. AtStatement(Top) /\ Statement = Now(Top) /\ Top.status = "none"
  BY AtTop DEF MakeCall, AtCall, Running
<1>4. AtStatement(stack'[n]) /\ Now(stack'[n]) = Statement
  BY <1>2, <1>3 DEF AtStatement, Now
<1>5. Statement.set \in {AnyValue, SetVar}
  BY DEF SetVar
<1>6. /\ stack'[n + 1].fn = Statement.fn
      /\ stack'[n + 1].arg = Argument(Statement.fn, SetVar)
  BY <1>2 DEF Frame
<1>7. Statement.fn # "main"
  BY <1>3, NowFits DEF Fits
<1>8. Statement.fn \in ECalls => Allowed(Top.fn, Statement.fn)
  BY DEF MakeCall
<1>9. Waits(stack'[n], stack'[n + 1])
  BY <1>2, <1>3, <1>4, <1>5, <1>6, <1>7, <1>8 DEF Waits
<1>10. stack'[n].fn = stack[n].fn /\ stack'[n].arg = stack[n].arg
  BY <1>1, <1>2 DEF Top
<1>11. QED
  BY <1>1, <1>2, <1>9, <1>10, CallKeepsWait

\* main waits for the demonstration it calls.
LEMMA CallDemoWaits ==
  ASSUME GateInv, WaitInv, NEW demo \in todo, CallDemo(demo) PROVE WaitInv'
<1>1. /\ phase = "running" /\ Len(stack) = 1 /\ Top.pc = 1
      /\ Top.status = "none" /\ demo \in Demos
  BY DEF CallDemo, GateInv
<1> DEFINE g == Frame(demo, AnyValue)
<1>2. stack' = Longer(stack, g)
  BY DEF CallDemo, Longer
<1>3. IsFrame(g) /\ g.fn = demo
  BY FrameOf
<1> HIDE DEF g
<1>4. Top = stack[1] /\ Top.fn = "main" /\ SameCalls(stack, stack, 1)
  BY <1>1, Bottom
<1>5. SameCalls(stack', stack', 1 + 1) /\ stack'[1 + 1] = g
  BY <1>2, <1>3, <1>4, Pushed
<1>6. PICK S : stack \in Seq(S)
  BY <1>4, StackSeq
<1>7. stack'[1] = stack[1]
  BY <1>1, <1>2, <1>6 DEF Longer
<1>8. "main" \in DOMAIN Script /\ 1 \in 1 .. Len(Script["main"])
  BY DEF Script, MainCalls
<1>9. "main" \notin Demos
  BY DEF Demos
<1>10. Waits(stack'[1], stack'[1 + 1])
  BY <1>1, <1>3, <1>4, <1>5, <1>7, <1>8, <1>9 DEF Waits, AtStatement
<1>11. Len(stack') = 1 + 1 /\ SameBelow(stack, stack', 1 - 1)
  BY <1>5 DEF SameCalls, SameBelow
<1>12. QED
  BY <1>1, <1>7, <1>10, <1>11, CallKeepsWait

\* A return keeps what the frames below wait for.
LEMMA PopWaits ==
  ASSUME GateInv, WaitInv, phase = "running", Top.fn # "main",
         NEW v, NEW status, stack' = Popped(v, status)
  PROVE  WaitInv'
<1>1. PICK n \in Nat : n = Len(stack)
  BY Bottom
<1>2. PICK m \in Nat : m = n - 1
  BY <1>1, Bottom
<1>3. /\ Len(stack') = m /\ SameBelow(stack, stack', m - 1)
      /\ stack'[m].fn = stack[m].fn /\ stack'[m].arg = stack[m].arg
  BY <1>1, <1>2, PoppedStack
<1>4. m <= Len(stack)
  BY <1>1, <1>2
<1>5. QED
  BY <1>3, <1>4, ReturnKeepsWait

\* So does a call that fails at once.
LEMMA FailedWaits ==
  ASSUME GateInv, WaitInv, phase = "running", NEW status, Failed(status)
  PROVE  WaitInv'
<1>1. PICK n \in Nat : n = Len(stack)
  BY Bottom
<1>2. /\ Len(stack') = n /\ SameBelow(stack, stack', n - 1)
      /\ stack'[n].fn = Top.fn /\ stack'[n].arg = Top.arg
  BY <1>1, FailedStack
<1>3. n <= Len(stack) /\ Top = stack[n]
  BY <1>1 DEF Top
<1>4. QED
  BY <1>2, <1>3, ReturnKeepsWait

\* And a test that passes.
LEMMA CheckWaits ==
  ASSUME GateInv, WaitInv, Check PROVE WaitInv'
<1>1. PICK n \in Nat : n = Len(stack)
  BY Bottom DEF Check, AtCheck, Running
<1>2. /\ Len(stack') = n /\ SameBelow(stack, stack', n - 1)
      /\ stack'[n].fn = Top.fn /\ stack'[n].arg = Top.arg
  BY <1>1, CheckStack
<1>3. n <= Len(stack) /\ Top = stack[n]
  BY <1>1 DEF Top
<1>4. QED
  BY <1>2, <1>3, ReturnKeepsWait

\* A step that leaves the stack.
LEMMA UntouchedWaits ==
  ASSUME WaitInv, stack' = stack PROVE WaitInv'
BY DEF WaitInv

\* What each frame waits for is kept by every step.
LEMMA WaitStep == GateInv /\ WaitInv /\ [BNext]_bvars => WaitInv'
<1> SUFFICES ASSUME GateInv, WaitInv, [BNext]_bvars PROVE WaitInv'
  OBVIOUS
<1>1. CASE initialize_enclave
  <2>1. CASE stack' = <<Frame("main", AnyValue)>>
    BY <2>1 DEF WaitInv
  <2>2. CASE stack' = stack
    BY <2>2, UntouchedWaits
  <2>3. QED
    BY <1>1, <2>1, <2>2 DEF initialize_enclave
<1>2. CASE \E demo \in todo : CallDemo(demo)
  BY <1>2, CallDemoWaits
<1>3. CASE MakeCall
  BY <1>3, MakeCallWaits
<1>4. CASE CallRefused
  <2>1. phase = "running" /\ \E status : Failed(status)
    BY <1>4 DEF CallRefused, AtCall, Running
  <2>2. QED
    BY <2>1, FailedWaits
<1>5. CASE BridgeFails
  BY <1>5, FailedWaits DEF BridgeFails, AtCall, Running
<1>6. CASE RunLeaf
  <2>1. phase = "running" /\ \E v : stack' = Popped(v, "SUCCESS")
    BY <1>6 DEF RunLeaf, Running
  <2>2. Top.fn # "main"
    BY <1>6, Sides DEF RunLeaf, Scripted
  <2>3. QED
    BY <2>1, <2>2, PopWaits
<1>7. CASE LeafAborts
  BY <1>7, UntouchedWaits DEF LeafAborts
<1>8. CASE ReturnScript
  BY <1>8, PopWaits DEF ReturnScript, Running
<1>9. CASE LostReturn
  BY <1>9, PopWaits, Sides DEF LostReturn
<1>10. CASE Check
  BY <1>10, CheckWaits
<1>11. CASE CheckAborts
  BY <1>11, UntouchedWaits DEF CheckAborts
<1>12. CASE DestroyEnclave
  BY <1>12, UntouchedWaits DEF DestroyEnclave
<1>13. CASE GetChar
  BY <1>13, UntouchedWaits DEF GetChar
<1>14. CASE PowerTransition
  BY <1>14, UntouchedWaits DEF PowerTransition
<1>15. CASE UNCHANGED bvars
  BY <1>15, UntouchedWaits DEF bvars
<1>16. QED
  BY <1>1, <1>2, <1>3, <1>4, <1>5, <1>6, <1>7, <1>8, <1>9, <1>10, <1>11,
     <1>12, <1>13, <1>14, <1>15 DEF BNext, HostThread, Finished

\* The newest frame after a step, its test passing if it is at one.
Settled(f) == f.status # "none" => Passes(f)

\* A call the enclave refuses is one its caller expects to be refused.
LEMMA RefusedExpected ==
  ASSUME GateInv, WaitInv, TestInv, CallRefused, ~fault
  PROVE  enclave = "alive" /\ Settled(stack'[Len(stack')])
<1>1. /\ phase = "running" /\ Scripted /\ ~Done
      /\ Statement.fn \in ECalls /\ enclave = "alive"
  BY DEF CallRefused, AtCall, Running, TestInv
<1>2. ~Allowed(Top.fn, Statement.fn) /\ Failed("ECALL_NOT_ALLOWED")
  BY <1>1 DEF CallRefused
<1>3. PICK n \in Nat : n = Len(stack)
  BY <1>1, Bottom
<1>4. /\ Len(stack') = n
      /\ stack'[n].fn = Top.fn /\ stack'[n].pc = Top.pc
      /\ stack'[n].var = SetVar /\ stack'[n].status = "ECALL_NOT_ALLOWED"
  BY <1>1, <1>2, <1>3, FailedStack
<1>5. Statement = Now(Top) /\ Fits(Top.fn, Statement)
  BY <1>1, AtTop, NowFits
<1>6. /\ Statement.status = "ECALL_NOT_ALLOWED"
      /\ Statement.want \in {AnyValue, Statement.set}
  BY <1>2, <1>5 DEF Fits
<1>7. Statement.want \in {AnyValue, SetVar}
  BY <1>6 DEF SetVar
<1>8. Now(stack'[n]) = Statement
  BY <1>4, <1>5 DEF Now
<1>9. QED
  BY <1>1, <1>4, <1>6, <1>7, <1>8 DEF Settled, Passes

\* What a leaf leaves is what its caller asserts.
LEMMA LeafAsserted ==
  ASSUME GateInv, WaitInv, RunLeaf
  PROVE  Settled(stack'[Len(stack')])
<1>1. phase = "running" /\ Top.fn \notin DOMAIN Script /\ Top.fn # "main"
  BY Sides DEF RunLeaf, Running, Scripted
<1>2. PICK n \in Nat : n = Len(stack)
  BY <1>1, Bottom
<1>3. PICK m \in Nat : m = n - 1 /\ Waits(stack[m], Top)
  BY <1>1, <1>2, Caller
<1> DEFINE v == Outcome(Leaves[Top.fn], Top.arg, CallerVar)
<1>4. stack' = Popped(v, "SUCCESS")
  BY DEF RunLeaf, Outcome
<1> HIDE DEF v
<1>5. /\ Len(stack') = m
      /\ stack'[m].fn = stack[m].fn /\ stack'[m].pc = stack[m].pc
      /\ stack'[m].var = v /\ stack'[m].status = "SUCCESS"
  BY <1>1, <1>2, <1>3, <1>4, PoppedStack
<1>6. CallerVar = stack[m].var
  BY <1>2, <1>3 DEF CallerVar
<1> DEFINE c == Now(stack[m])
<1>7. /\ Top.fn = c.fn /\ Top.arg = Argument(Top.fn, stack[m].var)
      /\ c.set \in {AnyValue, stack[m].var}
      /\ c.status \in {AnyValue, "SUCCESS"} /\ Agrees(c)
  BY <1>1, <1>3, LeafCaller
<1>8. Now(stack'[m]) = c
  BY <1>5 DEF Now
<1> HIDE DEF c
<1>9. c.want \in {AnyValue, v}
  BY <1>6, <1>7 DEF Agrees, v
<1>10. QED
  BY <1>5, <1>7, <1>8, <1>9 DEF Settled, Passes

\* Nothing is asserted of what a script leaves.
LEMMA ScriptAsserted ==
  ASSUME GateInv, WaitInv, ReturnScript
  PROVE  Settled(stack'[Len(stack')])
<1>1. phase = "running" /\ Top.fn \in DOMAIN Script /\ Top.fn # "main"
  BY DEF ReturnScript, Running, Done, Scripted
<1>2. PICK n \in Nat : n = Len(stack)
  BY <1>1, Bottom
<1>3. PICK m \in Nat : m = n - 1 /\ Waits(stack[m], Top)
  BY <1>1, <1>2, Caller
<1> DEFINE status == IF Top.fn \in Demos THEN "none" ELSE "SUCCESS"
<1>4. stack' = Popped(CallerVar, status)
  BY DEF ReturnScript
<1> HIDE DEF status
<1>5. /\ Len(stack') = m
      /\ stack'[m].fn = stack[m].fn /\ stack'[m].pc = stack[m].pc
      /\ stack'[m].status = status
  BY <1>1, <1>2, <1>3, <1>4, PoppedStack
<1>6. CASE Top.fn \in Demos
  BY <1>5, <1>6 DEF Settled, status
<1>7. CASE Top.fn \notin Demos
  <2>1. Now(stack[m]).want = AnyValue /\ Now(stack[m]).status = "SUCCESS"
    BY <1>1, <1>3, <1>7, ScriptCaller
  <2>2. Now(stack'[m]) = Now(stack[m])
    BY <1>5 DEF Now
  <2>3. status = "SUCCESS"
    BY <1>7 DEF status
  <2>4. QED
    BY <1>5, <2>1, <2>2, <2>3 DEF Settled, Passes
<1>8. QED
  BY <1>6, <1>7

\* A leaf finds in its argument what it asserts.
LEMMA LeafHolds ==
  ASSUME GateInv, WaitInv, Running, ~Scripted
  PROVE  Leaves[Top.fn].pre \in {AnyValue, Top.arg}
<1>1. phase = "running" /\ Top.fn \notin DOMAIN Script /\ Top.fn # "main"
  BY Sides DEF Running, Scripted
<1>2. PICK n \in Nat : n = Len(stack)
  BY <1>1, Bottom
<1>3. PICK m \in Nat : m = n - 1 /\ Waits(stack[m], Top)
  BY <1>1, <1>2, Caller
<1>4. /\ Top.fn = Now(stack[m]).fn
      /\ Top.arg = Argument(Top.fn, stack[m].var)
      /\ Now(stack[m]).set \in {AnyValue, stack[m].var}
      /\ Agrees(Now(stack[m]))
  BY <1>1, <1>3, LeafCaller
<1>5. QED
  BY <1>4 DEF Agrees

\* A step that keeps the process and the enclave, and settles the newest frame.
LEMMA SettledTests ==
  ASSUME TestInv, UNCHANGED <<phase, enclave, fault>>,
         phase = "running" /\ ~fault => Settled(stack'[Len(stack')])
  PROVE  TestInv'
BY DEF TestInv, Settled, Passes, Now, Top

\* The newest frame is at no test after a call.
LEMMA CallsTests ==
  ASSUME GateInv, TestInv,
         MakeCall \/ \E demo \in todo : CallDemo(demo)
  PROVE  TestInv'
<1>1. CASE MakeCall
  <2>1. PICK n \in Nat : n = Len(stack)
    BY <1>1, Bottom DEF MakeCall, AtCall, Running
  <2>2. /\ Len(stack') = n + 1
        /\ stack'[n + 1] = Frame(Statement.fn, Argument(Statement.fn, SetVar))
    BY <1>1, <2>1, MakeCallStack
  <2>3. stack'[Len(stack')].status = "none"
    BY <2>2 DEF Frame
  <2>4. UNCHANGED <<phase, enclave, fault>>
    BY <1>1 DEF MakeCall
  <2>5. QED
    BY <2>3, <2>4, SettledTests DEF Settled
<1>2. ASSUME NEW demo \in todo, CallDemo(demo) PROVE TestInv'
  <2> DEFINE g == Frame(demo, AnyValue)
  <2>1. stack' = Longer(stack, g) /\ UNCHANGED <<phase, enclave, fault>>
    BY <1>2 DEF CallDemo, Longer
  <2>2. IsFrame(g) /\ g.status = "none"
    BY FrameOf DEF Frame
  <2> HIDE DEF g
  <2>3. phase = "running" /\ Len(stack) = 1
    BY <1>2 DEF CallDemo
  <2>4. SameCalls(stack, stack, 1)
    BY <2>3, Bottom
  <2>5. SameCalls(stack', stack', 1 + 1) /\ stack'[1 + 1] = g
    BY <2>1, <2>2, <2>4, Pushed
  <2>6. stack'[Len(stack')].status = "none"
    BY <2>2, <2>5 DEF SameCalls
  <2>7. QED
    BY <2>1, <2>6, SettledTests DEF Settled
<1>3. QED
  BY <1>1, <1>2

\* Whatever the program does, the tests ahead of it will pass.
LEMMA TestStep == AssertInv /\ [BNext]_bvars => TestInv'
<1> SUFFICES ASSUME GateInv, WaitInv, TestInv, [BNext]_bvars PROVE TestInv'
  BY DEF AssertInv
<1>1. CASE initialize_enclave
  <2>1. CASE phase' = "running"
    <3>1. /\ enclave' = "alive" /\ stack' = <<Frame("main", AnyValue)>>
      BY <1>1, <2>1 DEF initialize_enclave
    <3>2. Top'.status = "none"
      BY <3>1 DEF Top, Frame
    <3>3. QED
      BY <2>1, <3>1, <3>2 DEF TestInv
  <2>2. CASE phase' = "prompt" /\ enclave' = enclave /\ fault' = fault
    BY <2>2 DEF TestInv
  <2>3. QED
    BY <1>1, <2>1, <2>2 DEF initialize_enclave
<1>2. CASE \E demo \in todo : CallDemo(demo)
  BY <1>2, CallsTests
<1>3. CASE MakeCall
  BY <1>3, CallsTests
<1>4. CASE CallRefused
  BY <1>4, RefusedExpected, SettledTests DEF CallRefused
<1>5. CASE BridgeFails
  BY <1>5 DEF BridgeFails, TestInv
<1>6. CASE RunLeaf
  BY <1>6, LeafAsserted, SettledTests DEF RunLeaf
<1>7. CASE LeafAborts
  BY <1>7, LeafHolds DEF LeafAborts, TestInv
<1>8. CASE ReturnScript
  BY <1>8, ScriptAsserted, SettledTests DEF ReturnScript
<1>9. CASE LostReturn
  BY <1>9 DEF LostReturn, TestInv
<1>10. CASE Check
  <2>1. PICK n \in Nat : n = Len(stack)
    BY <1>10, Bottom DEF Check, AtCheck, Running
  <2>2. stack'[Len(stack')].status = "none"
    BY <1>10, <2>1, CheckStack
  <2>3. UNCHANGED <<phase, enclave, fault>>
    BY <1>10 DEF Check
  <2>4. QED
    BY <2>2, <2>3, SettledTests DEF Settled
<1>11. CASE CheckAborts
  <2>1. /\ phase = "running" /\ Scripted /\ ~Done /\ Top.status # "none"
        /\ ~Passed /\ fault' = fault
    BY <1>11 DEF CheckAborts, AtCheck, Running
  <2>2. ~Passes(Top)
    BY <2>1, AtTop DEF Passed, Passes
  <2>3. fault
    BY <2>1, <2>2 DEF TestInv
  <2>4. QED
    BY <2>1, <2>3 DEF TestInv
<1>12. CASE DestroyEnclave
  BY <1>12 DEF DestroyEnclave, TestInv
<1>13. CASE GetChar
  BY <1>13 DEF GetChar, TestInv
<1>14. CASE PowerTransition
  BY <1>14 DEF PowerTransition, TestInv
<1>15. CASE UNCHANGED bvars
  BY <1>15 DEF bvars, TestInv, Top, Passes, Now
<1>16. QED
  BY <1>1, <1>2, <1>3, <1>4, <1>5, <1>6, <1>7, <1>8, <1>9, <1>10, <1>11,
     <1>12, <1>13, <1>14, <1>15 DEF BNext, HostThread, Finished

\* At the start there is neither a stack nor a fault.
LEMMA AssertStart == BInit => AssertInv
<1> SUFFICES ASSUME BInit PROVE AssertInv
  OBVIOUS
<1>1. GateInv
  BY GateStart
<1>2. WaitInv /\ TestInv
  BY DEF BInit, WaitInv, TestInv
<1>3. QED
  BY <1>1, <1>2 DEF AssertInv

\* No assert of either side fails and neither side aborts, unless the enclave
\* was lost, or memory or the SDK failed a call: for every statement of every
\* script, at any depth of nested calls, what the attribute of the .edl
\* declaration lets through is what both ends assert.
THEOREM NoAssertFails == BSpec => []AssertsHold
<1>1. AssertInv /\ [BNext]_bvars => AssertInv'
  BY GateStep, WaitStep, TestStep DEF AssertInv
<1>2. AssertInv => AssertsHold
  BY DEF AssertInv, TestInv, AssertsHold
<1>3. QED
  BY <1>1, <1>2, AssertStart, PTL DEF BSpec
-----------------------------------------------------------------------------
(* The lines main prints. *)

\* The results of the four operations on 3 and 5.
Lines == <<8, -2, 15, 0>>

\* The value of r before its k-th operation.
Before(k) == IF k = 1 THEN Junk ELSE printed[k - 1]

\* A line is its operation's result, or the one before again.
OwnLine(k) == printed[k] = Lines[k] \/ (fault /\ printed[k] = Before(k))

\* main's frame f: r is as it was before this operation, or holds its result.
MainAt(f) ==
  /\ f.pc = Len(printed) + 1
  /\ \/ f.var = Before(f.pc) /\ (f.status = "none" \/ fault)
     \/ f.status # "none" /\ f.var = Lines[f.pc]

\* The lines so far, and the one under way.
PrintInv ==
  /\ Len(printed) \in Nat /\ printed = [k \in 1 .. Len(printed) |-> printed[k]]
  /\ \A k \in 1 .. Len(printed) : OwnLine(k)
  /\ phase = "start" => Len(printed) = 0
  /\ phase = "running" => MainAt(stack[1])

\* An operation's leaf leaves its result in r.
LEMMA OperationLeaf ==
  ASSUME NEW j \in 1 .. 4, NEW arg, NEW var
  PROVE  /\ MainCalls[j].fn \in DOMAIN Arithmetic
         /\ Outcome(Arithmetic[MainCalls[j].fn], arg, var) = Lines[j]
<1> USE AnyValueAssumption DEF Outcome, CopiedOut, Arithmetic, Leaf, MainCalls,
        Operation, Lines
<1>1. CASE j = 1
  BY <1>1 DEF add
<1>2. CASE j = 2
  BY <1>2 DEF subtract
<1>3. CASE j = 3
  BY <1>3 DEF multiply
<1>4. CASE j = 4
  BY <1>4 DEF divide
<1>5. QED
  BY <1>1, <1>2, <1>3, <1>4

\* What main's statements are.
LEMMA MainStatement ==
  ASSUME NEW f, f.fn = "main", AtStatement(f)
  PROVE  /\ f.pc \in 1 .. 4 /\ Now(f).set = AnyValue
         /\ Now(f).fn \in DOMAIN Arithmetic
         /\ Now(f).fn \in DOMAIN Leaves /\ Now(f).fn \notin DOMAIN Script
         /\ Allowed("main", Now(f).fn)
         /\ \A arg, var : Outcome(Leaves[Now(f).fn], arg, var) = Lines[f.pc]
<1>1. f.pc \in 1 .. 4 /\ Now(f) = MainCalls[f.pc]
  BY DEF AtStatement, Now, Script, MainCalls
<1>2. Now(f).set = AnyValue
  BY <1>1 DEF MainCalls, Operation
<1>3. Now(f).fn \in DOMAIN Arithmetic
  BY <1>1, OperationLeaf
<1>4. Now(f).fn \in DOMAIN Leaves /\ Leaves[Now(f).fn] = Arithmetic[Now(f).fn]
  BY <1>3, Tables DEF Found
<1>5. Now(f).fn # "ecall_function_private"
  BY <1>3 DEF Arithmetic
<1>6. Plain("main")
  BY PlainScripts DEF Script
<1>7. Allowed("main", Now(f).fn)
  BY <1>5, <1>6 DEF Allowed, Plain
<1>8. Now(f).fn \notin DOMAIN Script
  BY <1>4, NoScript
<1>9. ASSUME NEW arg, NEW var
      PROVE  Outcome(Leaves[Now(f).fn], arg, var) = Lines[f.pc]
  BY <1>1, <1>4, OperationLeaf
<1>10. QED
  BY <1>1, <1>2, <1>3, <1>4, <1>7, <1>8, <1>9

\* A step that prints nothing.
LEMMA QuietPrint ==
  ASSUME PrintInv, printed' = printed, fault => fault',
         phase' = "start" => phase = "start",
         phase' = "running" => MainAt(stack[1])'
  PROVE  PrintInv'
BY DEF PrintInv, OwnLine, Before

\* It prints nothing and leaves main's frame.
LEMMA AsideFromMain ==
  ASSUME PrintInv, printed' = printed, fault => fault',
         phase' = "start" => phase = "start",
         phase' = "running" => phase = "running" /\ stack'[1] = stack[1]
  PROVE  PrintInv'
<1>1. ASSUME phase' = "running" PROVE MainAt(stack[1])'
  BY <1>1 DEF PrintInv, MainAt, Before
<1>2. QED
  BY <1>1, QuietPrint

\* It prints nothing, and main's frame, at the same operation, still has r as
\* it was.
LEMMA SameR ==
  ASSUME PrintInv, phase = "running", printed' = printed, fault => fault',
         phase' = phase,
         stack'[1].pc = stack[1].pc, stack'[1].var = stack[1].var,
         stack[1].status = "none", stack'[1].status = "none" \/ fault'
  PROVE  PrintInv'
<1>1. MainAt(stack[1])'
  BY DEF PrintInv, MainAt, Before
<1>2. QED
  BY <1>1, QuietPrint

\* With calls in progress, a step on the newest frame is beside main's.
LEMMA BelowTop ==
  ASSUME NEW m \in Nat, m > 1, SameBelow(stack, stack', m - 1)
  PROVE  stack'[1] = stack[1]
BY DEF SameBelow

\* main's frame is the newest only when nothing is called.
LEMMA MainTop ==
  ASSUME GateInv, WaitInv, phase = "running", NEW n \in Nat, n = Len(stack)
  PROVE  n > 0 /\ (Top.fn = "main" <=> n = 1)
<1>1. n > 0 /\ Top = stack[n] /\ stack[1].fn = "main"
  BY Bottom
<1>2. ASSUME n > 1 PROVE Top.fn # "main"
  <2>1. Waits(stack[n - 1], stack[n - 1 + 1])
    BY <1>2 DEF WaitInv
  <2>2. QED
    BY <1>1, <2>1 DEF Waits
<1>3. QED
  BY <1>1, <1>2

\* A call that fails at once leaves r, and is a fault.
LEMMA FailedPrint ==
  ASSUME GateInv, WaitInv, PrintInv, AtCall, NEW status, Failed(status),
         printed' = printed, fault => fault', phase' = phase,
         Top.fn = "main" => fault'
  PROVE  PrintInv'
<1>1. phase = "running" /\ Scripted /\ ~Done /\ Top.status = "none"
  BY DEF AtCall, Running
<1>2. PICK n \in Nat : n = Len(stack)
  BY <1>1, Bottom
<1>3. /\ n > 0 /\ SameBelow(stack, stack', n - 1)
      /\ stack'[n].pc = Top.pc /\ stack'[n].var = SetVar
  BY <1>1, <1>2, FailedStack
<1>4. CASE n = 1
  <2>1. Top = stack[1] /\ Top.fn = "main"
    BY <1>1, <1>2, <1>4, MainTop DEF Top
  <2>2. Statement.set = AnyValue
    BY <1>1, <2>1, AtTop, MainStatement
  <2>3. SetVar = Top.var
    BY <2>2 DEF SetVar
  <2>4. QED
    BY <1>1, <1>3, <1>4, <2>1, <2>3, SameR
<1>5. CASE n > 1
  BY <1>1, <1>3, <1>5, BelowTop, AsideFromMain
<1>6. QED
  BY <1>3, <1>4, <1>5

\* main's own calls are refused only when the enclave is gone.
LEMMA RefusedPrint ==
  ASSUME GateInv, WaitInv, TestInv, PrintInv, CallRefused PROVE PrintInv'
<1>1. /\ AtCall /\ UNCHANGED <<phase, printed, fault>>
      /\ \E status : Failed(status)
  BY DEF CallRefused
<1>2. phase = "running" /\ Scripted /\ ~Done
  BY <1>1 DEF AtCall, Running
<1>3. ASSUME Top.fn = "main" PROVE fault
  <2>1. Allowed(Top.fn, Statement.fn)
    BY <1>2, <1>3, AtTop, MainStatement
  <2>2. enclave # "alive"
    BY <2>1 DEF CallRefused
  <2>3. QED
    BY <1>2, <2>2 DEF TestInv
<1>4. QED
  BY <1>1, <1>3, FailedPrint

\* main's call leaves r as it is.
LEMMA MakeCallPrint ==
  ASSUME GateInv, WaitInv, PrintInv, MakeCall PROVE PrintInv'
<1>1. /\ phase = "running" /\ Scripted /\ ~Done /\ Top.status = "none"
      /\ UNCHANGED <<phase, printed, fault>>
  BY DEF MakeCall, AtCall, Running
<1>2. PICK n \in Nat : n = Len(stack)
  BY <1>1, Bottom
<1>3. /\ n > 0 /\ SameBelow(stack, stack', n - 1)
      /\ stack'[n].pc = Top.pc /\ stack'[n].var = SetVar
      /\ stack'[n].status = Top.status
  BY <1>2, MakeCallStack
<1>4. CASE n = 1
  <2>1. Top = stack[1] /\ Top.fn = "main"
    BY <1>1, <1>2, <1>4, MainTop DEF Top
  <2>2. Statement.set = AnyValue
    BY <1>1, <2>1, AtTop, MainStatement
  <2>3. SetVar = Top.var
    BY <2>2 DEF SetVar
  <2>4. QED
    BY <1>1, <1>3, <1>4, <2>1, <2>3, SameR
<1>5. CASE n > 1
  BY <1>1, <1>3, <1>5, BelowTop, AsideFromMain
<1>6. QED
  BY <1>3, <1>4, <1>5

\* A demonstration is called beside main's own statements.
LEMMA CallDemoPrint ==
  ASSUME GateInv, PrintInv, NEW demo \in todo, CallDemo(demo) PROVE PrintInv'
<1>1. /\ phase = "running" /\ Len(stack) = 1
      /\ UNCHANGED <<phase, printed, fault>>
      /\ stack' = Longer(stack, Frame(demo, AnyValue))
  BY DEF CallDemo, Longer
<1>2. PICK S : stack \in Seq(S)
  BY <1>1, Bottom, StackSeq
<1>3. stack'[1] = stack[1]
  BY <1>1, <1>2 DEF Longer
<1>4. QED
  BY <1>1, <1>3, AsideFromMain

\* What returns to main: an operation with its result, or without one for a
\* fault, or a demonstration.
LEMMA PopPrint ==
  ASSUME GateInv, WaitInv, PrintInv, phase = "running", Top.fn # "main",
         NEW v, NEW status, stack' = Popped(v, status),
         printed' = printed, fault' = fault, phase' = phase,
         \/ v = CallerVar /\ (status = "none" \/ fault)
         \/ /\ Top.fn \notin DOMAIN Script /\ status # "none"
            /\ v = Outcome(Leaves[Top.fn], Top.arg, CallerVar)
         \/ Top.fn \in DOMAIN Script \ Demos
  PROVE  PrintInv'
<1>1. PICK n \in Nat : n = Len(stack)
  BY Bottom
<1>2. PICK m \in Nat : m = n - 1 /\ m > 0 /\ Waits(stack[m], Top)
  BY <1>1, Caller
<1>3. /\ SameBelow(stack, stack', m - 1)
      /\ stack'[m].pc = stack[m].pc
      /\ stack'[m].var = v /\ stack'[m].status = status
  BY <1>1, <1>2, PoppedStack
<1>4. CASE m > 1
  BY <1>3, <1>4, BelowTop, AsideFromMain
<1>5. CASE m = 1
  <2>1. stack[1].fn = "main" /\ CallerVar = stack[1].var
    BY <1>1, <1>2, <1>5, Bottom DEF CallerVar
  <2>2. AtStatement(stack[1]) /\ stack[1].status = "none"
    BY <1>2, <1>5 DEF Waits
  <2>3. Top.fn \in Demos \/ Top.fn = Now(stack[1]).fn
    BY <1>2, <1>5 DEF Waits
  <2>4. CASE v = CallerVar /\ (status = "none" \/ fault)
    BY <1>3, <1>5, <2>1, <2>2, <2>4, SameR
  <2>5. CASE /\ Top.fn \notin DOMAIN Script /\ status # "none"
             /\ v = Outcome(Leaves[Top.fn], Top.arg, CallerVar)
    <3>1. Top.fn = Now(stack[1]).fn
      BY <2>3, <2>5, DemoScripts
    <3>2. v = Lines[stack[1].pc]
      BY <2>1, <2>2, <2>5, <3>1, MainStatement
    <3>3. MainAt(stack[1])'
      BY <1>3, <1>5, <2>5, <3>2 DEF PrintInv, MainAt
    <3>4. QED
      BY <3>3, QuietPrint
  <2>6. Top.fn \notin DOMAIN Script \ Demos
    BY <2>1, <2>2, <2>3, MainStatement
  <2>7. QED
    BY <2>4, <2>5, <2>6
<1>6. QED
  BY <1>2, <1>4, <1>5

\* Only main prints, and it prints r.
LEMMA CheckPrint ==
  ASSUME GateInv, WaitInv, PrintInv, Check PROVE PrintInv'
<1>1. /\ phase = "running" /\ Scripted /\ ~Done /\ Top.status # "none"
      /\ UNCHANGED <<phase, fault>>
  BY DEF Check, AtCheck, Running
<1>2. PICK n \in Nat : n = Len(stack)
  BY <1>1, Bottom
<1>3. /\ n > 0 /\ SameBelow(stack, stack', n - 1)
      /\ stack'[n].pc = Top.pc + 1
      /\ stack'[n].var = Top.var /\ stack'[n].status = "none"
  BY <1>2, CheckStack
<1>4. CASE n > 1
  <2>1. printed' = printed
    BY <1>1, <1>2, <1>4, MainTop DEF Check
  <2>2. QED
    BY <1>1, <1>3, <1>4, <2>1, BelowTop, AsideFromMain
<1>5. CASE n = 1
  <2>1. Top = stack[1] /\ Top.fn = "main"
    BY <1>1, <1>2, <1>5, MainTop DEF Top
  <2>2. printed' = Append(printed, Top.var)
    BY <2>1 DEF Check
  <2>3. PICK p \in Nat : p = Len(printed)
    BY DEF PrintInv
  <2> DEFINE S == {printed[k] : k \in 1 .. p} \cup {Top.var}
  <2>4. printed \in [1 .. p -> S]
    BY <2>3 DEF PrintInv
  <2>5. printed \in Seq(S)
    BY <2>3, <2>4
  <2>6. Top.var \in S
    OBVIOUS
  <2> HIDE DEF S
  <2>7. printed' \in Seq(S) /\ Len(printed') = p + 1
    BY <2>2, <2>3, <2>5, <2>6
  <2>8. (\A k \in 1 .. p : printed'[k] = printed[k]) /\ printed'[p + 1] = Top.var
    BY <2>2, <2>3, <2>5, <2>6
  <2>9. printed' = [k \in 1 .. Len(printed') |-> printed'[k]]
    BY <2>7
  <2>10. /\ Top.pc = p + 1
         /\ Top.var = Lines[p + 1] \/ (fault /\ Top.var = Before(p + 1))
    BY <1>1, <2>1, <2>3 DEF PrintInv, MainAt
  <2>11. \A k \in 1 .. p + 1 : Before(k)' = Before(k)
    BY <2>8 DEF Before
  <2>12. ASSUME NEW k \in 1 .. p + 1 PROVE OwnLine(k)'
    <3>1. CASE k = p + 1
      BY <1>1, <2>8, <2>10, <2>11, <3>1 DEF OwnLine
    <3>2. CASE k \in 1 .. p
      BY <1>1, <2>3, <2>8, <2>11, <3>2 DEF OwnLine, PrintInv
    <3>3. QED
      BY <3>1, <3>2
  <2>13. stack'[1].var = Before(p + 2)'
    BY <1>3, <1>5, <2>8 DEF Before
  <2>14. MainAt(stack[1])'
    BY <1>3, <1>5, <2>7, <2>10, <2>13 DEF MainAt
  <2>15. QED
    BY <1>1, <2>7, <2>9, <2>12, <2>14 DEF PrintInv
<1>6. QED
  BY <1>3, <1>4, <1>5

\* Whatever the program does next, its lines are their operations' own.
LEMMA PrintStep == AssertInv /\ PrintInv /\ [BNext]_bvars => PrintInv'
<1> SUFFICES ASSUME GateInv, WaitInv, TestInv, PrintInv, [BNext]_bvars
             PROVE  PrintInv'
  BY DEF AssertInv
<1>1. CASE initialize_enclave
  <2>1. phase = "start" /\ UNCHANGED <<printed, fault>>
    BY <1>1 DEF initialize_enclave
  <2>2. Len(printed) = 0
    BY <2>1 DEF PrintInv
  <2>3. ASSUME phase' = "running" PROVE MainAt(stack[1])'
    <3>1. stack' = <<Frame("main", AnyValue)>>
      BY <1>1, <2>3 DEF initialize_enclave
    <3>2. /\ stack'[1].pc = 1 /\ stack'[1].var = Junk
          /\ stack'[1].status = "none"
      BY <3>1 DEF Frame
    <3>3. QED
      BY <2>1, <2>2, <3>2 DEF MainAt, Before
  <2>4. QED
    BY <2>1, <2>3, QuietPrint
<1>2. CASE \E demo \in todo : CallDemo(demo)
  BY <1>2, CallDemoPrint
<1>3. CASE MakeCall
  BY <1>3, MakeCallPrint
<1>4. CASE CallRefused
  BY <1>4, RefusedPrint
<1>5. CASE BridgeFails
  BY <1>5, FailedPrint DEF BridgeFails
<1>6. CASE RunLeaf
  <2>1. /\ phase = "running" /\ Top.fn \notin DOMAIN Script
        /\ stack' = Popped(Outcome(Leaves[Top.fn], Top.arg, CallerVar), "SUCCESS")
        /\ UNCHANGED <<phase, printed, fault>>
    BY <1>6 DEF RunLeaf, Running, Scripted, Outcome
  <2>2. Top.fn # "main"
    BY <2>1, Sides
  <2>3. QED
    BY <2>1, <2>2, PopPrint
<1>7. CASE LeafAborts
  BY <1>7, AsideFromMain DEF LeafAborts, Running, Abort
<1>8. CASE ReturnScript
  <2> DEFINE status == IF Top.fn \in Demos THEN "none" ELSE "SUCCESS"
  <2>1. /\ phase = "running" /\ Top.fn # "main" /\ Top.fn \in DOMAIN Script
        /\ stack' = Popped(CallerVar, status)
        /\ UNCHANGED <<phase, printed, fault>>
    BY <1>8 DEF ReturnScript, Running, Done, Scripted
  <2>2. status = "none" \/ Top.fn \in DOMAIN Script \ Demos
    BY <2>1
  <2> HIDE DEF status
  <2>3. QED
    BY <2>1, <2>2, PopPrint
<1>9. CASE LostReturn
  <2>1. /\ phase = "running" /\ Top.fn # "main" /\ fault
        /\ stack' = Popped(CallerVar, Gone)
        /\ UNCHANGED <<phase, printed, fault>>
    BY <1>9, Sides DEF LostReturn, TestInv
  <2>2. QED
    BY <2>1, PopPrint
<1>10. CASE Check
  BY <1>10, CheckPrint
<1>11. CASE CheckAborts
  BY <1>11, AsideFromMain DEF CheckAborts, AtCheck, Running, Abort
<1>12. CASE DestroyEnclave
  BY <1>12, AsideFromMain DEF DestroyEnclave
<1>13. CASE GetChar
  BY <1>13, AsideFromMain DEF GetChar
<1>14. CASE PowerTransition
  BY <1>14, AsideFromMain DEF PowerTransition
<1>15. CASE UNCHANGED bvars
  BY <1>15, AsideFromMain DEF bvars
<1>16. QED
  BY <1>1, <1>2, <1>3, <1>4, <1>5, <1>6, <1>7, <1>8, <1>9, <1>10, <1>11,
     <1>12, <1>13, <1>14, <1>15 DEF BNext, HostThread, Finished

\* main looks at no status before it prints r: each line is the operation's own
\* result, unless a call failed, and then the line before is printed again.  It
\* needs AnyValue to be no number, or a result could pass for "leave r alone".
THEOREM LinesAreOwn == BSpec => []PrintedOwn
<1>1. BInit => PrintInv
  BY DEF BInit, PrintInv
<1>2. AssertInv /\ [BNext]_bvars => AssertInv'
  BY GateStep, WaitStep, TestStep DEF AssertInv
<1>3. PrintInv => PrintedOwn
  BY DEF PrintInv, PrintedOwn, OwnLine, Before, Lines
<1>4. QED
  BY <1>1, <1>2, <1>3, AssertStart, PrintStep, PTL DEF BSpec
=============================================================================

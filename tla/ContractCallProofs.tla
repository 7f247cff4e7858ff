------------------------- MODULE ContractCallProofs -------------------------
(***************************************************************************)
(* Proofs about one call of a contract, for every contract, every set of   *)
(* members, every action data, whatever way arguments are packed.          *)
(*                                                                         *)
(* The second half is about the apply the linker writes.  Its code is a    *)
(* tree of ifs written as a list: Does says what a piece of it does, from  *)
(* what its parts do, and in the end that the dispatch calls the handler   *)
(* that is meant; Reach says where a call of the whole apply can be.       *)
(***************************************************************************)
EXTENDS ContractCall, Induction, SequenceTheorems, TLAPS

(* Where a call can be while its handler is prepared and run *)
Inside == {"receive", "unpack", "pre", "post", "body", "release"}

Stopped == {"no_memory", "data_unread", "check_failed"}

Types ==
    /\ route \in Routes
    /\ step \in {"apply", "done"} \union Inside \union Stopped
    /\ result \in BOOLEAN
    /\ data \in Seq(Nat)
    /\ heap \in Int
    /\ log \in Seq({"pre_action", "post_action", "handler"})

(* The linker's apply waits at a call while a stub runs, and the parts that  *)
(* only the macros have are never entered.                                   *)
InStub ==
    linked =>
        /\ step \in {"receive", "unpack", "body"} => Executing("call")
        /\ step \notin {"pre", "post", "release", "done"}
        /\ log = <<>> /\ value = -1 /\ returned = <<>>

(* What the macros have run, by the place they are at *)
Addressee == action \in Members /\ (route = "dispatch" => code = Receiver)

(* The handler has not run.                                                 *)
NotRun == \A i \in DOMAIN log : log[i] # "handler"

(* How far the call has come, and what it has done by then                  *)
Progress ==
    ~linked =>
        /\ step \in Inside => Addressee
        /\ step \notin {"release", "done"} => NotRun /\ value = -1 /\ returned = <<>>
        /\ step = "release" \/ (step = "done" /\ Addressee) =>
              /\ \E i \in DOMAIN log : {j \in DOMAIN log : log[j] = "handler"} = {i}
              /\ IF route = "return" THEN returned = <<value>> ELSE value = -1
        /\ step = "done" /\ ~Addressee => NotRun /\ value = -1 /\ returned = <<>>
        /\ route = "return" => action \in Members

(* Where the data is, and what malloc has given for it *)
Memory ==
    /\ buffer \in {"none", "stack", "heap", "null"}
    /\ ~linked =>
          /\ step \in {"apply", "receive"} => heap = 0 /\ buffer = "none" /\ data = <<>>
          /\ step \in {"unpack", "pre", "post", "body", "release"} =>
                /\ heap = IF buffer = "heap" THEN Len(data) ELSE 0
                /\ max_stack_buffer_size < Len(data) <=> buffer \in {"heap", "null"}
          /\ step = "done" => heap = 0
    /\ linked /\ step \in {"apply", "receive"} => buffer = "none" /\ data = <<>>
    /\ buffer = "stack" => Len(data) <= max_stack_buffer_size

(* The inductive invariant *)
CallInv == Types /\ InStub /\ Progress /\ Memory

-----------------------------------------------------------------------------
(* CallInv holds initially, and one lemma for each step of the call.        *)
LEMMA InitCallInv == CallInit => CallInv
  <1> SUFFICES ASSUME CallInit PROVE CallInv
    OBVIOUS
  <1>1. /\ route \in Routes /\ step = "apply" /\ data = <<>> /\ buffer = "none" /\ heap = 0
        /\ log = <<>> /\ value = -1 /\ returned = <<>>
    BY DEF CallInit
  <1>2. result \in BOOLEAN
    <2>1. CASE route = "linked"
      <3>1. Init
        BY <2>1 DEF CallInit
      <3> QED
        BY <3>1 DEF Init
    <2>2. CASE route # "linked"
      BY <2>2 DEF CallInit
    <2> QED
      BY <2>1, <2>2
  <1>3. route = "return" => action \in Members
    BY DEF CallInit
  <1>4. Types
    BY <1>1, <1>2 DEF Types
  <1>5. InStub
    BY <1>1 DEF InStub
  <1>6. Progress
    BY <1>1, <1>3 DEF Progress, NotRun, Inside
  <1>7. Memory
    BY <1>1, CallAssumption DEF Memory
  <1> QED
    BY <1>4, <1>5, <1>6, <1>7 DEF CallInv

(* An instruction of the linker's apply *)
LEMMA LinkedStep ==
    ASSUME CallInv, Linked
    PROVE  CallInv'
  <1>1. /\ linked /\ step = "apply" /\ step' = step /\ route' = route
        /\ data' = data /\ buffer' = buffer /\ heap' = heap /\ log' = log /\ value' = value /\ returned' = returned
    BY DEF Linked, frame, outcome
  <1>2. result' \in BOOLEAN
    BY DEF Linked, ExecIf, ExecElse, ExecEnd, ExecAssert, Return, ExecCall, CallInv, Types
  <1>3. Types' /\ InStub' /\ Progress' /\ Memory'
    BY <1>1, <1>2 DEF CallInv, Types, InStub, Progress, Memory, linked, Inside, Stopped
  <1> QED
    BY <1>3 DEF CallInv

LEMMA ApplyStep ==
    ASSUME CallInv, apply
    PROVE  CallInv'
  <1>1. /\ route' = route /\ data' = data /\ buffer' = buffer /\ heap' = heap
        /\ log' = log /\ value' = value /\ returned' = returned /\ step = "apply"
        /\ result' = result /\ action' = action /\ code' = code
        /\ status' = status /\ pc' = pc /\ body' = body
    BY DEF apply, frame, call, outcome
  <1>2. CASE linked /\ Executing("call") /\ step' = "receive"
    <2>1. linked' /\ Executing("call")'
      BY <1>1, <1>2 DEF linked, Executing
    <2> QED
      BY <1>1, <1>2, <2>1 DEF CallInv, Types, InStub, Progress, Memory, linked, Inside, Stopped
  <1>3. CASE ~linked /\ step' = IF Accepts /\ action \in Members THEN "receive" ELSE "done"
    <2>1. (Accepts /\ action \in Members) <=> Addressee
      BY DEF Accepts, Addressee
    <2>2. Addressee' <=> Addressee
      BY <1>1 DEF Addressee
    <2>3. NotRun /\ value = -1 /\ returned = <<>> /\ heap = 0
      BY <1>1, <1>3 DEF CallInv, Progress, Memory
    <2>4. step' = IF Addressee THEN "receive" ELSE "done"
      BY <1>3, <2>1
    <2> QED
      BY <1>1, <1>3, <2>2, <2>3, <2>4
         DEF CallInv, Types, InStub, Progress, Memory, linked, Inside, Stopped, NotRun
  <1> QED
    BY <1>2, <1>3 DEF apply

(* What a step that stops the instance keeps *)
LEMMA StopStep ==
    ASSUME CallInv, NEW reason \in Stopped, Stop(reason),
           step \in {"receive", "unpack", "pre", "post", "body"},
           route' = route, log' = log, value' = value, returned' = returned, heap' \in Int,
           data' \in Seq(Nat), buffer' = buffer,
           buffer' = "stack" => Len(data') <= max_stack_buffer_size
    PROVE  CallInv'
  <1>1. step' = reason /\ result' = result /\ action' = action /\ code' = code
    BY DEF Stop
  <1>2. reason \notin Inside \union {"apply", "done"}
    BY DEF Stopped, Inside
  <1>3. Types'
    BY <1>1 DEF CallInv, Types
  <1>4. InStub'
    BY <1>1, <1>2 DEF CallInv, InStub, linked, Inside
  <1>5. Progress'
    BY <1>1, <1>2 DEF CallInv, Progress, linked, Inside, NotRun
  <1>6. Memory'
    BY <1>1, <1>2 DEF CallInv, Memory, linked, Inside
  <1> QED
    BY <1>3, <1>4, <1>5, <1>6 DEF CallInv

(* What a step on to the next part keeps.  Addressee and Executing are about *)
(* variables that do not change.                                             *)
LEMMA SameCall ==
    ASSUME UNCHANGED call, route' = route
    PROVE  /\ linked' = linked /\ Addressee' = Addressee
           /\ Executing("call")' = Executing("call")
           /\ result' = result /\ action' = action
  BY DEF call, linked, Addressee, Executing

LEMMA ReceiveStep ==
    ASSUME CallInv, Receive
    PROVE  CallInv'
  <1>1. /\ step = "receive" /\ data' \in Data /\ data' \in Seq(Nat)
        /\ route' = route /\ log' = log /\ value' = value /\ returned' = returned
        /\ buffer = "none"
    BY CallAssumption DEF Receive, CallInv, Memory, outcome
  <1> DEFINE size == Len(data')
  <1>2. size \in Nat /\ max_stack_buffer_size \in Nat
    BY <1>1, CallAssumption
  <1>3. CASE /\ Proceed("unpack") /\ heap' = heap
             /\ \/ size = 0 /\ buffer' = buffer
                \/ ~TooLarge(size) /\ buffer' = "stack"
    <2>1. buffer' = "stack" => size <= max_stack_buffer_size
      BY <1>1, <1>2, <1>3 DEF TooLarge
    <2>2. ~linked => ~(max_stack_buffer_size < size)
      BY <1>2, <1>3 DEF TooLarge
    <2>3. buffer' \in {"none", "stack"} /\ step' = "unpack" /\ UNCHANGED call
      BY <1>1, <1>3 DEF Proceed
    <2> HIDE DEF size
    <2> QED
      BY <1>1, <1>3, <2>1, <2>2, <2>3, SameCall
         DEF CallInv, Types, InStub, Progress, Memory, Inside, NotRun, size
  <1>4. CASE /\ Proceed("unpack") /\ TooLarge(size)
             /\ \/ buffer' = "heap" /\ heap' = heap + size
                \/ buffer' = "null" /\ heap' = heap
    <2>1. ~linked => max_stack_buffer_size < size
      BY <1>2, <1>4 DEF TooLarge
    <2>2. step' = "unpack" /\ UNCHANGED call
      BY <1>4 DEF Proceed
    <2>3. heap' \in Int /\ (~linked => heap' = IF buffer' = "heap" THEN size ELSE 0)
      BY <1>1, <1>2, <1>4 DEF CallInv, Types, Memory
    <2>4. buffer' \in {"heap", "null"}
      BY <1>4
    <2> HIDE DEF size
    <2> QED
      BY <1>1, <2>1, <2>2, <2>3, <2>4, SameCall
         DEF CallInv, Types, InStub, Progress, Memory, Inside, NotRun, size
  <1>5. CASE Stop("no_memory") /\ buffer' = buffer /\ heap' = heap
    <2>1. "no_memory" \in Stopped
      BY DEF Stopped
    <2>2. heap' \in Int
      BY <1>5 DEF CallInv, Types
    <2> QED
      BY <1>1, <1>5, <2>1, <2>2, StopStep
  <1> QED
    BY <1>3, <1>4, <1>5 DEF Receive

LEMMA UnpackStep ==
    ASSUME CallInv, Unpack
    PROVE  CallInv'
  <1>1. /\ step = "unpack" /\ route' = route /\ data' = data /\ buffer' = buffer
        /\ heap' = heap /\ log' = log /\ value' = value /\ returned' = returned
    BY DEF Unpack, outcome
  <1>2. CASE Proceed(IF route \in {"dispatch", "any"} THEN "pre" ELSE "body")
    <2>1. UNCHANGED call /\ step' \in {"pre", "body"} /\ (linked => step' = "body")
      BY <1>2 DEF Proceed, linked
    <2> QED
      BY <1>1, <2>1, SameCall DEF CallInv, Types, InStub, Progress, Memory, Inside, NotRun
  <1>3. CASE Stop("data_unread") \/ Stop("no_memory")
    <2>1. "no_memory" \in Stopped /\ "data_unread" \in Stopped
      BY DEF Stopped
    <2>2. heap' \in Int /\ data' \in Seq(Nat)
          /\ (buffer' = "stack" => Len(data') <= max_stack_buffer_size)
      BY <1>1 DEF CallInv, Types, Memory
    <2> QED
      BY <1>1, <1>3, <2>1, <2>2, StopStep
  <1> QED
    BY <1>2, <1>3 DEF Unpack, outcome

(* The hooks the macros run in front of the handler *)
LEMMA HookStep ==
    ASSUME CallInv, pre_action \/ post_action
    PROVE  CallInv'
  <1>1. /\ step \in {"pre", "post"} /\ route' = route /\ value' = value /\ returned' = returned
        /\ data' = data /\ buffer' = buffer /\ heap' = heap
    BY DEF pre_action, post_action, Run, frame, outcome
  <1>2. ~linked
    BY <1>1 DEF CallInv, InStub
  <1>3. CASE /\ UNCHANGED call /\ step' \in {"post", "body"}
             /\ \E what \in {"pre_action", "post_action"} : log' = Append(log, what)
    <2>1. log' \in Seq({"pre_action", "post_action", "handler"})
      BY <1>3 DEF CallInv, Types
    <2>2. NotRun'
      BY <1>1, <1>2, <1>3 DEF CallInv, Types, Progress, NotRun
    <2> QED
      BY <1>1, <1>2, <1>3, <2>1, <2>2, SameCall
         DEF CallInv, Types, InStub, Progress, Memory, Inside
  <1>4. CASE Stop("check_failed") /\ log' = log
    <2>1. "check_failed" \in Stopped
      BY DEF Stopped
    <2>2. heap' \in Int /\ data' \in Seq(Nat)
          /\ (buffer' = "stack" => Len(data') <= max_stack_buffer_size)
      BY <1>1 DEF CallInv, Types, Memory
    <2> QED
      BY <1>1, <1>4, <2>1, <2>2, StopStep
  <1> QED
    BY <1>3, <1>4 DEF pre_action, post_action, Run, Proceed

LEMMA BodyStep ==
    ASSUME CallInv, Body
    PROVE  CallInv'
  <1>1. /\ step = "body" /\ ~linked /\ route' = route
        /\ data' = data /\ buffer' = buffer /\ heap' = heap
    BY DEF Body, Run, frame
  <1>2. CASE log' = Append(log, "handler") /\ Proceed("release")
    <2>1. UNCHANGED call /\ step' = "release"
      BY <1>2 DEF Proceed
    <2>2. NotRun /\ value = -1 /\ returned = <<>> /\ log \in Seq({"pre_action", "post_action", "handler"})
      BY <1>1 DEF CallInv, Progress, Types
    <2>3. IF route = "return" THEN returned' = <<value'>> ELSE value' = -1
      BY <1>1, <2>1, <2>2 DEF Body, Returns
    <2>4. /\ Len(log') \in DOMAIN log'
          /\ {j \in DOMAIN log' : log'[j] = "handler"} = {Len(log')}
          /\ log' \in Seq({"pre_action", "post_action", "handler"})
      BY <1>2, <2>2 DEF NotRun
    <2> QED
      BY <1>1, <2>1, <2>3, <2>4, SameCall
         DEF CallInv, Types, InStub, Progress, Memory, Inside
  <1>3. CASE Stop("check_failed") /\ log' = log
    <2>1. "check_failed" \in Stopped /\ step' = "check_failed"
      BY <1>3 DEF Stopped, Stop
    <2>2. heap' \in Int /\ data' \in Seq(Nat)
          /\ (buffer' = "stack" => Len(data') <= max_stack_buffer_size)
      BY <1>1 DEF CallInv, Types, Memory
    <2>3. value' = value /\ returned' = returned
      <3>1. returned = <<>> /\ step' # "release"
        BY <1>1, <2>1 DEF CallInv, Progress
      <3> QED
        BY <3>1 DEF Body, Returns
    <2> QED
      BY <1>1, <1>3, <2>1, <2>2, <2>3, StopStep
  <1> QED
    BY <1>2, <1>3 DEF Body, Run

LEMMA StubBodyStep ==
    ASSUME CallInv, StubBody
    PROVE  CallInv'
  <1>1. /\ step = "body" /\ linked /\ route' = route
        /\ heap' = heap /\ log' = log /\ value' = value /\ returned' = returned
    BY DEF StubBody, outcome
  <1>2. CASE step' = "apply" /\ data' = <<>> /\ buffer' = "none" /\ result' = result
    BY <1>1, <1>2 DEF CallInv, Types, InStub, Progress, Memory, Inside, linked
  <1>3. CASE Stop("check_failed") /\ UNCHANGED frame
    <2>1. "check_failed" \in Stopped
      BY DEF Stopped
    <2>2. heap' \in Int /\ data' \in Seq(Nat) /\ buffer' = buffer
          /\ (buffer' = "stack" => Len(data') <= max_stack_buffer_size)
      BY <1>1, <1>3 DEF CallInv, Types, Memory, frame
    <2> QED
      BY <1>1, <1>3, <2>1, <2>2, StopStep
  <1> QED
    BY <1>2, <1>3 DEF StubBody, outcome

LEMMA ReleaseStep ==
    ASSUME CallInv, Release
    PROVE  CallInv'
  <1>1. /\ step = "release" /\ route' = route /\ step' = "done" /\ UNCHANGED call
        /\ data' = data /\ buffer' = buffer /\ log' = log /\ value' = value /\ returned' = returned
        /\ heap' = IF max_stack_buffer_size < Len(data) /\ buffer = "heap"
                   THEN heap - Len(data) ELSE heap
    BY DEF Release, Proceed, frame, outcome
  <1>2. ~linked
    BY <1>1 DEF CallInv, InStub
  <1>3. heap' = 0
    BY <1>1, <1>2, CallAssumption DEF CallInv, Types, Memory
  <1>4. Addressee
    BY <1>1, <1>2 DEF CallInv, Progress, Inside
  <1> QED
    BY <1>1, <1>2, <1>3, <1>4, SameCall DEF CallInv, Types, InStub, Progress, Memory, Inside

(* Every step keeps CallInv.                                                *)
LEMMA NextCallInv == CallInv /\ [CallNext]_allVars => CallInv'
  <1> SUFFICES ASSUME CallInv, [CallNext]_allVars PROVE CallInv'
    OBVIOUS
  <1>1. CASE UNCHANGED allVars
    <2>1. /\ UNCHANGED call /\ route' = route /\ step' = step /\ data' = data
          /\ buffer' = buffer /\ heap' = heap /\ log' = log /\ value' = value /\ returned' = returned
      BY <1>1 DEF allVars, frame, outcome
    <2> QED
      BY <2>1, SameCall DEF CallInv, Types, InStub, Progress, Memory, NotRun
  <1> QED
    BY <1>1, LinkedStep, ApplyStep, ReceiveStep, UnpackStep, HookStep, BodyStep,
       StubBodyStep, ReleaseStep DEF CallNext

(* The places of a call, what it has run and the memory it holds fit together *)
(* at every step, whoever's apply it is.                                      *)
THEOREM CallInvariance == CallSpec => []CallInv
  BY InitCallInv, NextCallInv, PTL DEF CallSpec

(* The macros of dispatcher.hpp run the handler exactly when the call is      *)
(* addressed to it, and once, and what it returns comes back (45, 67, 85,     *)
(* 100-103, 126-128).                                                         *)
THEOREM HandlerOnce == CallSpec => []HandlerRunsIffAddressed
  <1>1. CallInv => HandlerRunsIffAddressed
    <2> SUFFICES ASSUME CallInv PROVE HandlerRunsIffAddressed
      OBVIOUS
    <2> DEFINE runs == {i \in DOMAIN log : log[i] = "handler"}
    <2>1. CASE linked
      BY <2>1 DEF CallInv, InStub, HandlerRunsIffAddressed, linked
    <2>2. CASE ~linked
      <3>1. Addressee <=> action \in Members /\ (code = Receiver \/ route # "dispatch")
        BY DEF Addressee
      <3>2. NotRun <=> runs = {}
        BY DEF NotRun
      <3>3. CASE step \notin {"release", "done"} \/ (step = "done" /\ ~Addressee)
        BY <2>2, <3>1, <3>2, <3>3 DEF CallInv, Progress, HandlerRunsIffAddressed
      <3>4. CASE step = "release" \/ (step = "done" /\ Addressee)
        BY <2>2, <3>1, <3>4 DEF CallInv, Progress, HandlerRunsIffAddressed
      <3> QED
        BY <3>3, <3>4
    <2> QED
      BY <2>1, <2>2
  <1> QED
    BY <1>1, CallInvariance, PTL

(* execute_action gives malloc's buffer back and free nothing else, and no    *)
(* stack buffer exceeds its limit, at every size (dispatcher.hpp:30, 46-48;   *)
(* codegen.hpp:250).                                                          *)
THEOREM Returned == CallSpec => []BufferReturned
  <1>1. CallInv => BufferReturned
    <2> SUFFICES ASSUME CallInv PROVE BufferReturned
      OBVIOUS
    <2>1. CASE linked
      BY <2>1 DEF CallInv, InStub, Memory, BufferReturned
    <2>2. CASE ~linked
      BY <2>2 DEF CallInv, Memory, BufferReturned
    <2> QED
      BY <2>1, <2>2
  <1> QED
    BY <1>1, CallInvariance, PTL

LEMMA StopIsCall ==
    ASSUME CallInv, linked, step \in {"receive", "unpack", "body"},
           NEW reason, Stop(reason)
    PROVE  ExecCall
  BY DEF CallInv, InStub, Stop, ExecCall, func

(* To the linker's apply a stub is a call that returns or stops the instance: *)
(* no failed read or allocation comes back into the code around it            *)
(* (codegen.hpp:243-274).                                                     *)
THEOREM Stubs == CallSpec => StubsAreCalls
  <1>1. CallInv /\ [CallNext]_allVars => [linked => Next]_call
    <2> SUFFICES ASSUME CallInv, [CallNext]_allVars, linked, ~UNCHANGED call
                 PROVE  Next
      OBVIOUS
    <2>1. CASE UNCHANGED allVars
      BY <2>1 DEF allVars
    <2>2. CASE Linked
      BY <2>2 DEF Linked, Next
    <2>3. CASE apply
      BY <2>3 DEF apply
    <2>4. CASE Receive \/ Unpack
      <3>1. step \in {"receive", "unpack", "body"} /\ \E reason \in Stopped : Stop(reason)
        BY <2>4 DEF Receive, Unpack, Proceed, Stopped
      <3> QED
        BY <3>1, StopIsCall DEF Next
    <2>5. CASE pre_action \/ post_action \/ Body \/ Release
      BY <2>5 DEF pre_action, post_action, Body, Release, CallInv, InStub
    <2>6. CASE StubBody
      <3>1. CASE Stop("check_failed")
        BY <2>6, <3>1, StopIsCall DEF StubBody, Next
      <3>2. CASE /\ pc' = pc + 1 /\ trace' = Append(trace, func)
                 /\ UNCHANGED <<contract, body, code, action, result, status>>
        <4>1. Executing("call") /\ result \in BOOLEAN
          BY <2>6 DEF StubBody, CallInv, InStub, Types
        <4>2. ExecCall
          BY <3>2, <4>1 DEF ExecCall, func
        <4> QED
          BY <4>2 DEF Next
      <3> QED
        BY <2>6, <3>1, <3>2 DEF StubBody
    <2> QED
      BY <2>1, <2>2, <2>3, <2>4, <2>5, <2>6 DEF CallNext
  <1> QED
    BY <1>1, CallInvariance, PTL DEF CallSpec, StubsAreCalls

-----------------------------------------------------------------------------
(* The linked apply: joined lists, and the machine's matching of if, else, end *)

(* The rounds of FlattenSeq *)
FlattenRounds(g, seqs, k) ==
    g = [i \in 1 .. k |-> IF i = 1 THEN seqs[i] ELSE g[i - 1] \o seqs[i]]

(* Flattening has a value for every number of lists. *)
LEMMA FlattenRoundsExist ==
    ASSUME NEW seqs, NEW k \in Nat
    PROVE  \E g : FlattenRounds(g, seqs, k)
  <1> DEFINE T == {m \in Nat : \E g : FlattenRounds(g, seqs, m)}
  <1>1. 0 \in T
    <2>1. FlattenRounds([n \in 1 .. 0 |-> {}], seqs, 0)
      BY DEF FlattenRounds
    <2> QED
      BY <2>1
  <1>2. ASSUME NEW m \in Nat, m \in T PROVE m + 1 \in T
    <2>1. PICK g : FlattenRounds(g, seqs, m)
      BY <1>2
    <2>2. PICK x : x = IF m = 0 THEN seqs[1] ELSE g[m] \o seqs[m + 1]
      OBVIOUS
    <2> DEFINE h == [n \in 1 .. m + 1 |-> IF n \in 1 .. m THEN g[n] ELSE x]
    <2>3. ASSUME NEW n \in 1 .. m + 1
          PROVE  h[n] = IF n = 1 THEN seqs[n] ELSE h[n - 1] \o seqs[n]
      <3>1. CASE n \in 1 .. m
        <4>1. g[n] = IF n = 1 THEN seqs[n] ELSE g[n - 1] \o seqs[n]
          BY <2>1, <3>1 DEF FlattenRounds
        <4>2. h[n] = g[n] /\ (n # 1 => h[n - 1] = g[n - 1])
          BY <3>1
        <4> HIDE DEF h
        <4> QED
          BY <4>1, <4>2
      <3>2. CASE n = m + 1
        <4>1. h[n] = x /\ (n # 1 => h[n - 1] = g[m]) /\ (n = 1 <=> m = 0)
          BY <3>2
        <4> HIDE DEF h
        <4> QED
          BY <2>2, <3>2, <4>1
      <3> QED
        BY <3>1, <3>2
    <2>4. FlattenRounds(h, seqs, m + 1)
      BY <2>3 DEF FlattenRounds
    <2> QED
      BY <2>4
  <1>3. Nat \subseteq T
    <2> HIDE DEF T
    <2> QED
      BY <1>1, <1>2, NaturalInduction
  <1> QED
    BY <1>3

(* g[k] is the first k of the lists, joined. *)
Joins(g, seqs, n) ==
    /\ g[1] = seqs[1]
    /\ \A k \in 2 .. n : g[k] = g[k - 1] \o seqs[k]

(* FlattenSeq joins the lists in order. *)
LEMMA FlattenJoins ==
    ASSUME NEW seqs, Len(seqs) \in Nat \ {0}
    PROVE  \E g : Joins(g, seqs, Len(seqs)) /\ FlattenSeq(seqs) = g[Len(seqs)]
  <1>1. \E g : FlattenRounds(g, seqs, Len(seqs))
    BY FlattenRoundsExist
  <1>2. FlattenSeq(seqs) = (CHOOSE g : FlattenRounds(g, seqs, Len(seqs)))[Len(seqs)]
    BY DEF FlattenSeq, FlattenRounds
  <1>3. PICK g : FlattenRounds(g, seqs, Len(seqs)) /\ FlattenSeq(seqs) = g[Len(seqs)]
    BY <1>1, <1>2
  <1>4. Joins(g, seqs, Len(seqs))
    <2>1. PICK n \in Nat \ {0} : n = Len(seqs)
      OBVIOUS
    <2>2. \A i \in 1 .. n : g[i] = IF i = 1 THEN seqs[i] ELSE g[i - 1] \o seqs[i]
      BY <1>3, <2>1 DEF FlattenRounds
    <2>3. g[1] = seqs[1]
      BY <2>1, <2>2
    <2>4. ASSUME NEW k \in 2 .. n PROVE g[k] = g[k - 1] \o seqs[k]
      <3>1. k \in 1 .. n /\ k # 1
        BY <2>1
      <3> QED
        BY <2>2, <3>1
    <2> QED
      BY <2>1, <2>3, <2>4 DEF Joins
  <1> QED
    BY <1>3, <1>4

(* The members of the first n lists *)
Flat(l, seqs, n, S) ==
    /\ l \in Seq(S)
    /\ \A x \in S : x \in ToSet(l) <=> \E i \in 1 .. n : x \in ToSet(seqs[i])

(* A joined list has the members of both. *)
LEMMA JoinMembers ==
    ASSUME NEW S, NEW a \in Seq(S), NEW b \in Seq(S)
    PROVE  a \o b \in Seq(S) /\ \A x : x \in ToSet(a \o b) <=> x \in ToSet(a) \/ x \in ToSet(b)
  <1>0. a \o b \in Seq(S)
    OBVIOUS
  <1>1. PICK c : c = a \o b /\ c \in Seq(S)
    BY <1>0
  <1>2. /\ Len(c) = Len(a) + Len(b)
        /\ \A i \in 1 .. Len(a) : c[i] = a[i]
        /\ \A i \in 1 .. Len(b) : c[Len(a) + i] = b[i]
    BY <1>1
  <1>3. ASSUME NEW x, x \in ToSet(c) PROVE x \in ToSet(a) \/ x \in ToSet(b)
    <2>1. PICK i \in 1 .. Len(c) : x = c[i]
      BY <1>3 DEF ToSet
    <2>2. CASE i \in 1 .. Len(a)
      BY <1>2, <2>1, <2>2 DEF ToSet
    <2>3. CASE i \notin 1 .. Len(a)
      <3>1. PICK j \in 1 .. Len(b) : i = Len(a) + j
        <4>1. i - Len(a) \in 1 .. Len(b) /\ i = Len(a) + (i - Len(a))
          BY <1>2, <2>3
        <4> QED
          BY <4>1
      <3> QED
        BY <1>2, <2>1, <3>1 DEF ToSet
    <2> QED
      BY <2>2, <2>3
  <1>4. ASSUME NEW x, x \in ToSet(a) PROVE x \in ToSet(c)
    <2>1. PICK i \in 1 .. Len(a) : x = a[i]
      BY <1>4 DEF ToSet
    <2>2. i \in 1 .. Len(c) /\ x = c[i]
      BY <1>2, <2>1
    <2> QED
      BY <2>2 DEF ToSet
  <1>5. ASSUME NEW x, x \in ToSet(b) PROVE x \in ToSet(c)
    <2>1. PICK i \in 1 .. Len(b) : x = b[i]
      BY <1>5 DEF ToSet
    <2>2. Len(a) + i \in 1 .. Len(c) /\ x = c[Len(a) + i]
      BY <1>2, <2>1
    <2> QED
      BY <2>2 DEF ToSet
  <1> QED
    BY <1>1, <1>3, <1>4, <1>5

(* A flattened list has the members of the lists. *)
LEMMA FlattenFacts ==
    ASSUME NEW S, NEW seqs \in Seq(Seq(S))
    PROVE  Flat(FlattenSeq(seqs), seqs, Len(seqs), S)
  <1> DEFINE N == Len(seqs)
  <1>1. N \in Nat /\ \A i \in 1 .. N : seqs[i] \in Seq(S)
    OBVIOUS
  <1>2. CASE N = 0
    <2>1. seqs = <<>>
      BY <1>2
    <2>2. FlattenSeq(seqs) = <<>>
      BY <2>1 DEF FlattenSeq
    <2>3. \A x : x \notin ToSet(<<>>)
      BY DEF ToSet
    <2> QED
      BY <1>2, <2>2, <2>3 DEF Flat
  <1>3. CASE N # 0
    <2>1. PICK g : Joins(g, seqs, N) /\ FlattenSeq(seqs) = g[N]
      BY <1>1, <1>3, FlattenJoins
    <2> DEFINE T == {m \in Nat : m + 1 <= N => Flat(g[m + 1], seqs, m + 1, S)}
    <2>2. 0 \in T
      <3>1. g[1] = seqs[1] /\ seqs[1] \in Seq(S) /\ 0 + 1 = 1
        BY <1>1, <1>3, <2>1 DEF Joins
      <3>2. Flat(g[1], seqs, 1, S)
        BY <3>1 DEF Flat
      <3> QED
        BY <3>2
    <2>3. ASSUME NEW m \in Nat, m \in T PROVE m + 1 \in T
      <3> SUFFICES ASSUME (m + 1) + 1 <= N
                   PROVE  Flat(g[(m + 1) + 1], seqs, (m + 1) + 1, S)
        OBVIOUS
      <3>1. Flat(g[m + 1], seqs, m + 1, S)
        BY <1>1, <2>3
      <3>2. (m + 1) + 1 \in 2 .. N /\ ((m + 1) + 1) - 1 = m + 1 /\ (m + 1) + 1 \in 1 .. N
        BY <1>1
      <3>0. PICK k, j : k = (m + 1) + 1 /\ j = m + 1
        OBVIOUS
      <3>20. g[k] = g[j] \o seqs[k]
        <4>1. k \in 2 .. N /\ j = k - 1
          BY <3>0, <3>2
        <4> QED
          BY <2>1, <4>1 DEF Joins
      <3>3. PICK a, b : /\ k = (m + 1) + 1 /\ j = m + 1 /\ a = g[j] /\ b = seqs[k]
                        /\ g[k] = a \o b
        BY <3>0, <3>20
      <3>4. a \in Seq(S) /\ b \in Seq(S)
        BY <1>1, <3>1, <3>2, <3>3 DEF Flat
      <3>5. a \o b \in Seq(S) /\ \A x : x \in ToSet(a \o b) <=> x \in ToSet(a) \/ x \in ToSet(b)
        BY <3>4, JoinMembers
      <3>6. \A x \in S : x \in ToSet(a) <=> \E i \in 1 .. j : x \in ToSet(seqs[i])
        BY <3>1, <3>3 DEF Flat
      <3>7. 1 .. k = (1 .. j) \union {k}
        BY <3>3
      <3>8. \A x \in S : x \in ToSet(g[k]) <=> \E i \in 1 .. k : x \in ToSet(seqs[i])
        BY <3>3, <3>5, <3>6, <3>7
      <3>9. g[k] \in Seq(S)
        BY <3>3, <3>5
      <3> QED
        BY <3>3, <3>8, <3>9 DEF Flat
    <2>4. Nat \subseteq T
      <3> HIDE DEF T
      <3> QED
        BY <2>2, <2>3, NaturalInduction
    <2>5. PICK m \in Nat : m + 1 = N
      <3>1. N - 1 \in Nat /\ (N - 1) + 1 = N
        BY <1>1, <1>3
      <3> QED
        BY <3>1
    <2>6. m \in T
      BY <2>4
    <2> QED
      BY <2>1, <2>5, <2>6
  <1> QED
    BY <1>2, <1>3

-----------------------------------------------------------------------------
(* Where control goes *)

Delta(i) == IF i.op = "if" THEN 1 ELSE IF i.op = "end" THEN -1 ELSE 0

(* q is the first instruction of ops after p at the level of p in code b. *)
Matches(b, p, q, ops) ==
    /\ q \in (p + 1) .. Len(b) /\ b[q].op \in ops
    /\ \E d \in [(p + 1) .. q -> Nat] :
          /\ d[p + 1] = 0 /\ d[q] = 0
          /\ \A r \in (p + 1) .. (q - 1) :
                /\ d[r + 1] = d[r] + Delta(b[r])
                /\ ~(b[r].op \in ops /\ d[r] = 0)

(* Counting one instruction more *)
LEMMA CountNext ==
    ASSUME NEW o, NEW a \in Int, NEW m \in Int, a <= m
    PROVE  /\ Count(o, a, m) \in Nat
           /\ Count(o, a, a - 1) = 0
           /\ Count(o, a, m) = Count(o, a, m - 1) + (IF body[m].op = o THEN 1 ELSE 0)
  <1> DEFINE H(k) == {q \in a .. k : body[q].op = o}
  <1>1. \A k \in Int : IsFiniteSet(H(k)) /\ Cardinality(H(k)) \in Nat
    <2> SUFFICES ASSUME NEW k \in Int PROVE IsFiniteSet(H(k)) /\ Cardinality(H(k)) \in Nat
      OBVIOUS
    <2>1. IsFiniteSet(a .. k)
      BY FS_Interval
    <2>2. H(k) \subseteq a .. k
      OBVIOUS
    <2>3. IsFiniteSet(H(k))
      BY <2>1, <2>2, FS_Subset
    <2> QED
      BY <2>3, FS_CardinalityType
  <1>2. \A k \in Int : Count(o, a, k) = Cardinality(H(k))
    BY DEF Count
  <1>3. H(a - 1) = {}
    OBVIOUS
  <1>4. Cardinality({}) = 0
    BY FS_EmptySet
  <1>5. CASE body[m].op = o
    <2>1. H(m) = H(m - 1) \union {m} /\ m \notin H(m - 1)
      BY <1>5
    <2>2. Cardinality(H(m - 1) \union {m}) = Cardinality(H(m - 1)) + 1
      <3> HIDE DEF H
      <3>0. m - 1 \in Int
        OBVIOUS
      <3>1. PICK U : U = H(m - 1) /\ IsFiniteSet(U) /\ m \notin U
        BY <1>1, <2>1, <3>0
      <3>2. Cardinality(U \union {m}) = Cardinality(U) + 1
        BY <3>1, FS_AddElement
      <3> QED
        BY <3>1, <3>2
    <2> HIDE DEF H
    <2>3. m - 1 \in Int /\ a - 1 \in Int
      OBVIOUS
    <2>4. Count(o, a, a - 1) = 0
      BY <1>2, <1>3, <1>4, <2>3
    <2>5. Count(o, a, m) = Cardinality(H(m)) /\ Count(o, a, m - 1) = Cardinality(H(m - 1))
      BY <1>2, <2>3
    <2>6. Count(o, a, m) = Count(o, a, m - 1) + 1
      BY <2>1, <2>2, <2>5
    <2>7. Count(o, a, m) \in Nat
      BY <1>1, <2>5
    <2> QED
      BY <1>5, <2>4, <2>6, <2>7
  <1>6. CASE body[m].op # o
    <2>1. H(m) = H(m - 1)
      BY <1>6
    <2> HIDE DEF H
    <2> QED
      BY <1>1, <1>2, <1>3, <1>4, <1>6, <2>1
  <1> QED
    BY <1>5, <1>6

(* Nothing is counted in an empty range. *)
LEMMA CountNone ==
    ASSUME NEW o, NEW a \in Int
    PROVE  Count(o, a, a - 1) = 0
  <1>1. a <= a
    OBVIOUS
  <1> QED
    BY <1>1, CountNext

(* The depth of a match is the number of ifs that are open. *)
LEMMA DepthIsCount ==
    ASSUME NEW p \in Nat, NEW q \in Nat, p + 1 <= q, NEW d \in [(p + 1) .. q -> Nat],
           d[p + 1] = 0, \A r \in (p + 1) .. (q - 1) : d[r + 1] = d[r] + Delta(body[r]),
           NEW r \in (p + 1) .. q
    PROVE  SameLevel(p, r) <=> d[r] = 0
  <1> DEFINE I(k) == Count("if", p + 1, k - 1)
             E(k) == Count("end", p + 1, k - 1)
             T == {m \in Nat : (p + 1) + m <= q =>
                      /\ I((p + 1) + m) \in Nat /\ E((p + 1) + m) \in Nat
                      /\ I((p + 1) + m) = E((p + 1) + m) + d[(p + 1) + m]}
  <1>1. 0 \in T
    <2>0. PICK a \in Int : a = p + 1
      OBVIOUS
    <2>1. I(a) = 0 /\ E(a) = 0 /\ (p + 1) + 0 = a
      <3>1. Count("if", a, a - 1) = 0 /\ Count("end", a, a - 1) = 0
        BY CountNone
      <3> QED
        BY <2>0, <3>1
    <2>2. d[a] = 0
      BY <2>0
    <2>3. PICK z : z = (p + 1) + 0
      OBVIOUS
    <2>4. I(z) = 0 /\ E(z) = 0 /\ d[z] = 0
      BY <2>0, <2>1, <2>2, <2>3
    <2> HIDE DEF I, E
    <2> QED
      BY <2>3, <2>4
  <1>2. ASSUME NEW m \in Nat, m \in T PROVE m + 1 \in T
    <2> SUFFICES ASSUME (p + 1) + (m + 1) <= q
                 PROVE  /\ I((p + 1) + (m + 1)) \in Nat /\ E((p + 1) + (m + 1)) \in Nat
                        /\ I((p + 1) + (m + 1)) = E((p + 1) + (m + 1)) + d[(p + 1) + (m + 1)]
      OBVIOUS
    <2>1. PICK k \in Nat : k = (p + 1) + m /\ k + 1 = (p + 1) + (m + 1) /\ k \in (p + 1) .. (q - 1)
      OBVIOUS
    <2>10. PICK z : z = (p + 1) + (m + 1) /\ z = k + 1
      BY <2>1
    <2>2. I(k) \in Nat /\ E(k) \in Nat /\ I(k) = E(k) + d[k]
      BY <1>2, <2>1
    <2>3. d[k + 1] = d[k] + Delta(body[k])
      BY <2>1
    <2>4. /\ I(k + 1) \in Nat /\ E(k + 1) \in Nat
          /\ I(k + 1) = I(k) + (IF body[k].op = "if" THEN 1 ELSE 0)
          /\ E(k + 1) = E(k) + (IF body[k].op = "end" THEN 1 ELSE 0)
      <3>1. p + 1 \in Int /\ k \in Int /\ p + 1 <= k /\ (k + 1) - 1 = k
        BY <2>1
      <3> QED
        BY <3>1, CountNext
    <2>5. d[k] \in Nat
      BY <2>1
    <2>6. /\ I(z) \in Nat /\ E(z) \in Nat
          /\ I(z) = I(k) + (IF body[k].op = "if" THEN 1 ELSE 0)
          /\ E(z) = E(k) + (IF body[k].op = "end" THEN 1 ELSE 0)
          /\ d[z] = d[k] + Delta(body[k])
      BY <2>3, <2>4, <2>10
    <2> HIDE DEF I, E
    <2>7. I(z) = E(z) + d[z]
      BY <2>2, <2>5, <2>6 DEF Delta
    <2> QED
      BY <2>6, <2>7, <2>10
  <1>3. Nat \subseteq T
    <2> HIDE DEF T
    <2> QED
      BY <1>1, <1>2, NaturalInduction
  <1>4. PICK m \in Nat : r = (p + 1) + m
    <2>1. r - (p + 1) \in Nat /\ r = (p + 1) + (r - (p + 1))
      OBVIOUS
    <2> QED
      BY <2>1
  <1>5. I(r) \in Nat /\ E(r) \in Nat /\ I(r) = E(r) + d[r]
    <2>1. m \in T
      BY <1>3
    <2> QED
      BY <1>4, <2>1
  <1>6. SameLevel(p, r) <=> I(r) = E(r)
    BY DEF SameLevel
  <1> HIDE DEF I, E
  <1> QED
    BY <1>5, <1>6

(* A match is what the machine finds. *)
LEMMA MatchIsNext ==
    ASSUME Len(body) \in Nat, NEW p \in Nat, NEW ops, NEW q, Matches(body, p, q, ops)
    PROVE  NextBranch(p, ops) = q
  <1> DEFINE Is(x) == /\ body[x].op \in ops /\ SameLevel(p, x)
                      /\ \A r \in (p + 1) .. (x - 1) : ~(body[r].op \in ops /\ SameLevel(p, r))
  <1>1. q \in (p + 1) .. Len(body) /\ body[q].op \in ops
    BY DEF Matches
  <1>2. PICK d \in [(p + 1) .. q -> Nat] :
              /\ d[p + 1] = 0 /\ d[q] = 0
              /\ \A r \in (p + 1) .. (q - 1) :
                    d[r + 1] = d[r] + Delta(body[r]) /\ ~(body[r].op \in ops /\ d[r] = 0)
    BY DEF Matches
  <1>3. \A r \in (p + 1) .. q : SameLevel(p, r) <=> d[r] = 0
    <2> SUFFICES ASSUME NEW r \in (p + 1) .. q PROVE SameLevel(p, r) <=> d[r] = 0
      OBVIOUS
    <2>1. q \in Nat /\ p + 1 <= q
      BY <1>1
    <2>2. d[p + 1] = 0 /\ \A x \in (p + 1) .. (q - 1) : d[x + 1] = d[x] + Delta(body[x])
      BY <1>2
    <2> QED
      BY <2>1, <2>2, DepthIsCount
  <1>4. Is(q)
    BY <1>1, <1>2, <1>3
  <1>5. ASSUME NEW x \in (p + 1) .. Len(body), Is(x) PROVE x = q
    <2>1. CASE x < q
      <3>1. x \in (p + 1) .. (q - 1)
        BY <1>1, <2>1
      <3> QED
        BY <1>4, <1>5, <3>1
    <2>2. CASE q < x
      <3>1. q \in (p + 1) .. (x - 1)
        BY <1>1, <2>2
      <3> QED
        BY <1>4, <1>5, <3>1
    <2> QED
      BY <1>1, <2>1, <2>2
  <1>6. NextBranch(p, ops) = CHOOSE x \in (p + 1) .. Len(body) : Is(x)
    BY DEF NextBranch
  <1> HIDE DEF Is
  <1> QED
    BY <1>1, <1>4, <1>5, <1>6

-----------------------------------------------------------------------------
(* Code within code *)

(* b stands in s after the first o instructions. *)
Placed(b, s, o) ==
    /\ Len(b) \in Nat /\ Len(s) \in Nat /\ o \in Nat /\ o + Len(b) <= Len(s)
    /\ \A i \in 1 .. Len(b) : s[o + i] = b[i]

(* A match in code that is part of other code is a match there. *)
LEMMA MatchPlaced ==
    ASSUME NEW b, NEW s, NEW o, Placed(b, s, o), NEW p \in Nat, NEW q, NEW ops,
           Matches(b, p, q, ops)
    PROVE  Matches(s, o + p, o + q, ops)
  <1>1. /\ Len(b) \in Nat /\ Len(s) \in Nat /\ o \in Nat /\ o + Len(b) <= Len(s)
        /\ \A i \in 1 .. Len(b) : s[o + i] = b[i]
    BY DEF Placed
  <1>2. q \in (p + 1) .. Len(b) /\ b[q].op \in ops
    BY DEF Matches
  <1>3. PICK d \in [(p + 1) .. q -> Nat] :
              /\ d[p + 1] = 0 /\ d[q] = 0
              /\ \A r \in (p + 1) .. (q - 1) :
                    d[r + 1] = d[r] + Delta(b[r]) /\ ~(b[r].op \in ops /\ d[r] = 0)
    BY DEF Matches
  <1>4. PICK u \in Nat, v \in Nat : u = o + p /\ v = o + q
    <2>1. o + p \in Nat /\ o + q \in Nat
      BY <1>1, <1>2
    <2> QED
      BY <2>1
  <1>5. v \in (u + 1) .. Len(s) /\ s[v].op \in ops
    BY <1>1, <1>2, <1>4
  <1> DEFINE f == [r \in (u + 1) .. v |-> d[r - o]]
  <1>6. \A r \in (u + 1) .. v : r - o \in (p + 1) .. q /\ o + (r - o) = r
    BY <1>1, <1>2, <1>4
  <1>7. f \in [(u + 1) .. v -> Nat]
    BY <1>3, <1>6
  <1>8. f[u + 1] = 0 /\ f[v] = 0
    BY <1>1, <1>2, <1>3, <1>4
  <1>9. ASSUME NEW r \in (u + 1) .. (v - 1)
        PROVE  f[r + 1] = f[r] + Delta(s[r]) /\ ~(s[r].op \in ops /\ f[r] = 0)
    <2>00. r \in Int /\ q \in Int /\ q <= Len(b)
      BY <1>2
    <2>0. /\ r - o \in (p + 1) .. (q - 1) /\ r - o \in 1 .. Len(b) /\ r = o + (r - o)
      BY <1>1, <1>4, <2>00
    <2>1. PICK t : t = r - o /\ t \in (p + 1) .. (q - 1) /\ t \in 1 .. Len(b) /\ r = o + t
      BY <2>0
    <2>2. s[r] = b[t]
      BY <1>1, <2>1
    <2>3. f[r] = d[t] /\ f[r + 1] = d[t + 1]
      BY <1>1, <1>2, <1>4, <2>1
    <2> HIDE DEF f
    <2> QED
      BY <1>3, <2>1, <2>2, <2>3
  <1> HIDE DEF f
  <1>10. Matches(s, u, v, ops)
    BY <1>5, <1>7, <1>8, <1>9 DEF Matches
  <1> QED
    BY <1>4, <1>10

(* Code that leaves the level it starts at only to come back to it: its      *)
(* elses and ends belong to its own ifs.                                     *)
IsBlock(b) ==
    /\ Len(b) \in Nat
    /\ \E d \in [1 .. Len(b) + 1 -> Nat] :
          /\ d[1] = 0 /\ d[Len(b) + 1] = 0
          /\ \A r \in 1 .. Len(b) :
                /\ d[r + 1] = d[r] + Delta(b[r])
                /\ b[r].op \in {"else", "end"} => d[r] # 0

(* Control skips a block. *)
LEMMA BlockSkipped ==
    ASSUME NEW b, IsBlock(b), NEW s, NEW o \in Nat, Placed(b, s, o), o # 0,
           NEW ops \in {{"else", "end"}, {"end"}},
           (o + Len(b)) + 1 <= Len(s), s[(o + Len(b)) + 1].op \in ops
    PROVE  Matches(s, o, (o + Len(b)) + 1, ops)
  <1>1. /\ Len(b) \in Nat /\ Len(s) \in Nat /\ \A i \in 1 .. Len(b) : s[o + i] = b[i]
    BY DEF Placed
  <1>2. PICK d \in [1 .. Len(b) + 1 -> Nat] :
              /\ d[1] = 0 /\ d[Len(b) + 1] = 0
              /\ \A r \in 1 .. Len(b) :
                    /\ d[r + 1] = d[r] + Delta(b[r])
                    /\ b[r].op \in {"else", "end"} => d[r] # 0
    BY DEF IsBlock
  <1>3. PICK q \in Nat : q = (o + Len(b)) + 1
    BY <1>1
  <1> DEFINE f == [r \in (o + 1) .. q |-> d[r - o]]
  <1>4. f \in [(o + 1) .. q -> Nat]
    BY <1>1, <1>2, <1>3
  <1>5. f[o + 1] = 0 /\ f[q] = 0
    BY <1>1, <1>2, <1>3
  <1>6. ASSUME NEW r \in (o + 1) .. (q - 1)
        PROVE  f[r + 1] = f[r] + Delta(s[r]) /\ ~(s[r].op \in ops /\ f[r] = 0)
    <2>1. PICK t : t = r - o /\ t \in 1 .. Len(b) /\ r = o + t
      BY <1>1, <1>3
    <2>2. s[r] = b[t]
      BY <1>1, <2>1
    <2>3. f[r] = d[t] /\ f[r + 1] = d[t + 1]
      BY <1>1, <1>3, <2>1
    <2> HIDE DEF f
    <2> QED
      BY <1>2, <2>1, <2>2, <2>3
  <1>7. q \in (o + 1) .. Len(s) /\ s[q].op \in ops
    BY <1>1, <1>3
  <1> HIDE DEF f
  <1> QED
    BY <1>3, <1>4, <1>5, <1>6, <1>7 DEF Matches

-----------------------------------------------------------------------------
(* What code does, by the calls it can have made at each instruction *)

(* What createDispatchFunction compares code with *)
Regids == {Receiver} \union {string_to_regid(CodeOrder[k]) : k \in DOMAIN CodeOrder}

(* The conditions of the ifs around handlers *)
Conds == ({"action"} \X Actions) \union ({"code"} \X Regids)

(* What code does that was entered with the conditions H true: R[i] is the   *)
(* set of the calls that can have been made when it is at i, and W has its   *)
(* outcomes.                                                                 *)
Follows(R, b, i, t, H, W) ==
    /\ b[i].op \in {"if", "else", "end", "call", "assert"}
    /\ b[i].op = "if" =>
          /\ b[i].arg \in Conds
          /\ b[i].arg \in H => t \in R[i + 1]
          /\ b[i].arg \notin H =>
                \E q : Matches(b, i, q, {"else", "end"}) /\ t \in R[q + 1]
    /\ b[i].op = "else" => \E q : Matches(b, i, q, {"end"}) /\ t \in R[q + 1]
    /\ b[i].op = "end" => t \in R[i + 1]
    /\ b[i].op = "call" =>
          \E f \in STRING \ Hooks : b[i].arg = <<f>> /\ Append(t, f) \in R[i + 1]
    /\ b[i].op = "assert" => b[i].arg = <<"no_action">> /\ <<"no_action", t>> \in W

Runs(R, b, H, W) ==
    /\ R \in [1 .. Len(b) + 1 -> SUBSET Seq(STRING)]
    /\ <<>> \in R[1]
    /\ \A i \in 1 .. Len(b) : \A t \in R[i] : Follows(R, b, i, t, H, W)
    /\ \A t \in R[Len(b) + 1] : <<"returned", t>> \in W

Does(b, H, W) == IsBlock(b) /\ \E R : Runs(R, b, H, W)

(* No code *)
LEMMA Nothing ==
    ASSUME NEW b, Len(b) = 0, NEW H, NEW W, <<"returned", <<>>>> \in W
    PROVE  Does(b, H, W)
  <1>1. IsBlock(b)
    <2> DEFINE d == [i \in 1 .. Len(b) + 1 |-> 0]
    <2>1. d \in [1 .. Len(b) + 1 -> Nat] /\ d[1] = 0 /\ d[Len(b) + 1] = 0
      OBVIOUS
    <2> HIDE DEF d
    <2> QED
      BY <2>1 DEF IsBlock
  <1> DEFINE R == [i \in 1 .. Len(b) + 1 |-> {<<>>}]
  <1>2. R \in [1 .. Len(b) + 1 -> SUBSET Seq(STRING)] /\ R[1] = {<<>>} /\ R[Len(b) + 1] = {<<>>}
    OBVIOUS
  <1> HIDE DEF R
  <1>3. Runs(R, b, H, W)
    BY <1>2 DEF Runs
  <1> QED
    BY <1>1, <1>3 DEF Does

(* The call of a handler *)
LEMMA OneCall ==
    ASSUME NEW b, Len(b) = 1, NEW f \in STRING \ Hooks, b[1] = Call(f),
           NEW H, NEW W, <<"returned", <<f>>>> \in W
    PROVE  Does(b, H, W)
  <1>0. b[1].op = "call" /\ b[1].arg = <<f>>
    BY DEF Call
  <1>1. IsBlock(b)
    <2> DEFINE d == [i \in 1 .. 2 |-> 0]
    <2>1. d \in [1 .. 2 -> Nat] /\ d[1] = 0 /\ d[2] = 0
      OBVIOUS
    <2>2. Delta(b[1]) = 0
      BY <1>0 DEF Delta
    <2> HIDE DEF d
    <2> QED
      BY <1>0, <2>1, <2>2 DEF IsBlock
  <1> DEFINE R == [i \in 1 .. 2 |-> IF i = 1 THEN {<<>>} ELSE {<<f>>}]
  <1>2. R \in [1 .. 2 -> SUBSET Seq(STRING)] /\ R[1] = {<<>>} /\ R[2] = {<<f>>}
    OBVIOUS
  <1> HIDE DEF R
  <1>20. Append(<<>>, f) = <<f>>
    OBVIOUS
  <1>3. Follows(R, b, 1, <<>>, H, W)
    BY <1>0, <1>2, <1>20 DEF Follows
  <1>4. Runs(R, b, H, W)
    BY <1>2, <1>3 DEF Runs
  <1> QED
    BY <1>1, <1>4 DEF Does

(* The refusal of an unknown action *)
LEMMA OneAssert ==
    ASSUME NEW b, Len(b) = 1, b[1] = AssertCode("no_action"),
           NEW H, NEW W, <<"no_action", <<>>>> \in W
    PROVE  Does(b, H, W)
  <1>0. b[1].op = "assert" /\ b[1].arg = <<"no_action">>
    BY DEF AssertCode
  <1>1. IsBlock(b)
    <2> DEFINE d == [i \in 1 .. 2 |-> 0]
    <2>1. d \in [1 .. 2 -> Nat] /\ d[1] = 0 /\ d[2] = 0
      OBVIOUS
    <2>2. Delta(b[1]) = 0
      BY <1>0 DEF Delta
    <2> HIDE DEF d
    <2> QED
      BY <1>0, <2>1, <2>2 DEF IsBlock
  <1> DEFINE R == [i \in 1 .. 2 |-> IF i = 1 THEN {<<>>} ELSE {}]
  <1>2. R \in [1 .. 2 -> SUBSET Seq(STRING)] /\ R[1] = {<<>>} /\ R[2] = {}
    OBVIOUS
  <1> HIDE DEF R
  <1>3. Follows(R, b, 1, <<>>, H, W)
    BY <1>0, <1>2 DEF Follows
  <1>4. Runs(R, b, H, W)
    BY <1>2, <1>3 DEF Runs
  <1> QED
    BY <1>1, <1>4 DEF Does

(* Code does the same where it is part of other code. *)
LEMMA FollowsPlaced ==
    ASSUME NEW b, NEW s, NEW o \in Nat, Placed(b, s, o), NEW H, NEW V, NEW W, NEW R, NEW Q,
           NEW i \in 1 .. Len(b), NEW t, Follows(R, b, i, t, H, V),
           \A j \in 2 .. Len(b) + 1 : R[j] = Q[o + j],
           <<"no_action", t>> \in V => <<"no_action", t>> \in W
    PROVE  Follows(Q, s, o + i, t, H, W)
  <1>1. Len(b) \in Nat /\ s[o + i] = b[i] /\ i \in Nat /\ i \in 1 .. Len(b)
    BY DEF Placed
  <1>2. PICK k : k = o + i
    OBVIOUS
  <1>3. i + 1 \in 2 .. Len(b) + 1 /\ o + (i + 1) = k + 1
    BY <1>1, <1>2
  <1>4. R[i + 1] = Q[k + 1]
    BY <1>3
  <1>5. ASSUME NEW ops, NEW q, Matches(b, i, q, ops), t \in R[q + 1]
        PROVE  \E r : Matches(s, k, r, ops) /\ t \in Q[r + 1]
    <2>1. q \in (i + 1) .. Len(b)
      BY <1>5 DEF Matches
    <2>2. PICK r : r = o + q
      OBVIOUS
    <2>3. q + 1 \in 2 .. Len(b) + 1 /\ o + (q + 1) = r + 1
      BY <1>1, <2>1, <2>2
    <2>4. Q[r + 1] = R[q + 1]
      BY <2>3
    <2>5. Matches(s, o + i, o + q, ops)
      BY <1>1, <1>5, MatchPlaced
    <2> QED
      BY <1>2, <1>5, <2>2, <2>4, <2>5
  <1>6. Follows(Q, s, k, t, H, W)
    BY <1>1, <1>2, <1>4, <1>5 DEF Follows
  <1> QED
    BY <1>2, <1>6

(* s is: if c, then b, end. *)
IsOnlyIf(s, c, b) ==
    /\ Len(b) \in Nat /\ Len(s) = Len(b) + 2 /\ s[1] = If(c) /\ Placed(b, s, 1)
    /\ s[Len(b) + 2] = End

(* s is: if c, then b, else e, end. *)
IsBranch(s, c, b, e) ==
    /\ Len(b) \in Nat /\ Len(e) \in Nat /\ Len(s) = Len(b) + Len(e) + 3
    /\ s[1] = If(c) /\ Placed(b, s, 1)
    /\ s[Len(b) + 2] = Else /\ Placed(e, s, Len(b) + 2)
    /\ s[Len(b) + Len(e) + 3] = End

(* An if without else is a block. *)
LEMMA OnlyIfIsBlock ==
    ASSUME NEW s, NEW c, NEW b, IsOnlyIf(s, c, b), IsBlock(b)
    PROVE  IsBlock(s)
  <1>1. PICK n \in Nat : n = Len(b) /\ Len(s) = n + 2
    BY DEF IsOnlyIf
  <1>2. PICK d \in [1 .. n + 1 -> Nat] :
              /\ d[1] = 0 /\ d[n + 1] = 0
              /\ \A r \in 1 .. n :
                    /\ d[r + 1] = d[r] + Delta(b[r])
                    /\ b[r].op \in {"else", "end"} => d[r] # 0
    BY <1>1 DEF IsBlock
  <1>3. /\ s[1].op = "if" /\ s[n + 2].op = "end" /\ \A i \in 1 .. n : s[1 + i] = b[i]
    BY <1>1 DEF IsOnlyIf, Placed, If, End
  <1> DEFINE f == [r \in 1 .. n + 3 |-> IF r \in 2 .. n + 2 THEN d[r - 1] + 1 ELSE 0]
  <1>4. \A r \in 2 .. n + 2 : r - 1 \in 1 .. n + 1 /\ d[r - 1] \in Nat
    OBVIOUS
  <1>5. f \in [1 .. n + 3 -> Nat] /\ f[1] = 0 /\ f[n + 3] = 0
    BY <1>4
  <1>6. ASSUME NEW r \in 1 .. n + 2
        PROVE  f[r + 1] = f[r] + Delta(s[r]) /\ (s[r].op \in {"else", "end"} => f[r] # 0)
    <2>1. CASE r = 1
      <3>1. f[1] = 0 /\ f[2] = 1
        BY <1>2
      <3> HIDE DEF f
      <3> QED
        BY <1>3, <2>1, <3>1 DEF Delta
    <2>2. CASE r = n + 2
      <3>1. f[n + 2] = 1 /\ f[n + 3] = 0 /\ (n + 2) + 1 = n + 3
        BY <1>2
      <3> HIDE DEF f
      <3> QED
        BY <1>3, <2>2, <3>1 DEF Delta
    <2>3. CASE r \in 2 .. n + 1
      <3>0. r - 1 \in 1 .. n /\ 1 + (r - 1) = r
        BY <2>3
      <3>1. PICK i \in 1 .. n : r = i + 1 /\ r = 1 + i
        BY <3>0
      <3>2. f[r] = d[i] + 1 /\ f[r + 1] = d[i + 1] + 1 /\ d[i] \in Nat
        BY <3>1
      <3>3. s[r] = b[i]
        BY <1>3, <3>1
      <3>4. d[i + 1] = d[i] + Delta(b[i]) /\ Delta(b[i]) \in Int
        BY <1>2, <3>1 DEF Delta
      <3>5. PICK x, y, z : x = d[i] /\ y = d[i + 1] /\ z = Delta(b[i])
        OBVIOUS
      <3> HIDE DEF f
      <3>6. x \in Nat /\ z \in Int /\ y = x + z /\ f[r] = x + 1 /\ f[r + 1] = y + 1
        BY <3>2, <3>4, <3>5
      <3>7. f[r + 1] = f[r] + z /\ f[r] # 0
        BY <3>6
      <3> QED
        BY <3>3, <3>5, <3>7
    <2> QED
      BY <2>1, <2>2, <2>3
  <1> HIDE DEF f
  <1>7. Len(s) + 1 = n + 3 /\ Len(s) \in Nat
    BY <1>1
  <1> QED
    BY <1>1, <1>5, <1>6, <1>7 DEF IsBlock

(* An if with an else is a block. *)
LEMMA BranchIsBlock ==
    ASSUME NEW s, NEW c, NEW b, NEW e, IsBranch(s, c, b, e), IsBlock(b), IsBlock(e)
    PROVE  IsBlock(s)
  <1>1. PICK n \in Nat, m \in Nat : n = Len(b) /\ m = Len(e) /\ Len(s) = n + m + 3
    BY DEF IsBranch
  <1>2. PICK d \in [1 .. n + 1 -> Nat] :
              /\ d[1] = 0 /\ d[n + 1] = 0
              /\ \A r \in 1 .. n :
                    /\ d[r + 1] = d[r] + Delta(b[r])
                    /\ b[r].op \in {"else", "end"} => d[r] # 0
    BY <1>1 DEF IsBlock
  <1>3. PICK g \in [1 .. m + 1 -> Nat] :
              /\ g[1] = 0 /\ g[m + 1] = 0
              /\ \A r \in 1 .. m :
                    /\ g[r + 1] = g[r] + Delta(e[r])
                    /\ e[r].op \in {"else", "end"} => g[r] # 0
    BY <1>1 DEF IsBlock
  <1>4. /\ s[1].op = "if" /\ s[n + 2].op = "else" /\ s[n + m + 3].op = "end"
        /\ \A i \in 1 .. n : s[1 + i] = b[i]
        /\ \A i \in 1 .. m : s[(n + 2) + i] = e[i]
    BY <1>1 DEF IsBranch, Placed, If, Else, End
  <1> DEFINE f == [r \in 1 .. n + m + 4 |->
                     IF r \in 2 .. n + 2 THEN d[r - 1] + 1
                     ELSE IF r \in n + 3 .. n + m + 3 THEN g[r - (n + 2)] + 1 ELSE 0]
  <1>5. /\ \A r \in 2 .. n + 2 : r - 1 \in 1 .. n + 1 /\ d[r - 1] \in Nat
        /\ \A r \in n + 3 .. n + m + 3 : r - (n + 2) \in 1 .. m + 1 /\ g[r - (n + 2)] \in Nat
    OBVIOUS
  <1>6. f \in [1 .. n + m + 4 -> Nat] /\ f[1] = 0 /\ f[n + m + 4] = 0
    BY <1>5
  <1>7. ASSUME NEW r \in 1 .. n + m + 3
        PROVE  f[r + 1] = f[r] + Delta(s[r]) /\ (s[r].op \in {"else", "end"} => f[r] # 0)
    <2>1. CASE r = 1
      <3>1. f[1] = 0 /\ f[2] = 1
        BY <1>2
      <3> HIDE DEF f
      <3> QED
        BY <1>4, <2>1, <3>1 DEF Delta
    <2>2. CASE r = n + m + 3
      <3>1. f[n + m + 3] = 1 /\ f[n + m + 4] = 0 /\ (n + m + 3) + 1 = n + m + 4
        BY <1>3
      <3> HIDE DEF f
      <3> QED
        BY <1>4, <2>2, <3>1 DEF Delta
    <2>3. CASE r \in 2 .. n + 1
      <3>0. r - 1 \in 1 .. n /\ 1 + (r - 1) = r
        BY <2>3
      <3>1. PICK i \in 1 .. n : r = i + 1 /\ r = 1 + i
        BY <3>0
      <3>2. f[r] = d[i] + 1 /\ f[r + 1] = d[i + 1] + 1 /\ d[i] \in Nat
        BY <3>1
      <3>3. s[r] = b[i]
        BY <1>4, <3>1
      <3>4. d[i + 1] = d[i] + Delta(b[i]) /\ Delta(b[i]) \in Int
        BY <1>2, <3>1 DEF Delta
      <3>5. PICK x, y, z : x = d[i] /\ y = d[i + 1] /\ z = Delta(b[i])
        OBVIOUS
      <3> HIDE DEF f
      <3>6. x \in Nat /\ z \in Int /\ y = x + z /\ f[r] = x + 1 /\ f[r + 1] = y + 1
        BY <3>2, <3>4, <3>5
      <3>7. f[r + 1] = f[r] + z /\ f[r] # 0
        BY <3>6
      <3> QED
        BY <3>3, <3>5, <3>7
    <2>4. CASE r = n + 2
      <3>1. f[n + 2] = 1 /\ f[n + 3] = 1 /\ (n + 2) + 1 = n + 3
        BY <1>2, <1>3
      <3> HIDE DEF f
      <3> QED
        BY <1>4, <2>4, <3>1 DEF Delta
    <2>5. CASE r \in n + 3 .. n + m + 2
      <3>0. r - (n + 2) \in 1 .. m /\ (n + 2) + (r - (n + 2)) = r
        BY <2>5
      <3>1. PICK i \in 1 .. m : r = (n + 2) + i
        BY <3>0
      <3>2. f[r] = g[i] + 1 /\ f[r + 1] = g[i + 1] + 1 /\ g[i] \in Nat
        BY <3>1
      <3>3. s[r] = e[i]
        BY <1>4, <3>1
      <3>4. g[i + 1] = g[i] + Delta(e[i]) /\ Delta(e[i]) \in Int
        BY <1>3, <3>1 DEF Delta
      <3>5. PICK x, y, z : x = g[i] /\ y = g[i + 1] /\ z = Delta(e[i])
        OBVIOUS
      <3> HIDE DEF f
      <3>6. x \in Nat /\ z \in Int /\ y = x + z /\ f[r] = x + 1 /\ f[r + 1] = y + 1
        BY <3>2, <3>4, <3>5
      <3>7. f[r + 1] = f[r] + z /\ f[r] # 0
        BY <3>6
      <3> QED
        BY <3>3, <3>5, <3>7
    <2> QED
      BY <2>1, <2>2, <2>3, <2>4, <2>5
  <1> HIDE DEF f
  <1>8. Len(s) + 1 = n + m + 4 /\ Len(s) \in Nat
    BY <1>1
  <1> QED
    BY <1>1, <1>6, <1>7, <1>8 DEF IsBlock

(* An if without else does what its body does, or nothing. *)
LEMMA OnlyIf ==
    ASSUME NEW s, NEW c \in Conds, NEW b, IsOnlyIf(s, c, b), NEW H, NEW V, NEW W, Does(b, H, V),
           c \in H => V \subseteq W, c \notin H => <<"returned", <<>>>> \in W
    PROVE  Does(s, H, W)
  <1>1. PICK n \in Nat : n = Len(b) /\ Len(s) = n + 2
    BY DEF IsOnlyIf
  <1>2. IsBlock(b) /\ IsBlock(s)
    BY OnlyIfIsBlock DEF Does
  <1>3. PICK R : Runs(R, b, H, V)
    BY DEF Does
  <1>4. /\ s[1].op = "if" /\ s[1].arg = c /\ s[n + 2].op = "end" /\ Placed(b, s, 1)
    BY <1>1 DEF IsOnlyIf, If, End
  <1>5. /\ R \in [1 .. n + 1 -> SUBSET Seq(STRING)] /\ <<>> \in R[1]
        /\ \A i \in 1 .. n : \A t \in R[i] : Follows(R, b, i, t, H, V)
        /\ \A t \in R[n + 1] : <<"returned", t>> \in V
    BY <1>1, <1>3 DEF Runs
  <1> DEFINE Q == [i \in 1 .. n + 3 |->
                     IF i = 1 THEN {<<>>}
                     ELSE IF i \in 2 .. n + 2 THEN IF c \in H THEN R[i - 1] ELSE {}
                     ELSE {t \in Seq(STRING) : <<"returned", t>> \in W}]
  <1>6. Q \in [1 .. n + 3 -> SUBSET Seq(STRING)]
    <2>1. \A i \in 2 .. n + 2 : R[i - 1] \in SUBSET Seq(STRING)
      <3> SUFFICES ASSUME NEW i \in 2 .. n + 2 PROVE R[i - 1] \in SUBSET Seq(STRING)
        OBVIOUS
      <3>1. i - 1 \in 1 .. n + 1
        OBVIOUS
      <3> QED
        BY <1>5, <3>1
    <2>2. {<<>>} \in SUBSET Seq(STRING)
      OBVIOUS
    <2> QED
      BY <2>1, <2>2
  <1>7. /\ Q[1] = {<<>>}
        /\ \A i \in 2 .. n + 2 : Q[i] = IF c \in H THEN R[i - 1] ELSE {}
        /\ \A t \in Seq(STRING) : <<"returned", t>> \in W => t \in Q[n + 3]
        /\ \A t \in Q[n + 3] : <<"returned", t>> \in W
    OBVIOUS
  <1> HIDE DEF Q
  <1>8. ASSUME NEW i \in 1 .. n + 2, NEW t \in Q[i] PROVE Follows(Q, s, i, t, H, W)
    <2>1. CASE i = 1
      <3>0. <<>> \in Seq(STRING)
        OBVIOUS
      <3>1. t = <<>> /\ t \in Seq(STRING)
        BY <1>7, <2>1, <3>0
      <3>2. c \in H => t \in Q[2]
        <4>1. 2 \in 2 .. n + 2 /\ 2 - 1 = 1
          OBVIOUS
        <4> QED
          BY <1>5, <1>7, <3>1, <4>1
      <3>3. c \notin H => t \in Q[n + 3]
        BY <1>7, <3>1
      <3>4. Matches(s, 1, n + 2, {"else", "end"})
        <4>1. (1 + Len(b)) + 1 = n + 2 /\ n + 2 <= Len(s)
          BY <1>1
        <4>2. s[(1 + Len(b)) + 1].op \in {"else", "end"}
          BY <1>4, <4>1
        <4>3. Matches(s, 1, (1 + Len(b)) + 1, {"else", "end"})
          BY <1>2, <1>4, <4>1, <4>2, BlockSkipped
        <4> QED
          BY <4>1, <4>3
      <3>5. (n + 2) + 1 = n + 3 /\ 1 + 1 = 2
        OBVIOUS
      <3>6. c \notin H => \E q : Matches(s, 1, q, {"else", "end"}) /\ t \in Q[q + 1]
        BY <3>3, <3>4, <3>5
      <3> QED
        BY <1>4, <2>1, <3>2, <3>5, <3>6 DEF Follows
    <2>2. CASE i = n + 2
      <3>1. c \in H /\ t \in R[n + 1] /\ (n + 2) + 1 = n + 3
        <4>1. n + 2 \in 2 .. n + 2 /\ (n + 2) - 1 = n + 1
          OBVIOUS
        <4> QED
          BY <1>7, <2>2, <4>1
      <3>2. t \in Seq(STRING) /\ <<"returned", t>> \in W
        BY <1>5, <3>1
      <3>3. t \in Q[i + 1]
        BY <1>7, <2>2, <3>1, <3>2
      <3> QED
        BY <1>4, <2>2, <3>3 DEF Follows
    <2>3. CASE i \in 2 .. n + 1
      <3>0. i - 1 \in 1 .. n /\ 1 + (i - 1) = i /\ i \in 2 .. n + 2
        BY <2>3
      <3>1. PICK j \in 1 .. n : i = 1 + j /\ j = i - 1
        BY <3>0
      <3>2. c \in H /\ t \in R[j]
        BY <1>7, <3>0, <3>1
      <3>3. Follows(R, b, j, t, H, V)
        BY <1>5, <3>2
      <3>4. \A k \in 2 .. Len(b) + 1 : R[k] = Q[1 + k]
        <4> SUFFICES ASSUME NEW k \in 2 .. n + 1 PROVE R[k] = Q[1 + k]
          BY <1>1
        <4>1. 1 + k \in 2 .. n + 2 /\ (1 + k) - 1 = k
          OBVIOUS
        <4>2. PICK z : z = 1 + k
          OBVIOUS
        <4> QED
          BY <1>7, <3>2, <4>1, <4>2
      <3>5. Follows(Q, s, 1 + j, t, H, W)
        BY <1>1, <1>4, <3>2, <3>3, <3>4, FollowsPlaced
      <3> QED
        BY <3>1, <3>5
    <2> QED
      BY <2>1, <2>2, <2>3
  <1>9. Runs(Q, s, H, W)
    <2>1. Len(s) + 1 = n + 3
      BY <1>1
    <2>2. <<>> \in Q[1]
      BY <1>7
    <2> QED
      BY <1>1, <1>6, <1>7, <1>8, <2>1, <2>2 DEF Runs
  <1> QED
    BY <1>2, <1>9 DEF Does

(* An if with an else does what one of its branches does. *)
LEMMA Branch ==
    ASSUME NEW s, NEW c \in Conds, NEW b, NEW e, IsBranch(s, c, b, e), NEW H, NEW V, NEW X, NEW W,
           Does(b, H, V), Does(e, H, X), c \in H => V \subseteq W, c \notin H => X \subseteq W
    PROVE  Does(s, H, W)
  <1>1. PICK n \in Nat, m \in Nat : n = Len(b) /\ m = Len(e) /\ Len(s) = n + m + 3
    BY DEF IsBranch
  <1>2. IsBlock(b) /\ IsBlock(e) /\ IsBlock(s)
    BY BranchIsBlock DEF Does
  <1>3. PICK R : Runs(R, b, H, V)
    BY DEF Does
  <1>30. PICK P : Runs(P, e, H, X)
    BY DEF Does
  <1>4. /\ s[1].op = "if" /\ s[1].arg = c /\ s[n + 2].op = "else" /\ s[n + m + 3].op = "end"
        /\ Placed(b, s, 1) /\ Placed(e, s, n + 2)
    BY <1>1 DEF IsBranch, If, Else, End
  <1>5. /\ R \in [1 .. n + 1 -> SUBSET Seq(STRING)] /\ <<>> \in R[1]
        /\ \A i \in 1 .. n : \A t \in R[i] : Follows(R, b, i, t, H, V)
        /\ \A t \in R[n + 1] : <<"returned", t>> \in V
    BY <1>1, <1>3 DEF Runs
  <1>50. /\ P \in [1 .. m + 1 -> SUBSET Seq(STRING)] /\ <<>> \in P[1]
         /\ \A i \in 1 .. m : \A t \in P[i] : Follows(P, e, i, t, H, X)
         /\ \A t \in P[m + 1] : <<"returned", t>> \in X
    BY <1>1, <1>30 DEF Runs
  <1> DEFINE Q == [i \in 1 .. n + m + 4 |->
                     IF i = 1 THEN {<<>>}
                     ELSE IF i \in 2 .. n + 2 THEN IF c \in H THEN R[i - 1] ELSE {}
                     ELSE IF i \in n + 3 .. n + m + 3
                       THEN IF c \in H THEN {} ELSE P[i - (n + 2)]
                     ELSE {t \in Seq(STRING) : <<"returned", t>> \in W}]
  <1>6. Q \in [1 .. n + m + 4 -> SUBSET Seq(STRING)]
    <2>1. \A i \in 2 .. n + 2 : R[i - 1] \in SUBSET Seq(STRING)
      <3> SUFFICES ASSUME NEW i \in 2 .. n + 2 PROVE R[i - 1] \in SUBSET Seq(STRING)
        OBVIOUS
      <3>1. i - 1 \in 1 .. n + 1
        OBVIOUS
      <3> QED
        BY <1>5, <3>1
    <2>2. {<<>>} \in SUBSET Seq(STRING)
      OBVIOUS
    <2>3. \A i \in n + 3 .. n + m + 3 : P[i - (n + 2)] \in SUBSET Seq(STRING)
      <3> SUFFICES ASSUME NEW i \in n + 3 .. n + m + 3 PROVE P[i - (n + 2)] \in SUBSET Seq(STRING)
        OBVIOUS
      <3>1. i - (n + 2) \in 1 .. m + 1
        OBVIOUS
      <3> QED
        BY <1>50, <3>1
    <2> QED
      BY <2>1, <2>2, <2>3
  <1>7. /\ Q[1] = {<<>>}
        /\ \A i \in 2 .. n + 2 : Q[i] = IF c \in H THEN R[i - 1] ELSE {}
        /\ \A i \in n + 3 .. n + m + 3 : Q[i] = IF c \in H THEN {} ELSE P[i - (n + 2)]
        /\ \A t \in Seq(STRING) : <<"returned", t>> \in W => t \in Q[n + m + 4]
        /\ \A t \in Q[n + m + 4] : <<"returned", t>> \in W
    OBVIOUS
  <1> HIDE DEF Q
  <1>8. ASSUME NEW i \in 1 .. n + m + 3, NEW t \in Q[i] PROVE Follows(Q, s, i, t, H, W)
    <2>1. CASE i = 1
      <3>1. t = <<>>
        BY <1>7, <2>1
      <3>2. c \in H => t \in Q[2]
        <4>1. 2 \in 2 .. n + 2 /\ 2 - 1 = 1
          OBVIOUS
        <4> QED
          BY <1>5, <1>7, <3>1, <4>1
      <3>3. c \notin H => t \in Q[n + 3]
        <4>1. n + 3 \in n + 3 .. n + m + 3 /\ (n + 3) - (n + 2) = 1
          OBVIOUS
        <4> QED
          BY <1>50, <1>7, <3>1, <4>1
      <3>4. Matches(s, 1, n + 2, {"else", "end"})
        <4>1. (1 + Len(b)) + 1 = n + 2 /\ n + 2 <= Len(s)
          BY <1>1
        <4>2. s[(1 + Len(b)) + 1].op \in {"else", "end"}
          BY <1>4, <4>1
        <4>3. Matches(s, 1, (1 + Len(b)) + 1, {"else", "end"})
          BY <1>2, <1>4, <4>1, <4>2, BlockSkipped
        <4> QED
          BY <4>1, <4>3
      <3>5. (n + 2) + 1 = n + 3 /\ 1 + 1 = 2
        OBVIOUS
      <3>6. c \notin H => \E q : Matches(s, 1, q, {"else", "end"}) /\ t \in Q[q + 1]
        BY <3>3, <3>4, <3>5
      <3> QED
        BY <1>4, <2>1, <3>2, <3>5, <3>6 DEF Follows
    <2>2. CASE i = n + 2
      <3>1. c \in H /\ t \in R[n + 1]
        <4>1. n + 2 \in 2 .. n + 2 /\ (n + 2) - 1 = n + 1
          OBVIOUS
        <4> QED
          BY <1>7, <2>2, <4>1
      <3>2. t \in Seq(STRING) /\ <<"returned", t>> \in W
        BY <1>5, <3>1
      <3>3. t \in Q[n + m + 4] /\ (n + m + 3) + 1 = n + m + 4
        BY <1>7, <3>2
      <3>4. Matches(s, n + 2, n + m + 3, {"end"})
        <4>0. PICK o \in Nat : o = n + 2 /\ o # 0
          OBVIOUS
        <4>1. (o + Len(e)) + 1 = n + m + 3 /\ n + m + 3 <= Len(s)
          BY <1>1, <4>0
        <4>2. s[(o + Len(e)) + 1].op \in {"end"} /\ Placed(e, s, o)
          BY <1>4, <4>0, <4>1
        <4>3. Matches(s, o, (o + Len(e)) + 1, {"end"})
          BY <1>2, <1>4, <4>0, <4>1, <4>2, BlockSkipped
        <4> QED
          BY <4>0, <4>1, <4>3
      <3>5. \E q : Matches(s, i, q, {"end"}) /\ t \in Q[q + 1]
        BY <2>2, <3>3, <3>4
      <3> QED
        BY <1>4, <2>2, <3>5 DEF Follows
    <2>3. CASE i \in 2 .. n + 1
      <3>0. i - 1 \in 1 .. n /\ 1 + (i - 1) = i /\ i \in 2 .. n + 2
        BY <2>3
      <3>1. PICK j \in 1 .. n : i = 1 + j /\ j = i - 1
        BY <3>0
      <3>2. c \in H /\ t \in R[j]
        BY <1>7, <3>0, <3>1
      <3>3. Follows(R, b, j, t, H, V)
        BY <1>5, <3>2
      <3>4. \A k \in 2 .. Len(b) + 1 : R[k] = Q[1 + k]
        <4> SUFFICES ASSUME NEW k \in 2 .. n + 1 PROVE R[k] = Q[1 + k]
          BY <1>1
        <4>1. 1 + k \in 2 .. n + 2 /\ (1 + k) - 1 = k
          OBVIOUS
        <4>2. PICK z : z = 1 + k
          OBVIOUS
        <4> QED
          BY <1>7, <3>2, <4>1, <4>2
      <3>5. Follows(Q, s, 1 + j, t, H, W)
        BY <1>1, <1>4, <3>2, <3>3, <3>4, FollowsPlaced
      <3> QED
        BY <3>1, <3>5
    <2>4. CASE i \in n + 3 .. n + m + 2
      <3>0. i - (n + 2) \in 1 .. m /\ (n + 2) + (i - (n + 2)) = i /\ i \in n + 3 .. n + m + 3
        BY <2>4
      <3>1. PICK j \in 1 .. m : i = (n + 2) + j /\ j = i - (n + 2)
        BY <3>0
      <3>10. PICK o \in Nat : o = n + 2
        OBVIOUS
      <3>2. c \notin H /\ t \in P[j]
        BY <1>7, <3>0, <3>1
      <3>3. Follows(P, e, j, t, H, X)
        BY <1>50, <3>2
      <3>4. \A k \in 2 .. Len(e) + 1 : P[k] = Q[o + k]
        <4> SUFFICES ASSUME NEW k \in 2 .. m + 1 PROVE P[k] = Q[o + k]
          BY <1>1
        <4>1. o + k \in n + 3 .. n + m + 3 /\ (o + k) - (n + 2) = k
          BY <3>10
        <4>2. PICK z : z = o + k
          OBVIOUS
        <4> QED
          BY <1>7, <3>2, <4>1, <4>2
      <3>5. Follows(Q, s, o + j, t, H, W)
        BY <1>1, <1>4, <3>10, <3>2, <3>3, <3>4, FollowsPlaced
      <3> QED
        BY <3>1, <3>10, <3>5
    <2>5. CASE i = n + m + 3
      <3>1. c \notin H /\ t \in P[m + 1] /\ (n + m + 3) + 1 = n + m + 4
        <4>1. n + m + 3 \in n + 3 .. n + m + 3 /\ (n + m + 3) - (n + 2) = m + 1
          OBVIOUS
        <4> QED
          BY <1>7, <2>5, <4>1
      <3>2. t \in Seq(STRING) /\ <<"returned", t>> \in W
        BY <1>50, <3>1
      <3>3. t \in Q[i + 1]
        BY <1>7, <2>5, <3>1, <3>2
      <3> QED
        BY <1>4, <2>5, <3>3 DEF Follows
    <2> QED
      BY <2>1, <2>2, <2>3, <2>4, <2>5
  <1>9. Runs(Q, s, H, W)
    <2>1. Len(s) + 1 = n + m + 4
      BY <1>1
    <2>2. <<>> \in Q[1]
      BY <1>7
    <2> QED
      BY <1>1, <1>6, <1>7, <1>8, <2>1, <2>2 DEF Runs
  <1> QED
    BY <1>2, <1>9 DEF Does

-----------------------------------------------------------------------------
(* Lists, and the code that create_if writes *)

(* A list of members of S; two lists, one after the other *)
Over(a, S) == a \in Seq(S)
Cat(a, b) == a \o b

(* Lists of members of S make such a list. *)
LEMMA CatOver ==
    ASSUME NEW S, NEW a, NEW b, Over(a, S), Over(b, S)
    PROVE  Over(Cat(a, b), S)
  BY DEF Over, Cat

(* Joining is associative. *)
LEMMA CatAssoc ==
    ASSUME NEW S, NEW a, NEW b, NEW c, Over(a, S), Over(b, S), Over(c, S)
    PROVE  Cat(Cat(a, b), c) = Cat(a, Cat(b, c))
  BY ConcatAssociative DEF Over, Cat

(* c is a, then b. *)
Spliced(c, a, b) ==
    /\ Len(a) \in Nat /\ Len(b) \in Nat /\ Len(c) = Len(a) + Len(b)
    /\ \A i \in 1 .. Len(a) : c[i] = a[i]
    /\ \A i \in 1 .. Len(b) : c[Len(a) + i] = b[i]

(* Where the members of a joined list are *)
LEMMA CatFacts ==
    ASSUME NEW S, NEW a, NEW b, Over(a, S), Over(b, S)
    PROVE  Spliced(Cat(a, b), a, b)
  BY DEF Over, Cat, Spliced

(* Joining with nothing *)
LEMMA CatEmpty ==
    ASSUME NEW S, NEW a, Over(a, S)
    PROVE  Over(<<>>, S) /\ Cat(a, <<>>) = a /\ Cat(<<>>, a) = a
  BY ConcatEmptySeq DEF Over, Cat

(* A list of one *)
LEMMA UnitOver ==
    ASSUME NEW S, NEW x, x \in S
    PROVE  Over(<<x>>, S) /\ Len(<<x>>) = 1 /\ <<x>>[1] = x
  BY DEF Over

(* Two ways to see the last test of a chain *)
LEMMA Regroup ==
    ASSUME NEW S, NEW a, NEW p, NEW l, NEW e, NEW x, NEW z,
           Over(a, S), Over(p, S), Over(l, S), Over(e, S), Over(x, S), Over(z, S)
    PROVE  /\ Cat(Cat(Cat(Cat(a, p), l), e), Cat(x, z)) = Cat(Cat(a, Cat(Cat(Cat(p, l), e), x)), z)
           /\ Over(Cat(Cat(Cat(p, l), e), x), S)
  BY CatOver, CatAssoc

(* The same for a last test that has no else *)
LEMMA RegroupLast ==
    ASSUME NEW S, NEW a, NEW p, NEW x, NEW z, Over(a, S), Over(p, S), Over(x, S), Over(z, S)
    PROVE  Cat(Cat(a, p), Cat(x, z)) = Cat(Cat(a, Cat(p, x)), z)
  BY CatOver, CatAssoc

(* if c, then b, end *)
LEMMA OnlyIfMade ==
    ASSUME NEW S, NEW c, NEW b, Over(b, S), If(c) \in S, End \in S
    PROVE  IsOnlyIf(Cat(Cat(<<If(c)>>, b), <<End>>), c, b)
  <1>1. PICK i, e : i = If(c) /\ e = End
    OBVIOUS
  <1>2. PICK p : p = Cat(<<i>>, b)
    OBVIOUS
  <1>3. PICK n \in Nat : n = Len(b)
    BY DEF Over
  <1>4. Over(p, S) /\ Len(p) = n + 1 /\ p[1] = i /\ \A k \in 1 .. n : p[1 + k] = b[k]
    <2>1. PICK y : y = <<i>> /\ Over(y, S) /\ Len(y) = 1 /\ y[1] = i
      BY <1>1, UnitOver
    <2>20. Over(p, S) /\ Spliced(p, y, b)
      BY <1>2, <2>1, CatFacts, CatOver
    <2>2. Over(p, S) /\ Len(p) = Len(y) + Len(b)
      BY <2>20 DEF Spliced
    <2>3. /\ \A k \in 1 .. Len(y) : p[k] = y[k]
          /\ \A k \in 1 .. Len(b) : p[Len(y) + k] = b[k]
      BY <2>20 DEF Spliced
    <2> QED
      BY <1>3, <2>1, <2>2, <2>3
  <1>5. PICK s : s = Cat(p, <<e>>)
    OBVIOUS
  <1>6. Len(s) = n + 2 /\ (\A k \in 1 .. n + 1 : s[k] = p[k]) /\ s[n + 2] = e
    <2>1. PICK y : y = <<e>> /\ Over(y, S) /\ Len(y) = 1 /\ y[1] = e
      BY <1>1, UnitOver
    <2>20. Spliced(s, p, y)
      BY <1>4, <1>5, <2>1, CatFacts, CatOver
    <2>2. Len(s) = Len(p) + Len(y)
      BY <2>20 DEF Spliced
    <2>3. /\ \A k \in 1 .. Len(p) : s[k] = p[k]
          /\ \A k \in 1 .. Len(y) : s[Len(p) + k] = y[k]
      BY <2>20 DEF Spliced
    <2>4. Len(p) + 1 = n + 2
      BY <1>4
    <2> QED
      BY <1>4, <2>1, <2>2, <2>3, <2>4
  <1>7. \A k \in 1 .. n : s[1 + k] = b[k]
    BY <1>4, <1>6
  <1>8. Placed(b, s, 1)
    BY <1>3, <1>6, <1>7 DEF Placed
  <1>9. IsOnlyIf(s, c, b)
    BY <1>1, <1>3, <1>4, <1>6, <1>8 DEF IsOnlyIf
  <1> QED
    BY <1>1, <1>2, <1>5, <1>9

(* if c, then b, else e, end *)
LEMMA BranchMade ==
    ASSUME NEW S, NEW c, NEW b, NEW e, Over(b, S), Over(e, S), If(c) \in S, Else \in S, End \in S
    PROVE  IsBranch(Cat(Cat(Cat(Cat(<<If(c)>>, b), <<Else>>), e), <<End>>), c, b, e)
  <1>1. PICK i, l, x : i = If(c) /\ l = Else /\ x = End
    OBVIOUS
  <1>2. PICK p : p = Cat(<<i>>, b)
    OBVIOUS
  <1>3. PICK n \in Nat, m \in Nat : n = Len(b) /\ m = Len(e)
    BY DEF Over
  <1>4. Over(p, S) /\ Len(p) = n + 1 /\ p[1] = i /\ \A k \in 1 .. n : p[1 + k] = b[k]
    <2>1. PICK y : y = <<i>> /\ Over(y, S) /\ Len(y) = 1 /\ y[1] = i
      BY <1>1, UnitOver
    <2>20. Over(p, S) /\ Spliced(p, y, b)
      BY <1>2, <2>1, CatFacts, CatOver
    <2>2. Over(p, S) /\ Len(p) = Len(y) + Len(b)
      BY <2>20 DEF Spliced
    <2>3. /\ \A k \in 1 .. Len(y) : p[k] = y[k]
          /\ \A k \in 1 .. Len(b) : p[Len(y) + k] = b[k]
      BY <2>20 DEF Spliced
    <2> QED
      BY <1>3, <2>1, <2>2, <2>3
  <1>5. PICK u : u = Cat(p, <<l>>)
    OBVIOUS
  <1>6. Over(u, S) /\ Len(u) = n + 2 /\ (\A k \in 1 .. n + 1 : u[k] = p[k]) /\ u[n + 2] = l
    <2>1. PICK y : y = <<l>> /\ Over(y, S) /\ Len(y) = 1 /\ y[1] = l
      BY <1>1, UnitOver
    <2>20. Over(u, S) /\ Spliced(u, p, y)
      BY <1>4, <1>5, <2>1, CatFacts, CatOver
    <2>2. Over(u, S) /\ Len(u) = Len(p) + Len(y)
      BY <2>20 DEF Spliced
    <2>3. /\ \A k \in 1 .. Len(p) : u[k] = p[k]
          /\ \A k \in 1 .. Len(y) : u[Len(p) + k] = y[k]
      BY <2>20 DEF Spliced
    <2>4. Len(p) + 1 = n + 2
      BY <1>4
    <2> QED
      BY <1>4, <2>1, <2>2, <2>3, <2>4
  <1>7. PICK v : v = Cat(u, e)
    OBVIOUS
  <1>8. /\ Over(v, S) /\ Len(v) = n + m + 2 /\ (\A k \in 1 .. n + 2 : v[k] = u[k])
        /\ \A k \in 1 .. m : v[(n + 2) + k] = e[k]
    <2>1. Over(v, S) /\ Spliced(v, u, e)
      BY <1>6, <1>7, CatFacts, CatOver
    <2> QED
      BY <1>3, <1>6, <2>1 DEF Spliced
  <1>9. PICK s : s = Cat(v, <<x>>)
    OBVIOUS
  <1>10. /\ Len(s) = n + m + 3 /\ (\A k \in 1 .. n + m + 2 : s[k] = v[k])
         /\ s[n + m + 3] = x
    <2>1. PICK y : y = <<x>> /\ Over(y, S) /\ Len(y) = 1 /\ y[1] = x
      BY <1>1, UnitOver
    <2>20. Spliced(s, v, y)
      BY <1>8, <1>9, <2>1, CatFacts, CatOver
    <2>2. Len(s) = Len(v) + Len(y)
      BY <2>20 DEF Spliced
    <2>3. /\ \A k \in 1 .. Len(v) : s[k] = v[k]
          /\ \A k \in 1 .. Len(y) : s[Len(v) + k] = y[k]
      BY <2>20 DEF Spliced
    <2>4. Len(v) + 1 = n + m + 3
      BY <1>8
    <2> QED
      BY <1>8, <2>1, <2>2, <2>3, <2>4
  <1>11. Placed(b, s, 1)
    <2>1. ASSUME NEW k \in 1 .. n PROVE s[1 + k] = b[k]
      <3>1. 1 + k \in 1 .. n + 1 /\ 1 + k \in 1 .. n + 2 /\ 1 + k \in 1 .. n + m + 2
        OBVIOUS
      <3> QED
        BY <1>4, <1>6, <1>8, <1>10, <3>1
    <2> QED
      BY <1>3, <1>10, <2>1 DEF Placed
  <1>12. Placed(e, s, n + 2)
    <2>1. ASSUME NEW k \in 1 .. m PROVE s[(n + 2) + k] = e[k]
      <3>1. (n + 2) + k \in 1 .. n + m + 2
        OBVIOUS
      <3> QED
        BY <1>8, <1>10, <3>1
    <2> QED
      BY <1>3, <1>10, <2>1 DEF Placed
  <1>13. s[1] = i /\ s[n + 2] = l
    <2>1. 1 \in 1 .. n + 1 /\ 1 \in 1 .. n + 2 /\ 1 \in 1 .. n + m + 2
      OBVIOUS
    <2>2. n + 2 \in 1 .. n + 2 /\ n + 2 \in 1 .. n + m + 2
      OBVIOUS
    <2> QED
      BY <1>4, <1>6, <1>8, <1>10, <2>1, <2>2
  <1>14. IsBranch(s, c, b, e)
    BY <1>1, <1>3, <1>10, <1>11, <1>12, <1>13 DEF IsBranch
  <1> QED
    BY <1>1, <1>2, <1>5, <1>7, <1>9, <1>14

(* The ends that close the ifs of a chain *)
LEMMA CloseFacts ==
    ASSUME NEW S, End \in S, NEW n \in Nat
    PROVE  /\ Over(Close(n), S) /\ Close(1) = <<End>> /\ Close(0) = <<>>
           /\ Close(n + 1) = Cat(<<End>>, Close(n))
  <1>1. PICK x \in S : x = End
    OBVIOUS
  <1>2. \A k \in Nat : Close(k) = [i \in 1 .. k |-> x]
    BY <1>1 DEF Close
  <1>3. \A k \in Nat : Close(k) \in Seq(S) /\ Len(Close(k)) = k /\ \A i \in 1 .. k : Close(k)[i] = x
    <2> SUFFICES ASSUME NEW k \in Nat
                 PROVE  /\ [i \in 1 .. k |-> x] \in Seq(S) /\ Len([i \in 1 .. k |-> x]) = k
                        /\ \A i \in 1 .. k : [j \in 1 .. k |-> x][i] = x
      BY <1>2
    <2> QED
      OBVIOUS
  <1>4. Close(1) = <<x>> /\ Close(0) = <<>>
    <2>1. [i \in 1 .. 1 |-> x] = <<x>>
      OBVIOUS
    <2>2. [i \in 1 .. 0 |-> x] = <<>>
      OBVIOUS
    <2> QED
      BY <1>2, <2>1, <2>2
  <1>5. Close(n + 1) = Cat(<<x>>, Close(n))
    <2>1. PICK a, b : a = Close(n + 1) /\ b = Close(n)
      OBVIOUS
    <2>2. a \in Seq(S) /\ Len(a) = n + 1 /\ \A i \in 1 .. n + 1 : a[i] = x
      BY <1>3, <2>1
    <2>3. Over(b, S) /\ Len(b) = n /\ \A i \in 1 .. n : b[i] = x
      BY <1>3, <2>1 DEF Over
    <2>4. PICK u : u = <<x>> /\ Over(u, S) /\ Len(u) = 1 /\ u[1] = x
      BY UnitOver
    <2>5. PICK w : w = Cat(u, b)
      OBVIOUS
    <2>6. /\ Over(w, S) /\ Len(w) = Len(u) + Len(b)
          /\ \A k \in 1 .. Len(u) : w[k] = u[k]
          /\ \A k \in 1 .. Len(b) : w[Len(u) + k] = b[k]
      <3>1. Over(w, S) /\ Spliced(w, u, b)
        BY <2>3, <2>4, <2>5, CatFacts, CatOver
      <3> QED
        BY <3>1 DEF Spliced
    <2>7. w \in Seq(S) /\ Len(w) = n + 1 /\ \A i \in 1 .. n + 1 : w[i] = x
      <3>1. w \in Seq(S) /\ Len(w) = 1 + n /\ w[1] = x
        BY <2>3, <2>4, <2>6 DEF Over
      <3>2. ASSUME NEW i \in 1 .. n + 1, i # 1 PROVE w[i] = x
        <4>1. i - 1 \in 1 .. n /\ 1 + (i - 1) = i
          BY <3>2
        <4>2. PICK k \in 1 .. n : 1 + k = i
          BY <4>1
        <4> QED
          BY <2>3, <2>4, <2>6, <4>2
      <3> QED
        BY <3>1, <3>2
    <2>8. a = w
      BY <2>2, <2>7, SeqEqual
    <2> QED
      BY <2>1, <2>4, <2>5, <2>8
  <1> QED
    BY <1>1, <1>3, <1>4, <1>5 DEF Over

(* g[k] is a chain of k tests joined by else, whose ifs are all still open:  *)
(* the j-th is for condition C[j] and guards the code B[j].                  *)
IsChain(g, C, B, n, S) ==
    /\ Else \in S /\ End \in S
    /\ \A k \in 1 .. n : C[k] \in Conds /\ If(C[k]) \in S /\ Over(B[k], S)
    /\ g[1] = Cat(<<If(C[1])>>, B[1])
    /\ \A k \in 2 .. n : g[k] = Cat(Cat(g[k - 1], <<Else>>), Cat(<<If(C[k])>>, B[k]))

(* W has what each of the first n tests that is met may do, and what comes   *)
(* after the chain may do if none is.                                        *)
Covers(C, V, n, H, X, W) ==
    /\ \A k \in 1 .. n : C[k] \in H => V[k] \subseteq W
    /\ (\A k \in 1 .. n : C[k] \notin H) => X \subseteq W

(* The code of a chain of ifs has the instructions of its parts. *)
LEMMA ChainTyped ==
    ASSUME NEW S, NEW g, NEW C, NEW B, NEW n \in Nat, n # 0, IsChain(g, C, B, n, S)
    PROVE  \A k \in 1 .. n : Over(g[k], S)
  <1> DEFINE T == {m \in Nat : m + 1 <= n => Over(g[m + 1], S)}
  <1>1. 0 \in T
    <2>1. If(C[1]) \in S /\ Over(B[1], S) /\ g[1] = Cat(<<If(C[1])>>, B[1]) /\ 0 + 1 = 1
      BY DEF IsChain
    <2>2. Over(g[1], S)
      BY <2>1, CatOver, UnitOver
    <2> QED
      BY <2>1, <2>2
  <1>2. ASSUME NEW m \in Nat, m \in T PROVE m + 1 \in T
    <2> SUFFICES ASSUME (m + 1) + 1 <= n PROVE Over(g[(m + 1) + 1], S)
      OBVIOUS
    <2>1. PICK j \in 1 .. n, k \in 2 .. n : j = m + 1 /\ k = (m + 1) + 1 /\ j = k - 1 /\ k \in 1 .. n
      OBVIOUS
    <2>2. g[k] = Cat(Cat(g[j], <<Else>>), Cat(<<If(C[k])>>, B[k]))
      BY <2>1 DEF IsChain
    <2>3. Else \in S /\ If(C[k]) \in S /\ Over(B[k], S)
      BY <2>1 DEF IsChain
    <2>4. Over(g[j], S)
      BY <1>2, <2>1
    <2>5. Over(g[k], S)
      BY <2>2, <2>3, <2>4, CatOver, UnitOver
    <2> QED
      BY <2>1, <2>5
  <1>3. Nat \subseteq T
    <2> HIDE DEF T
    <2> QED
      BY <1>1, <1>2, NaturalInduction
  <1>4. ASSUME NEW k \in 1 .. n PROVE Over(g[k], S)
    <2>1. k - 1 \in Nat /\ (k - 1) + 1 = k
      OBVIOUS
    <2>2. PICK m \in Nat : m + 1 = k
      BY <2>1
    <2>3. m \in T
      BY <1>3
    <2> QED
      BY <2>2, <2>3
  <1> QED
    BY <1>4

(* A chain, then else and other code *)
Chained(g, e, k) == Cat(Cat(Cat(g[k], <<Else>>), e), Close(k))

(* A chain of ifs joined by else does what the body of the first condition that *)
(* holds does, or what the code at its end does.                             *)
LEMMA Chain ==
    ASSUME NEW S, NEW g, NEW C, NEW B, NEW n \in Nat, n # 0, IsChain(g, C, B, n, S),
           NEW H, NEW V, \A k \in 1 .. n : Does(B[k], H, V[k])
    PROVE  \A k \in 1 .. n : \A e, X, W :
              Over(e, S) /\ Does(e, H, X) /\ Covers(C, V, k, H, X, W) => Does(Chained(g, e, k), H, W)
  <1> DEFINE Good(k) == \A e, X, W :
                          Over(e, S) /\ Does(e, H, X) /\ Covers(C, V, k, H, X, W) => Does(Chained(g, e, k), H, W)
             T == {m \in Nat : m + 1 <= n => Good(m + 1)}
  <1>0. /\ Else \in S /\ End \in S
        /\ \A k \in 1 .. n : C[k] \in Conds /\ If(C[k]) \in S /\ Over(B[k], S)
        /\ \A k \in 1 .. n : Over(g[k], S)
    BY ChainTyped DEF IsChain
  <1>1. Good(1)
    <2> SUFFICES ASSUME NEW e, NEW X, NEW W, Over(e, S), Does(e, H, X), Covers(C, V, 1, H, X, W)
                 PROVE  Does(Chained(g, e, 1), H, W)
      OBVIOUS
    <2>1. 1 \in 1 .. n
      OBVIOUS
    <2>2. PICK c, b : c = C[1] /\ b = B[1]
      OBVIOUS
    <2>3. Chained(g, e, 1) = Cat(Cat(Cat(Cat(<<If(c)>>, b), <<Else>>), e), <<End>>)
      <3>1. Close(1) = <<End>>
        BY <1>0, CloseFacts
      <3> QED
        BY <2>2, <3>1 DEF IsChain, Chained
    <2>4. c \in Conds /\ If(c) \in S /\ Over(b, S) /\ Does(b, H, V[1])
      BY <1>0, <2>1, <2>2
    <2>5. IsBranch(Chained(g, e, 1), c, b, e)
      BY <1>0, <2>3, <2>4, BranchMade
    <2>6. (c \in H => V[1] \subseteq W) /\ (c \notin H => X \subseteq W)
      BY <2>2 DEF Covers
    <2> QED
      BY <2>4, <2>5, <2>6, Branch
  <1>2. ASSUME NEW m \in Nat, m \in T PROVE m + 1 \in T
    <2>1. SUFFICES ASSUME (m + 1) + 1 <= n PROVE Good((m + 1) + 1)
      OBVIOUS
    <2>2. PICK j \in 1 .. n, k \in 2 .. n : j = m + 1 /\ k = (m + 1) + 1 /\ j = k - 1 /\ k \in 1 .. n
      BY <2>1
    <2>3. Good(j)
      BY <1>2, <2>1, <2>2
    <2>4. ASSUME NEW e, NEW X, NEW W, Over(e, S), Does(e, H, X), Covers(C, V, k, H, X, W)
          PROVE  Does(Chained(g, e, k), H, W)
      <3>1. PICK c, b : c = C[k] /\ b = B[k]
        OBVIOUS
      <3>2. c \in Conds /\ If(c) \in S /\ Over(b, S) /\ Does(b, H, V[k])
        BY <1>0, <2>2, <3>1
      <3>3. PICK p, l, x, a, z : /\ p = Cat(<<If(c)>>, b) /\ l = <<Else>> /\ x = <<End>>
                                 /\ a = Cat(g[j], l) /\ z = Close(j)
        OBVIOUS
      <3>4. Over(p, S) /\ Over(l, S) /\ Over(x, S) /\ Over(a, S) /\ Over(z, S)
        <4>1. Over(z, S)
          BY <1>0, <2>2, <3>3, CloseFacts
        <4> QED
          BY <1>0, <3>2, <3>3, <4>1, CatOver, UnitOver
      <3>5. g[k] = Cat(a, p)
        BY <2>2, <3>1, <3>3 DEF IsChain
      <3>6. Close(k) = Cat(x, z)
        <4>1. j \in Nat /\ j + 1 = k
          BY <2>2
        <4>2. Close(j + 1) = Cat(<<End>>, Close(j))
          BY <1>0, <4>1, CloseFacts
        <4> QED
          BY <3>3, <4>1, <4>2
      <3>7. PICK f : f = Cat(Cat(Cat(p, l), e), x)
        OBVIOUS
      <3>8. Over(f, S) /\ Chained(g, e, k) = Chained(g, f, j)
        <4>1. Cat(Cat(Cat(Cat(a, p), l), e), Cat(x, z)) = Cat(Cat(a, f), z) /\ Over(f, S)
          <5>1. Over(e, S)
            BY <2>4
          <5>2. /\ Cat(Cat(Cat(Cat(a, p), l), e), Cat(x, z))
                   = Cat(Cat(a, Cat(Cat(Cat(p, l), e), x)), z)
                /\ Over(Cat(Cat(Cat(p, l), e), x), S)
            BY ONLY <3>4, <5>1, Regroup
          <5> QED
            BY <3>7, <5>2
        <4> QED
          BY <3>3, <3>5, <3>6, <4>1 DEF Chained
      <3>9. IsBranch(f, c, b, e)
        BY <1>0, <2>4, <3>2, <3>3, <3>7, BranchMade
      <3> DEFINE Y == IF c \in H THEN V[k] ELSE X
      <3>10. Does(f, H, Y)
        BY <2>4, <3>2, <3>9, Branch
      <3>11. Covers(C, V, j, H, Y, W)
        <4>1. 1 .. k = (1 .. j) \union {k}
          BY <2>2
        <4> QED
          BY <2>4, <3>1, <4>1 DEF Covers
      <3> HIDE DEF Y
      <3>12. Does(Chained(g, f, j), H, W)
        BY <2>3, <3>8, <3>10, <3>11
      <3> QED
        BY <3>8, <3>12
    <2> QED
      BY <2>2, <2>4
  <1>3. Nat \subseteq T
    <2>1. 0 \in T
      <3>1. PICK i : i = 0 + 1 /\ i = 1
        OBVIOUS
      <3>2. Good(i)
        BY <1>1, <3>1
      <3> QED
        BY <3>1, <3>2
    <2> HIDE DEF T
    <2> QED
      BY <1>2, <2>1, NaturalInduction
  <1>4. ASSUME NEW k \in 1 .. n PROVE Good(k)
    <2>1. k - 1 \in Nat /\ (k - 1) + 1 = k
      OBVIOUS
    <2>2. PICK m \in Nat : m + 1 = k
      BY <2>1
    <2>3. m \in T
      BY <1>3
    <2> QED
      BY <2>2, <2>3
  <1> QED
    BY <1>4

(* A chain on its own *)
LEMMA ChainAlone ==
    ASSUME NEW S, NEW g, NEW C, NEW B, NEW n \in Nat, n # 0, IsChain(g, C, B, n, S),
           NEW H, NEW V, \A k \in 1 .. n : Does(B[k], H, V[k]), NEW W,
           Covers(C, V, n, H, {<<"returned", <<>>>>}, W)
    PROVE  Does(Cat(g[n], Close(n)), H, W)
  <1>0. /\ Else \in S /\ End \in S
        /\ \A k \in 1 .. n : C[k] \in Conds /\ If(C[k]) \in S /\ Over(B[k], S)
        /\ \A k \in 1 .. n : Over(g[k], S)
    BY ChainTyped DEF IsChain
  <1>1. PICK c, b : c = C[n] /\ b = B[n]
    OBVIOUS
  <1>2. c \in Conds /\ If(c) \in S /\ Over(b, S) /\ Does(b, H, V[n])
    BY <1>0, <1>1
  <1>3. PICK p, x : p = Cat(<<If(c)>>, b) /\ x = <<End>>
    OBVIOUS
  <1>4. Over(p, S) /\ Over(x, S)
    BY <1>0, <1>2, <1>3, CatOver, UnitOver
  <1>5. PICK e : e = Cat(p, x)
    OBVIOUS
  <1>6. IsOnlyIf(e, c, b)
    BY <1>0, <1>2, <1>3, <1>5, OnlyIfMade
  <1>7. CASE n = 1
    <2>1. Cat(g[n], Close(n)) = e
      <3>1. Close(1) = <<End>>
        BY <1>0, CloseFacts
      <3> QED
        BY <1>1, <1>3, <1>5, <1>7, <3>1 DEF IsChain
    <2>2. (c \in H => V[n] \subseteq W) /\ (c \notin H => <<"returned", <<>>>> \in W)
      BY <1>1, <1>7 DEF Covers
    <2>3. Does(e, H, W)
      BY <1>2, <1>6, <2>2, OnlyIf
    <2> QED
      BY <2>1, <2>3
  <1>8. CASE n # 1
    <2>0. n - 1 \in 1 .. n /\ n - 1 \in Nat /\ n \in 2 .. n
      BY <1>8
    <2>1. PICK j \in 1 .. n : j = n - 1 /\ j + 1 = n /\ j \in Nat
      BY <2>0
    <2> DEFINE X == IF c \in H THEN V[n] ELSE {<<"returned", <<>>>>}
    <2>2. Does(e, H, X)
      BY <1>2, <1>6, OnlyIf
    <2>3. Covers(C, V, j, H, X, W)
      <3>1. 1 .. n = (1 .. j) \union {n}
        BY <2>1
      <3> QED
        BY <1>1, <3>1 DEF Covers
    <2> HIDE DEF X
    <2>4. Over(e, S)
      BY <1>4, <1>5, CatOver
    <2>5. Does(Chained(g, e, j), H, W)
      BY <2>1, <2>2, <2>3, <2>4, Chain
    <2>6. Cat(g[n], Close(n)) = Chained(g, e, j)
      <3>1. PICK a, z : a = Cat(g[j], <<Else>>) /\ z = Close(j)
        OBVIOUS
      <3>2. Over(a, S) /\ Over(z, S)
        <4>2. Over(a, S)
          BY <1>0, <3>1, CatOver, UnitOver
        <4> QED
          BY <1>0, <2>1, <3>1, <4>2, CloseFacts
      <3>3. g[n] = Cat(a, p)
        BY <1>1, <1>3, <2>0, <2>1, <3>1 DEF IsChain
      <3>4. Close(n) = Cat(x, z)
        <4>1. Close(j + 1) = Cat(<<End>>, Close(j))
          BY <1>0, <2>1, CloseFacts
        <4> QED
          BY <1>3, <2>1, <3>1, <4>1
      <3>5. Cat(Cat(a, p), Cat(x, z)) = Cat(Cat(a, e), z)
        BY <1>4, <1>5, <3>2, RegroupLast
      <3> QED
        BY <3>1, <3>3, <3>4, <3>5 DEF Chained
    <2> QED
      BY <2>5, <2>6
  <1> QED
    BY <1>7, <1>8

(* The instructions around handlers *)
Code == {Else, End, AssertCode("no_action")} \union {If(c) : c \in Conds} \union {Call(f) : f \in STRING}

(* Joined lists of members of S *)
LEMMA JoinsOver ==
    ASSUME NEW S, NEW g, NEW seqs, NEW n \in Nat, n # 0, Joins(g, seqs, n),
           \A k \in 1 .. n : Over(seqs[k], S)
    PROVE  \A k \in 1 .. n : Over(g[k], S)
  <1> DEFINE T == {m \in Nat : m + 1 <= n => Over(g[m + 1], S)}
  <1>1. 0 \in T
    <2>1. Over(seqs[1], S) /\ g[1] = seqs[1] /\ 0 + 1 = 1
      BY DEF Joins
    <2> QED
      BY <2>1
  <1>2. ASSUME NEW m \in Nat, m \in T PROVE m + 1 \in T
    <2> SUFFICES ASSUME (m + 1) + 1 <= n PROVE Over(g[(m + 1) + 1], S)
      OBVIOUS
    <2>1. PICK j \in 1 .. n, k \in 2 .. n : j = m + 1 /\ k = (m + 1) + 1 /\ j = k - 1 /\ k \in 1 .. n
      OBVIOUS
    <2>2. g[k] = Cat(g[j], seqs[k])
      BY <2>1 DEF Joins, Cat
    <2>3. Over(g[j], S)
      BY <1>2, <2>1
    <2>4. Over(seqs[k], S)
      BY <2>1
    <2>5. Over(g[k], S)
      BY <2>2, <2>3, <2>4, CatOver
    <2> QED
      BY <2>1, <2>5
  <1>3. Nat \subseteq T
    <2> HIDE DEF T
    <2> QED
      BY <1>1, <1>2, NaturalInduction
  <1>4. ASSUME NEW k \in 1 .. n PROVE Over(g[k], S)
    <2>1. k - 1 \in Nat /\ (k - 1) + 1 = k
      OBVIOUS
    <2>2. PICK m \in Nat : m + 1 = k
      BY <2>1
    <2>3. m \in T
      BY <1>3
    <2> QED
      BY <2>2, <2>3
  <1> QED
    BY <1>4

(* Tests that are each put after an else but the first are a chain. *)
LEMMA JoinsChain ==
    ASSUME NEW S, NEW g, NEW seqs, NEW n \in Nat, n # 0, Joins(g, seqs, n), NEW C, NEW B,
           Else \in S, End \in S,
           \A k \in 1 .. n : C[k] \in Conds /\ If(C[k]) \in S /\ Over(B[k], S),
           \A k \in 1 .. n : seqs[k] = Cat(When(k > 1, <<Else>>), Cat(<<If(C[k])>>, B[k]))
    PROVE  IsChain(g, C, B, n, S)
  <1>1. \A k \in 1 .. n : Over(Cat(<<If(C[k])>>, B[k]), S)
    BY CatOver, UnitOver
  <1>2. Over(<<Else>>, S) /\ Over(<<>>, S)
    BY UnitOver, CatEmpty
  <1>3. \A k \in 1 .. n : seqs[k] = IF k > 1 THEN Cat(<<Else>>, Cat(<<If(C[k])>>, B[k]))
                                    ELSE Cat(<<If(C[k])>>, B[k])
    <2> SUFFICES ASSUME NEW k \in 1 .. n
                 PROVE  seqs[k] = IF k > 1 THEN Cat(<<Else>>, Cat(<<If(C[k])>>, B[k]))
                                  ELSE Cat(<<If(C[k])>>, B[k])
      OBVIOUS
    <2>1. PICK p : p = Cat(<<If(C[k])>>, B[k]) /\ Over(p, S)
      BY <1>1
    <2>2. Cat(<<>>, p) = p
      BY <2>1, CatEmpty
    <2> QED
      BY <2>1, <2>2 DEF When
  <1>4. \A k \in 1 .. n : Over(seqs[k], S)
    BY <1>1, <1>2, <1>3, CatOver
  <1>5. \A k \in 1 .. n : Over(g[k], S)
    BY <1>4, JoinsOver
  <1>6. g[1] = Cat(<<If(C[1])>>, B[1])
    <2>1. 1 \in 1 .. n /\ ~(1 > 1)
      OBVIOUS
    <2> QED
      BY <1>3, <2>1 DEF Joins
  <1>7. ASSUME NEW k \in 2 .. n
        PROVE  g[k] = Cat(Cat(g[k - 1], <<Else>>), Cat(<<If(C[k])>>, B[k]))
    <2>1. k \in 1 .. n /\ k > 1 /\ k - 1 \in 1 .. n
      OBVIOUS
    <2>2. PICK j \in 1 .. n : j = k - 1
      BY <2>1
    <2>3. g[k] = Cat(g[j], seqs[k])
      BY <2>2 DEF Joins, Cat
    <2>4. PICK p : p = Cat(<<If(C[k])>>, B[k]) /\ Over(p, S)
      BY <1>1, <2>1
    <2>5. seqs[k] = Cat(<<Else>>, p)
      BY <1>3, <2>1, <2>4
    <2>6. Cat(g[j], Cat(<<Else>>, p)) = Cat(Cat(g[j], <<Else>>), p)
      BY <1>2, <1>5, <2>4, CatAssoc
    <2> QED
      BY <2>2, <2>3, <2>4, <2>5, <2>6
  <1> QED
    BY <1>6, <1>7 DEF IsChain

(* A list of two *)
LEMMA TwoUnits ==
    ASSUME NEW x, NEW y
    PROVE  <<x, y>> = <<x>> \o <<y>>
  <1>1. PICK S : x \in S /\ y \in S
    <2>1. x \in {x, y} /\ y \in {x, y}
      OBVIOUS
    <2> QED
      BY <2>1
  <1>2. PICK a, b, c : a = <<x>> /\ b = <<y>> /\ c = <<x>> \o <<y>>
    OBVIOUS
  <1>3. Over(a, S) /\ Len(a) = 1 /\ a[1] = x /\ Over(b, S) /\ Len(b) = 1 /\ b[1] = y
    BY <1>1, <1>2, UnitOver
  <1>4. Spliced(c, a, b) /\ Over(c, S)
    <2>1. c = Cat(a, b)
      BY <1>2 DEF Cat
    <2> QED
      BY <1>3, <2>1, CatFacts, CatOver
  <1>5. c \in Seq(S) /\ Len(c) = 2 /\ c[1] = x /\ c[2] = y
    BY <1>3, <1>4 DEF Spliced, Over
  <1>6. PICK d : d = <<x, y>>
    OBVIOUS
  <1>7. d \in Seq(S) /\ Len(d) = 2 /\ d[1] = x /\ d[2] = y
    BY <1>1, <1>6
  <1>8. \A i \in 1 .. Len(c) : c[i] = d[i]
    BY <1>5, <1>7
  <1>9. c = d
    BY <1>5, <1>7, <1>8, SeqEqual
  <1> QED
    BY <1>2, <1>6, <1>9

(* The chain of create_if *)
ActionCond(h) == <<"action", h.name>>

(* Handlers that are functions of the contract *)
IsHandlers(hs) == hs \in Seq(Handler) /\ \A k \in 1 .. Len(hs) : hs[k].func \notin Hooks

(* create_if writes a chain of ifs, one per handler. *)
LEMMA CreateIfChain ==
    ASSUME NEW hs, IsHandlers(hs), NEW n \in Nat, n = Len(hs), n # 0
    PROVE  \E g : /\ create_if(hs) = g[n]
                  /\ IsChain(g, [k \in 1 .. n |-> ActionCond(hs[k])],
                             [k \in 1 .. n |-> <<Call(hs[k].func)>>], n, Code)
  <1>1. hs \in Seq(Handler) /\ DOMAIN hs = 1 .. n /\ \A k \in 1 .. n : hs[k] \in Handler
    BY DEF IsHandlers
  <1>2. \A k \in 1 .. n : hs[k].name \in Actions /\ hs[k].func \in STRING
    BY <1>1 DEF Handler
  <1> DEFINE seqs == [k \in 1 .. n |-> When(k > 1, <<Else>>)
                                       \o <<If(<<"action", hs[k].name>>), Call(hs[k].func)>>]
             C == [k \in 1 .. n |-> ActionCond(hs[k])]
             B == [k \in 1 .. n |-> <<Call(hs[k].func)>>]
  <1>3. create_if(hs) = FlattenSeq(seqs)
    BY <1>1 DEF create_if
  <1>4. Len(seqs) = n
    OBVIOUS
  <1>5. \A k \in 1 .. n : seqs[k] = Cat(When(k > 1, <<Else>>), Cat(<<If(C[k])>>, B[k]))
    <2> SUFFICES ASSUME NEW k \in 1 .. n
                 PROVE  seqs[k] = Cat(When(k > 1, <<Else>>), Cat(<<If(C[k])>>, B[k]))
      OBVIOUS
    <2>1. PICK i, f : i = If(<<"action", hs[k].name>>) /\ f = Call(hs[k].func)
      OBVIOUS
    <2>2. C[k] = <<"action", hs[k].name>> /\ B[k] = <<Call(hs[k].func)>>
      BY DEF ActionCond
    <2>3. seqs[k] = When(k > 1, <<Else>>) \o <<i, f>>
      BY <2>1
    <2>4. <<i, f>> = <<i>> \o <<f>>
      BY TwoUnits
    <2> HIDE DEF seqs, C, B
    <2> QED
      BY <2>1, <2>2, <2>3, <2>4 DEF Cat
  <1>6. \A k \in 1 .. n : C[k] \in Conds /\ If(C[k]) \in Code /\ Over(B[k], Code)
    <2> SUFFICES ASSUME NEW k \in 1 .. n
                 PROVE  C[k] \in Conds /\ If(C[k]) \in Code /\ Over(B[k], Code)
      OBVIOUS
    <2>1. C[k] \in Conds
      BY <1>2 DEF Conds, ActionCond
    <2>2. Call(hs[k].func) \in Code
      BY <1>2 DEF Code
    <2>3. If(C[k]) \in Code
      BY <2>1 DEF Code
    <2>4. B[k] = <<Call(hs[k].func)>>
      OBVIOUS
    <2> HIDE DEF C, B
    <2> QED
      BY <2>1, <2>2, <2>3, <2>4, UnitOver
  <1>7. Else \in Code /\ End \in Code
    BY DEF Code
  <1> HIDE DEF seqs, C, B
  <1>8. PICK g : Joins(g, seqs, Len(seqs)) /\ FlattenSeq(seqs) = g[Len(seqs)]
    BY <1>4, FlattenJoins
  <1>9. IsChain(g, C, B, n, Code)
    BY <1>4, <1>5, <1>6, <1>7, <1>8, JoinsChain
  <1> QED
    BY <1>3, <1>4, <1>8, <1>9 DEF C, B

(* What a chain over handlers may do: call one that is for the action, or do *)
(* what follows if there is none.                                            *)
Outcomes(hs, H, none) ==
    {<<"returned", <<hs[k].func>>>> : k \in {j \in 1 .. Len(hs) : ActionCond(hs[j]) \in H}}
    \union {w \in {<<none, <<>>>>} : \A k \in 1 .. Len(hs) : ActionCond(hs[k]) \notin H}

(* The outcomes of handlers are those of their chain. *)
LEMMA OutcomesCover ==
    ASSUME NEW hs, IsHandlers(hs), NEW n \in Nat, n = Len(hs), NEW H, NEW none
    PROVE  LET V == [k \in 1 .. n |-> {<<"returned", <<hs[k].func>>>>}]
               B == [k \in 1 .. n |-> <<Call(hs[k].func)>>]
           IN  /\ \A k \in 1 .. n : Does(B[k], H, V[k])
               /\ Covers([k \in 1 .. n |-> ActionCond(hs[k])], V, n, H, {<<none, <<>>>>},
                         Outcomes(hs, H, none))
  <1> DEFINE V == [k \in 1 .. n |-> {<<"returned", <<hs[k].func>>>>}]
             B == [k \in 1 .. n |-> <<Call(hs[k].func)>>]
             C == [k \in 1 .. n |-> ActionCond(hs[k])]
  <1>1. ASSUME NEW k \in 1 .. n PROVE Does(B[k], H, V[k])
    <2>1. hs[k] \in Handler /\ hs[k].func \notin Hooks
      BY DEF IsHandlers
    <2>2. PICK f \in STRING \ Hooks : f = hs[k].func
      BY <2>1 DEF Handler
    <2>3. PICK b : b = <<Call(f)>> /\ b = B[k]
      BY <2>2
    <2>4. Len(b) = 1 /\ b[1] = Call(f)
      BY <2>3
    <2>5. V[k] = {<<"returned", <<f>>>>}
      BY <2>2
    <2>6. Does(b, H, V[k])
      BY <2>4, <2>5, OneCall
    <2> QED
      BY <2>3, <2>6
  <1>2. ASSUME NEW k \in 1 .. n, C[k] \in H PROVE V[k] \subseteq Outcomes(hs, H, none)
    BY <1>2 DEF Outcomes
  <1>3. ASSUME \A k \in 1 .. n : C[k] \notin H
        PROVE  {<<none, <<>>>>} \subseteq Outcomes(hs, H, none)
    BY <1>3 DEF Outcomes
  <1> HIDE DEF C
  <1>4. Covers(C, V, n, H, {<<none, <<>>>>}, Outcomes(hs, H, none))
    <2> HIDE DEF V
    <2> QED
      BY <1>2, <1>3 DEF Covers
  <1> QED
    BY <1>1, <1>4 DEF C

(* No handlers, no code *)
LEMMA CreateIfNone ==
    ASSUME NEW hs, IsHandlers(hs), Len(hs) = 0
    PROVE  create_if(hs) = <<>>
  <1>1. DOMAIN hs = 1 .. 0
    BY DEF IsHandlers
  <1> DEFINE seqs == [k \in 1 .. 0 |-> When(k > 1, <<Else>>)
                                       \o <<If(<<"action", hs[k].name>>), Call(hs[k].func)>>]
  <1>2. create_if(hs) = FlattenSeq(seqs)
    BY <1>1 DEF create_if
  <1>3. seqs = <<>>
    OBVIOUS
  <1>4. FlattenSeq(<<>>) = <<>>
    BY DEF FlattenSeq
  <1> QED
    BY <1>2, <1>3, <1>4

(* The instructions that close and join ifs *)
LEMMA CodeHas == Else \in Code /\ End \in Code /\ AssertCode("no_action") \in Code
  BY DEF Code

(* create_if and the ends of its ifs *)
HandlersCode(hs) == Cat(create_if(hs), Close(Len(hs)))

(* Handlers with nothing at the end, as for a notification, call the first one *)
(* of the action, or none.                                                   *)
LEMMA HandlersAlone ==
    ASSUME NEW hs, IsHandlers(hs), NEW H
    PROVE  /\ Over(create_if(hs), Code) /\ Over(Close(Len(hs)), Code) /\ Over(HandlersCode(hs), Code)
           /\ Does(HandlersCode(hs), H, Outcomes(hs, H, "returned"))
  <1>1. PICK n \in Nat : n = Len(hs)
    BY DEF IsHandlers
  <1>2. Over(Close(n), Code) /\ Close(0) = <<>>
    BY CodeHas, CloseFacts
  <1>3. CASE n = 0
    <2>1. create_if(hs) = <<>>
      BY <1>1, <1>3, CreateIfNone
    <2>2. Over(<<>>, Code) /\ Cat(<<>>, <<>>) = <<>>
      <3>1. Over(<<>>, Code)
        BY DEF Over
      <3> QED
        BY <3>1, CatEmpty
    <2>3. HandlersCode(hs) = <<>>
      BY <1>1, <1>2, <1>3, <2>1, <2>2 DEF HandlersCode
    <2>4. <<"returned", <<>>>> \in Outcomes(hs, H, "returned")
      BY <1>1, <1>3 DEF Outcomes
    <2>5. PICK b : b = HandlersCode(hs) /\ Len(b) = 0
      BY <2>3
    <2>6. Does(b, H, Outcomes(hs, H, "returned"))
      BY <2>4, <2>5, Nothing
    <2> QED
      BY <1>1, <1>2, <1>3, <2>1, <2>2, <2>3, <2>5, <2>6
  <1>4. CASE n # 0
    <2> DEFINE V == [k \in 1 .. n |-> {<<"returned", <<hs[k].func>>>>}]
               B == [k \in 1 .. n |-> <<Call(hs[k].func)>>]
               C == [k \in 1 .. n |-> ActionCond(hs[k])]
    <2>1. PICK g : create_if(hs) = g[n] /\ IsChain(g, C, B, n, Code)
      BY <1>1, <1>4, CreateIfChain
    <2>2. /\ \A k \in 1 .. n : Does(B[k], H, V[k])
          /\ Covers(C, V, n, H, {<<"returned", <<>>>>}, Outcomes(hs, H, "returned"))
      BY <1>1, OutcomesCover
    <2> HIDE DEF V, B, C
    <2>3. Over(g[n], Code)
      BY <1>4, <2>1, ChainTyped
    <2>4. Does(Cat(g[n], Close(n)), H, Outcomes(hs, H, "returned"))
      BY <1>4, <2>1, <2>2, ChainAlone
    <2>5. Over(Cat(g[n], Close(n)), Code)
      BY <1>2, <2>3, CatOver
    <2> QED
      BY <1>1, <1>2, <2>1, <2>3, <2>4, <2>5 DEF HandlersCode
  <1> QED
    BY <1>3, <1>4

(* create_action_dispatch *)
LEMMA ActionDispatch ==
    ASSUME NEW c, IsHandlers(ActionsOf(c)), NEW H
    PROVE  /\ Over(create_action_dispatch(c), Code)
           /\ Does(create_action_dispatch(c), H, Outcomes(ActionsOf(c), H, "no_action"))
  <1>0. PICK hs : hs = ActionsOf(c) /\ IsHandlers(hs)
    OBVIOUS
  <1>1. PICK n \in Nat : n = Len(hs)
    BY <1>0 DEF IsHandlers
  <1>2. PICK x \in Code : x = AssertCode("no_action")
    BY CodeHas
  <1>3. PICK e : e = <<x>> /\ Over(e, Code) /\ Len(e) = 1 /\ e[1] = AssertCode("no_action")
    BY <1>2, UnitOver
  <1>4. create_action_dispatch(c)
        = Cat(Cat(Cat(create_if(hs), When(Len(hs) > 0, <<Else>>)), e), Close(Len(hs)))
    BY <1>0, <1>2, <1>3 DEF create_action_dispatch, Cat
  <1>5. Over(Close(n), Code) /\ Close(0) = <<>> /\ Over(<<Else>>, Code)
    BY CodeHas, CloseFacts, UnitOver
  <1>6. CASE n = 0
    <2>0. create_if(hs) = <<>>
      BY <1>0, <1>1, <1>6, CreateIfNone
    <2>1. create_if(hs) = <<>> /\ When(Len(hs) > 0, <<Else>>) = <<>>
      BY <1>1, <1>6, <2>0 DEF When
    <2>2. Cat(<<>>, <<>>) = <<>> /\ Cat(<<>>, e) = e /\ Cat(e, <<>>) = e
      <3>1. Over(<<>>, Code)
        BY DEF Over
      <3> QED
        BY <1>3, <3>1, CatEmpty
    <2>3. create_action_dispatch(c) = e
      BY <1>1, <1>4, <1>5, <1>6, <2>1, <2>2
    <2>4. <<"no_action", <<>>>> \in Outcomes(hs, H, "no_action")
      BY <1>1, <1>6 DEF Outcomes
    <2>5. Does(e, H, Outcomes(hs, H, "no_action"))
      BY <1>3, <2>4, OneAssert
    <2> QED
      BY <1>0, <1>3, <2>3, <2>5
  <1>7. CASE n # 0
    <2> DEFINE V == [k \in 1 .. n |-> {<<"returned", <<hs[k].func>>>>}]
               B == [k \in 1 .. n |-> <<Call(hs[k].func)>>]
               C == [k \in 1 .. n |-> ActionCond(hs[k])]
               X == {<<"no_action", <<>>>>}
    <2>1. PICK g : create_if(hs) = g[n] /\ IsChain(g, C, B, n, Code)
      BY <1>0, <1>1, <1>7, CreateIfChain
    <2>2. /\ \A k \in 1 .. n : Does(B[k], H, V[k])
          /\ Covers(C, V, n, H, X, Outcomes(hs, H, "no_action"))
      BY <1>0, <1>1, OutcomesCover
    <2>3. Does(e, H, X)
      <3>1. <<"no_action", <<>>>> \in X
        OBVIOUS
      <3> HIDE DEF X
      <3> QED
        BY <1>3, <3>1, OneAssert
    <2> HIDE DEF V, B, C, X
    <2>4. Over(g[n], Code)
      BY <1>7, <2>1, ChainTyped
    <2>5. n \in 1 .. n
      BY <1>7
    <2>6. Does(Chained(g, e, n), H, Outcomes(hs, H, "no_action"))
      BY <1>3, <1>7, <2>1, <2>2, <2>3, <2>5, Chain
    <2>7. When(Len(hs) > 0, <<Else>>) = <<Else>>
      BY <1>1, <1>7 DEF When
    <2>8. create_action_dispatch(c) = Chained(g, e, n)
      BY <1>1, <1>4, <2>1, <2>7 DEF Chained
    <2>9. Over(Chained(g, e, n), Code)
      BY <1>3, <1>5, <2>4, CatOver DEF Chained
    <2> QED
      BY <1>0, <2>6, <2>8, <2>9
  <1> QED
    BY <1>6, <1>7

(* The codes that notify handlers are declared for *)
Groups(c) == FlattenSeq([k \in DOMAIN CodeOrder |->
                When(notify_handlers(c, CodeOrder[k]) # <<>>, <<CodeOrder[k]>>)])

CodeCond(x) == <<"code", string_to_regid(x)>>

(* The codes that have a group of handlers *)
LEMMA GroupsOf ==
    ASSUME NEW c
    PROVE  /\ Groups(c) \in Seq(ToSet(CodeOrder))
           /\ \A x : x \in ToSet(Groups(c)) <=> x \in ToSet(CodeOrder) /\ notify_handlers(c, x) # <<>>
  <1>1. PICK n \in Nat : n = Len(CodeOrder) /\ DOMAIN CodeOrder = 1 .. n
    BY CodeOrderAssumption
  <1> DEFINE S == ToSet(CodeOrder)
             seqs == [k \in 1 .. n |-> When(notify_handlers(c, CodeOrder[k]) # <<>>, <<CodeOrder[k]>>)]
  <1>2. \A k \in 1 .. n : CodeOrder[k] \in S
    BY <1>1 DEF ToSet
  <1>3. Groups(c) = FlattenSeq(seqs)
    BY <1>1 DEF Groups
  <1>4. \A x \in S : \E k \in 1 .. n : x = CodeOrder[k]
    BY <1>1 DEF ToSet
  <1> HIDE DEF S
  <1>5. \A k \in 1 .. n : seqs[k] \in Seq(S)
    <2> SUFFICES ASSUME NEW k \in 1 .. n PROVE seqs[k] \in Seq(S)
      OBVIOUS
    <2>1. PICK x \in S : x = CodeOrder[k]
      BY <1>2
    <2>2. <<x>> \in Seq(S) /\ <<>> \in Seq(S)
      OBVIOUS
    <2> QED
      BY <2>1, <2>2 DEF When
  <1>6. seqs \in Seq(Seq(S)) /\ Len(seqs) = n
    <2>1. seqs \in [1 .. n -> Seq(S)]
      BY <1>5
    <2> QED
      BY <2>1
  <1>7. \A k \in 1 .. n : \A x :
           x \in ToSet(seqs[k]) <=> x = CodeOrder[k] /\ notify_handlers(c, CodeOrder[k]) # <<>>
    <2> SUFFICES ASSUME NEW k \in 1 .. n, NEW x
                 PROVE  x \in ToSet(seqs[k]) <=> x = CodeOrder[k] /\ notify_handlers(c, CodeOrder[k]) # <<>>
      OBVIOUS
    <2>1. PICK y : y = CodeOrder[k]
      OBVIOUS
    <2>2. x \in ToSet(<<y>>) <=> x = y
      BY DEF ToSet
    <2>3. x \notin ToSet(<<>>)
      BY DEF ToSet
    <2>4. seqs[k] = IF notify_handlers(c, y) # <<>> THEN <<y>> ELSE <<>>
      BY <2>1 DEF When
    <2> HIDE DEF seqs
    <2> QED
      BY <2>1, <2>2, <2>3, <2>4
  <1> HIDE DEF seqs
  <1>8. Flat(FlattenSeq(seqs), seqs, n, S)
    BY <1>6, FlattenFacts
  <1>9. PICK l : l = Groups(c) /\ l \in Seq(S)
                 /\ \A x \in S : x \in ToSet(l) <=> \E i \in 1 .. n : x \in ToSet(seqs[i])
    BY <1>3, <1>8 DEF Flat
  <1>10. \A x : x \in ToSet(l) => x \in S
    BY <1>9 DEF ToSet
  <1>11. \A x : x \in ToSet(l) <=> x \in S /\ notify_handlers(c, x) # <<>>
    BY <1>4, <1>7, <1>9, <1>10
  <1> QED
    BY <1>9, <1>11 DEF S

(* The code for one account, and for all of them *)
GroupCode(c, x) == Cat(<<If(CodeCond(x))>>, HandlersCode(notify_handlers(c, x)))

(* The parts that create_notify_dispatch writes *)
LEMMA NotifyParts ==
    ASSUME NEW c, IsHandlers(notify_handlers(c, Star)),
           \A x \in ToSet(CodeOrder) : IsHandlers(notify_handlers(c, x)),
           NEW gs, gs = Groups(c), NEW n, n = Len(gs), NEW stars, stars = notify_handlers(c, Star)
    PROVE  create_notify_dispatch(c)
           = Cat(Cat(Cat(Cat(FlattenSeq([k \in 1 .. n |-> Cat(When(k > 1, <<Else>>), GroupCode(c, gs[k]))]),
                         When(stars # <<>> /\ gs # <<>>, <<Else>>)),
                     create_if(stars)), Close(Len(stars))), Close(Len(gs)))
  <1>1. gs \in Seq(ToSet(CodeOrder)) /\ DOMAIN gs = 1 .. n
    BY GroupsOf
  <1>2. \A k \in 1 .. n : gs[k] \in ToSet(CodeOrder)
    BY <1>1
  <1> DEFINE piece(x) == (<<If(<<"code", string_to_regid(x)>>)>> \o create_if(notify_handlers(c, x)))
                         \o Close(Len(notify_handlers(c, x)))
  <1>3. ASSUME NEW k \in 1 .. n PROVE piece(gs[k]) = GroupCode(c, gs[k])
    <2>1. PICK x \in ToSet(CodeOrder) : x = gs[k]
      BY <1>2
    <2>2. IsHandlers(notify_handlers(c, x))
      OBVIOUS
    <2>3. Over(create_if(notify_handlers(c, x)), Code) /\ Over(Close(Len(notify_handlers(c, x))), Code)
      BY <2>2, HandlersAlone
    <2>4. CodeCond(x) \in Conds
      <3>1. PICK j \in DOMAIN CodeOrder : x = CodeOrder[j]
        BY DEF ToSet
      <3> QED
        BY <3>1 DEF CodeCond, Conds, Regids
    <2>5. Over(<<If(CodeCond(x))>>, Code)
      <3>1. If(CodeCond(x)) \in Code
        BY <2>4 DEF Code
      <3> QED
        BY <3>1, UnitOver
    <2>6. PICK p, q, r : /\ p = <<If(CodeCond(x))>> /\ q = create_if(notify_handlers(c, x))
                         /\ r = Close(Len(notify_handlers(c, x)))
      OBVIOUS
    <2>7. piece(x) = Cat(Cat(p, q), r)
      BY <2>6 DEF Cat, CodeCond
    <2>8. GroupCode(c, x) = Cat(p, Cat(q, r))
      BY <2>6 DEF GroupCode, HandlersCode
    <2>9. Cat(Cat(p, q), r) = Cat(p, Cat(q, r))
      BY <2>3, <2>5, <2>6, CatAssoc
    <2> HIDE DEF piece
    <2> QED
      BY <2>1, <2>7, <2>8, <2>9
  <1>4. [k \in DOMAIN gs |-> When(k > 1, <<Else>>) \o piece(gs[k])]
        = [k \in 1 .. n |-> Cat(When(k > 1, <<Else>>), GroupCode(c, gs[k]))]
    <2> HIDE DEF piece
    <2> QED
      BY <1>1, <1>3 DEF Cat
  <1>5. create_notify_dispatch(c)
        = (((FlattenSeq([k \in DOMAIN gs |-> When(k > 1, <<Else>>) \o piece(gs[k])])
             \o When(stars # <<>> /\ gs # <<>>, <<Else>>))
            \o create_if(stars)) \o Close(Len(stars))) \o Close(Len(gs))
    BY DEF create_notify_dispatch, Groups
  <1> HIDE DEF piece
  <1> QED
    BY <1>4, <1>5 DEF Cat

(* Outcomes may be added. *)
LEMMA DoesMore ==
    ASSUME NEW b, NEW H, NEW V, NEW W, Does(b, H, V), V \subseteq W
    PROVE  Does(b, H, W)
  <1>1. PICK R : Runs(R, b, H, V)
    BY DEF Does
  <1>2. \A i, t : Follows(R, b, i, t, H, V) => Follows(R, b, i, t, H, W)
    BY DEF Follows
  <1>3. Runs(R, b, H, W)
    BY <1>1, <1>2 DEF Runs
  <1> QED
    BY <1>3 DEF Does

(* create_notify_dispatch: a notification runs the handlers of the group of its *)
(* account, or those for any account if it has no group (Writer.cpp:1126-1208). *)
LEMMA NotifyDispatch ==
    ASSUME NEW c, IsHandlers(notify_handlers(c, Star)),
           \A x \in ToSet(CodeOrder) : IsHandlers(notify_handlers(c, x)), NEW H, NEW W,
           \A x \in ToSet(CodeOrder) : notify_handlers(c, x) # <<>> /\ CodeCond(x) \in H =>
              Outcomes(notify_handlers(c, x), H, "returned") \subseteq W,
           (\A x \in ToSet(CodeOrder) : notify_handlers(c, x) # <<>> => CodeCond(x) \notin H) =>
              Outcomes(notify_handlers(c, Star), H, "returned") \subseteq W
    PROVE  Over(create_notify_dispatch(c), Code) /\ Does(create_notify_dispatch(c), H, W)
  <1>1. PICK gs, stars : gs = Groups(c) /\ stars = notify_handlers(c, Star)
    OBVIOUS
  <1>2. /\ gs \in Seq(ToSet(CodeOrder))
        /\ \A x : x \in ToSet(gs) <=> x \in ToSet(CodeOrder) /\ notify_handlers(c, x) # <<>>
    BY <1>1, GroupsOf
  <1>3. PICK n \in Nat : n = Len(gs) /\ DOMAIN gs = 1 .. n
    BY <1>2
  <1>4. \A k \in 1 .. n : gs[k] \in ToSet(CodeOrder) /\ notify_handlers(c, gs[k]) # <<>>
    BY <1>2, <1>3 DEF ToSet
  <1>5. \A x \in ToSet(CodeOrder) : notify_handlers(c, x) # <<>> => \E k \in 1 .. n : x = gs[k]
    BY <1>2, <1>3 DEF ToSet
  <1> DEFINE seqs == [k \in 1 .. n |-> Cat(When(k > 1, <<Else>>), GroupCode(c, gs[k]))]
             C == [k \in 1 .. n |-> CodeCond(gs[k])]
             B == [k \in 1 .. n |-> HandlersCode(notify_handlers(c, gs[k]))]
             V == [k \in 1 .. n |-> Outcomes(notify_handlers(c, gs[k]), H, "returned")]
             X == Outcomes(stars, H, "returned")
  <1>6. PICK ci, cl : ci = create_if(stars) /\ cl = Close(Len(stars))
    OBVIOUS
  <1>7. create_notify_dispatch(c)
        = Cat(Cat(Cat(Cat(FlattenSeq(seqs), When(stars # <<>> /\ gs # <<>>, <<Else>>)), ci), cl), Close(n))
    BY <1>1, <1>3, <1>6, NotifyParts
  <1>8. /\ Over(ci, Code) /\ Over(cl, Code) /\ HandlersCode(stars) = Cat(ci, cl)
        /\ Over(Cat(ci, cl), Code) /\ Does(Cat(ci, cl), H, X)
    BY <1>1, <1>6, HandlersAlone DEF HandlersCode
  <1>9. /\ Over(Close(n), Code) /\ Close(0) = <<>> /\ Over(<<Else>>, Code) /\ Over(<<>>, Code)
    <2>1. Over(<<>>, Code)
      BY DEF Over
    <2> QED
      BY <2>1, CodeHas, CloseFacts, UnitOver
  <1>10. (\A k \in 1 .. n : CodeCond(gs[k]) \notin H) => X \subseteq W
    BY <1>1, <1>5
  <1>11. CASE n = 0
    <2>1. seqs = <<>> /\ gs = <<>>
      BY <1>2, <1>3, <1>11
    <2>2. FlattenSeq(<<>>) = <<>>
      BY DEF FlattenSeq
    <2>3. When(stars # <<>> /\ gs # <<>>, <<Else>>) = <<>>
      BY <2>1 DEF When
    <2> HIDE DEF seqs, X
    <2>4. create_notify_dispatch(c) = Cat(Cat(Cat(Cat(<<>>, <<>>), ci), cl), <<>>)
      BY <1>7, <1>9, <1>11, <2>1, <2>2, <2>3
    <2>5. create_notify_dispatch(c) = Cat(ci, cl)
      BY <1>8, <1>9, <2>4, CatEmpty, CatOver
    <2>6. X \subseteq W
      BY <1>10, <1>11
    <2> QED
      BY <1>8, <2>5, <2>6, DoesMore
  <1>12. CASE n # 0
    <2>1. \A k \in 1 .. n : C[k] \in Conds /\ If(C[k]) \in Code /\ Over(B[k], Code) /\ Does(B[k], H, V[k])
      <3> SUFFICES ASSUME NEW k \in 1 .. n
                   PROVE  C[k] \in Conds /\ If(C[k]) \in Code /\ Over(B[k], Code) /\ Does(B[k], H, V[k])
        OBVIOUS
      <3>1. PICK x \in ToSet(CodeOrder) : x = gs[k]
        BY <1>4
      <3>2. CodeCond(x) \in Conds
        <4>1. PICK j \in DOMAIN CodeOrder : x = CodeOrder[j]
          BY DEF ToSet
        <4> QED
          BY <4>1 DEF CodeCond, Conds, Regids
      <3>3. If(CodeCond(x)) \in Code
        BY <3>2 DEF Code
      <3>4. /\ Over(HandlersCode(notify_handlers(c, x)), Code)
            /\ Does(HandlersCode(notify_handlers(c, x)), H, Outcomes(notify_handlers(c, x), H, "returned"))
        BY HandlersAlone
      <3> QED
        BY <3>1, <3>2, <3>3, <3>4
    <2>2. Len(seqs) = n
      OBVIOUS
    <2>3. \A k \in 1 .. n : seqs[k] = Cat(When(k > 1, <<Else>>), Cat(<<If(C[k])>>, B[k]))
      BY DEF GroupCode
    <2>4. Covers(C, V, n, H, X, W)
      <3>1. \A k \in 1 .. n : C[k] = CodeCond(gs[k]) /\ V[k] = Outcomes(notify_handlers(c, gs[k]), H, "returned")
        OBVIOUS
      <3>2. \A k \in 1 .. n : C[k] \in H => V[k] \subseteq W
        BY <1>4, <3>1
      <3> HIDE DEF C, V, X
      <3> QED
        BY <1>10, <3>1, <3>2 DEF Covers
    <2>40. stars = <<>> => <<"returned", <<>>>> \in X
      BY DEF Outcomes
    <2> HIDE DEF seqs, C, B, V, X
    <2>5. PICK g : Joins(g, seqs, n) /\ FlattenSeq(seqs) = g[n]
      BY <1>12, <2>2, FlattenJoins
    <2>6. IsChain(g, C, B, n, Code)
      BY <1>12, <2>1, <2>3, <2>5, CodeHas, JoinsChain
    <2>7. Over(g[n], Code)
      BY <1>12, <2>6, ChainTyped
    <2>8. gs # <<>>
      BY <1>3, <1>12
    <2>9. CASE stars # <<>>
      <3>1. When(stars # <<>> /\ gs # <<>>, <<Else>>) = <<Else>>
        BY <2>8, <2>9 DEF When
      <3>2. create_notify_dispatch(c) = Cat(Cat(Cat(Cat(g[n], <<Else>>), ci), cl), Close(n))
        BY <1>7, <2>5, <3>1
      <3>3. Cat(Cat(Cat(g[n], <<Else>>), ci), cl) = Cat(Cat(g[n], <<Else>>), Cat(ci, cl))
        BY <1>8, <1>9, <2>7, CatOver, CatAssoc
      <3>4. create_notify_dispatch(c) = Chained(g, Cat(ci, cl), n)
        BY <3>2, <3>3 DEF Chained
      <3>5. Over(Chained(g, Cat(ci, cl), n), Code)
        BY <1>8, <1>9, <2>7, CatOver DEF Chained
      <3>6. n \in 1 .. n /\ \A k \in 1 .. n : Does(B[k], H, V[k])
        BY <1>12, <2>1
      <3>7. Does(Chained(g, Cat(ci, cl), n), H, W)
        BY <1>8, <1>12, <2>4, <2>6, <3>6, Chain
      <3> QED
        BY <3>4, <3>5, <3>7
    <2>10. CASE stars = <<>>
      <3>1. When(stars # <<>> /\ gs # <<>>, <<Else>>) = <<>>
        BY <2>10 DEF When
      <3>2. ci = <<>> /\ cl = <<>>
        <4>1. IsHandlers(stars) /\ Len(stars) = 0
          BY <1>1, <2>10
        <4>2. create_if(stars) = <<>>
          BY <4>1, CreateIfNone
        <4> QED
          BY <1>6, <1>9, <4>1, <4>2
      <3>3. create_notify_dispatch(c) = Cat(Cat(Cat(Cat(g[n], <<>>), <<>>), <<>>), Close(n))
        BY <1>7, <2>5, <3>1, <3>2
      <3>4. create_notify_dispatch(c) = Cat(g[n], Close(n))
        BY <2>7, <3>3, CatEmpty
      <3>5. Over(Cat(g[n], Close(n)), Code)
        BY <1>9, <2>7, CatOver
      <3>6. \A k \in 1 .. n : Does(B[k], H, V[k])
        BY <2>1
      <3>7. Covers(C, V, n, H, {<<"returned", <<>>>>}, W)
        BY <2>4, <2>40, <2>10 DEF Covers
      <3>8. Does(Cat(g[n], Close(n)), H, W)
        BY <1>12, <2>6, <3>6, <3>7, ChainAlone
      <3> QED
        BY <3>4, <3>5, <3>8
    <2> QED
      BY <2>9, <2>10
  <1> QED
    BY <1>11, <1>12

-----------------------------------------------------------------------------
(* The handlers that are dispatched are those that are declared *)

(* The members of a list at the places of T, each in a list of its own, and  *)
(* in one list                                                               *)
Picks(seqs, s, T) == seqs = [k \in 1 .. Len(s) |-> When(k \in T, <<s[k]>>)]

Picked(l, s, T, S) ==
    /\ l \in Seq(S)
    /\ \A x : x \in ToSet(l) <=> \E k \in 1 .. Len(s) : k \in T /\ x = s[k]

(* What picking from a list leaves *)
LEMMA Selected ==
    ASSUME NEW S, NEW s, Over(s, S), NEW T, NEW seqs, Picks(seqs, s, T)
    PROVE  Picked(FlattenSeq(seqs), s, T, S)
  <1>1. PICK n \in Nat : n = Len(s) /\ \A k \in 1 .. n : s[k] \in S
    BY DEF Over
  <1>10. seqs = [k \in 1 .. n |-> When(k \in T, <<s[k]>>)]
    BY <1>1 DEF Picks
  <1>2. \A k \in 1 .. n : seqs[k] = IF k \in T THEN <<s[k]>> ELSE <<>>
    BY <1>10 DEF When
  <1>3. \A k \in 1 .. n : seqs[k] \in Seq(S)
    <2> SUFFICES ASSUME NEW k \in 1 .. n PROVE seqs[k] \in Seq(S)
      OBVIOUS
    <2>1. PICK x \in S : x = s[k]
      BY <1>1
    <2>2. <<x>> \in Seq(S) /\ <<>> \in Seq(S)
      OBVIOUS
    <2> QED
      BY <1>2, <2>1, <2>2
  <1>4. seqs \in Seq(Seq(S)) /\ Len(seqs) = n
    <2>1. seqs \in [1 .. n -> Seq(S)]
      BY <1>3, <1>10
    <2> QED
      BY <2>1
  <1>5. \A k \in 1 .. n : \A x : x \in ToSet(seqs[k]) <=> k \in T /\ x = s[k]
    <2> SUFFICES ASSUME NEW k \in 1 .. n, NEW x
                 PROVE  x \in ToSet(seqs[k]) <=> k \in T /\ x = s[k]
      OBVIOUS
    <2>1. PICK y : y = s[k]
      OBVIOUS
    <2>2. x \in ToSet(<<y>>) <=> x = y
      BY DEF ToSet
    <2>3. x \notin ToSet(<<>>)
      BY DEF ToSet
    <2> QED
      BY <1>2, <2>1, <2>2, <2>3
  <1>6. Flat(FlattenSeq(seqs), seqs, n, S)
    BY <1>4, FlattenFacts
  <1>7. PICK l : l = FlattenSeq(seqs) /\ l \in Seq(S)
                 /\ \A x \in S : x \in ToSet(l) <=> \E i \in 1 .. n : x \in ToSet(seqs[i])
    BY <1>6 DEF Flat
  <1>8. \A x : x \in ToSet(l) => x \in S
    BY <1>7 DEF ToSet
  <1>9. \A x : x \in ToSet(l) <=> \E k \in 1 .. n : k \in T /\ x = s[k]
    <2> SUFFICES ASSUME NEW x PROVE x \in ToSet(l) <=> \E k \in 1 .. n : k \in T /\ x = s[k]
      OBVIOUS
    <2>1. CASE x \in S
      <3>1. x \in ToSet(l) <=> \E i \in 1 .. n : x \in ToSet(seqs[i])
        BY <1>7, <2>1
      <3> QED
        BY <1>5, <3>1
    <2>2. CASE x \notin S
      BY <1>1, <1>8, <2>2
    <2> QED
      BY <2>1, <2>2
  <1> QED
    BY <1>1, <1>7, <1>9 DEF Picked

(* What is dispatched is what is declared. *)
LEMMA DispatchedFacts ==
    ASSUME NEW S, NEW s \in Seq(S)
    PROVE  Dispatched(s) \in Seq(S) /\ \A x : x \in ToSet(Dispatched(s)) <=> x \in ToSet(s)
  <1>1. PICK n \in Nat : n = Len(s) /\ DOMAIN s = 1 .. n
    OBVIOUS
  <1> DEFINE T == {k \in 1 .. n : \A j \in 1 .. (k - 1) : s[j] # s[k]}
             seqs == [k \in 1 .. n |-> When(k \in T, <<s[k]>>)]
  <1>2. [k \in 1 .. n |-> When(\A j \in 1 .. (k - 1) : s[j] # s[k], <<s[k]>>)] = seqs
    <2>1. \A k \in 1 .. n : When(\A j \in 1 .. (k - 1) : s[j] # s[k], <<s[k]>>) = When(k \in T, <<s[k]>>)
      BY DEF When
    <2> HIDE DEF T
    <2> QED
      BY <2>1
  <1>3. Dispatched(s) = FlattenSeq(seqs)
    BY <1>1, <1>2 DEF Dispatched
  <1>4. ASSUME NEW x PROVE (\E k \in 1 .. n : k \in T /\ x = s[k]) <=> x \in ToSet(s)
    <2>1. x \in ToSet(s) <=> \E k \in 1 .. n : x = s[k]
      BY <1>1 DEF ToSet
    <2>2. ASSUME NEW k \in 1 .. n, x = s[k] PROVE \E m \in 1 .. n : m \in T /\ x = s[m]
      <3> DEFINE U == {j \in 1 .. n : x = s[j]}
      <3>1. U \in SUBSET Nat /\ U # {}
        BY <2>2
      <3>2. PICK m \in U : \A j \in U : m <= j
        <4> HIDE DEF U
        <4> QED
          BY <3>1, LeastNatural
      <3>3. m \in 1 .. n /\ x = s[m]
        OBVIOUS
      <3>4. \A j \in 1 .. (m - 1) : s[j] # s[m]
        <4> SUFFICES ASSUME NEW j \in 1 .. (m - 1), s[j] = s[m] PROVE FALSE
          OBVIOUS
        <4>1. j \in U /\ j < m
          BY <3>3
        <4> QED
          BY <3>2, <4>1
      <3> QED
        BY <3>3, <3>4
    <2> HIDE DEF T
    <2> QED
      BY <2>1, <2>2
  <1>5. /\ FlattenSeq(seqs) \in Seq(S)
        /\ \A x : x \in ToSet(FlattenSeq(seqs)) <=> \E k \in 1 .. Len(s) : k \in T /\ x = s[k]
    <2> HIDE DEF T
    <2>1. Picks(seqs, s, T)
      BY <1>1 DEF Picks
    <2>2. Over(s, S)
      BY DEF Over
    <2> HIDE DEF seqs
    <2>3. Picked(FlattenSeq(seqs), s, T, S)
      BY <2>1, <2>2, Selected
    <2> QED
      BY <2>3 DEF Picked
  <1> HIDE DEF T, seqs
  <1> QED
    BY <1>1, <1>3, <1>4, <1>5

(* The handlers of a contract *)
ActionsIn(c) == UNION {ToSet(c.files[i].actions) : i \in DOMAIN c.files}
NotifyIn(c) == UNION {ToSet(c.files[i].notify) : i \in DOMAIN c.files}

(* The lists of all files, joined *)
LEMMA FilesJoined ==
    ASSUME NEW lists, NEW n \in Nat, DOMAIN lists = 1 .. n, lists \in [1 .. n -> Seq(Handler)]
    PROVE  /\ FlattenSeq(lists) \in Seq(Handler)
           /\ \A h : h \in ToSet(FlattenSeq(lists)) <=> \E i \in 1 .. n : h \in ToSet(lists[i])
  <1>0. PICK S : S = Handler
    OBVIOUS
  <1>1. lists \in Seq(Seq(S)) /\ Len(lists) = n
    BY <1>0
  <1>2. Flat(FlattenSeq(lists), lists, n, S)
    BY <1>1, FlattenFacts
  <1>3. PICK l : l = FlattenSeq(lists) /\ l \in Seq(S)
                 /\ \A x \in S : x \in ToSet(l) <=> \E i \in 1 .. n : x \in ToSet(lists[i])
    BY <1>2 DEF Flat
  <1>4. \A x : x \in ToSet(l) => x \in S
    BY <1>3 DEF ToSet
  <1>5. \A i \in 1 .. n : \A x : x \in ToSet(lists[i]) => x \in S
    <2> SUFFICES ASSUME NEW i \in 1 .. n, NEW x, x \in ToSet(lists[i]) PROVE x \in S
      OBVIOUS
    <2>1. lists[i] \in Seq(S)
      BY <1>0
    <2> QED
      BY <2>1 DEF ToSet
  <1> QED
    BY <1>0, <1>3, <1>4, <1>5

(* The actions that are dispatched are those the files declare. *)
LEMMA ActionsDeclared ==
    ASSUME NEW c \in Contract
    PROVE  ActionsOf(c) \in Seq(Handler) /\ \A h : h \in ToSet(ActionsOf(c)) <=> h \in ActionsIn(c)
  <1>1. c.files \in Seq(File)
    BY DEF Contract
  <1>2. PICK n \in Nat : DOMAIN c.files = 1 .. n /\ \A i \in 1 .. n : c.files[i] \in File
    BY <1>1
  <1> DEFINE lists == [i \in 1 .. n |-> c.files[i].actions]
  <1>3. lists \in [1 .. n -> Seq(Handler)] /\ DOMAIN lists = 1 .. n
    BY <1>2 DEF File
  <1>4. ActionsOf(c) = Dispatched(FlattenSeq(lists))
    BY <1>2 DEF ActionsOf
  <1>5. \A h : h \in ActionsIn(c) <=> \E i \in 1 .. n : h \in ToSet(lists[i])
    BY <1>2 DEF ActionsIn
  <1> HIDE DEF lists
  <1>6. PICK l : l = FlattenSeq(lists) /\ l \in Seq(Handler)
                 /\ \A h : h \in ToSet(l) <=> \E i \in 1 .. n : h \in ToSet(lists[i])
    BY <1>3, FilesJoined
  <1>7. Dispatched(l) \in Seq(Handler) /\ \A h : h \in ToSet(Dispatched(l)) <=> h \in ToSet(l)
    BY <1>6, DispatchedFacts
  <1> QED
    BY <1>4, <1>5, <1>6, <1>7

(* The notify handlers of a code are those the files declare for it. *)
LEMMA NotifyDeclared ==
    ASSUME NEW c \in Contract, NEW x
    PROVE  /\ notify_handlers(c, x) \in Seq(Handler)
           /\ \A h : h \in ToSet(notify_handlers(c, x)) <=> h \in NotifyIn(c) /\ h.code = x
  <1>1. c.files \in Seq(File)
    BY DEF Contract
  <1>2. PICK n \in Nat : DOMAIN c.files = 1 .. n /\ \A i \in 1 .. n : c.files[i] \in File
    BY <1>1
  <1> DEFINE lists == [i \in 1 .. n |-> c.files[i].notify]
  <1>3. lists \in [1 .. n -> Seq(Handler)] /\ DOMAIN lists = 1 .. n
    BY <1>2 DEF File
  <1>4. PICK all : all = Dispatched(FlattenSeq(lists))
    OBVIOUS
  <1>5. \A h : h \in NotifyIn(c) <=> \E i \in 1 .. n : h \in ToSet(lists[i])
    BY <1>2 DEF NotifyIn
  <1>40. notify_handlers(c, x) = FlattenSeq([k \in DOMAIN all |-> When(all[k].code = x, <<all[k]>>)])
    BY <1>2, <1>4 DEF notify_handlers
  <1> HIDE DEF lists
  <1>6. PICK l : l = FlattenSeq(lists) /\ l \in Seq(Handler)
                 /\ \A h : h \in ToSet(l) <=> \E i \in 1 .. n : h \in ToSet(lists[i])
    BY <1>3, FilesJoined
  <1>7. all \in Seq(Handler) /\ \A h : h \in ToSet(all) <=> h \in ToSet(l)
    BY <1>4, <1>6, DispatchedFacts
  <1>8. PICK m \in Nat : m = Len(all) /\ DOMAIN all = 1 .. m
    BY <1>7
  <1> DEFINE T == {k \in 1 .. m : all[k].code = x}
             seqs == [k \in 1 .. m |-> When(k \in T, <<all[k]>>)]
  <1>9. [k \in DOMAIN all |-> When(all[k].code = x, <<all[k]>>)] = seqs
    <2>1. \A k \in 1 .. m : When(all[k].code = x, <<all[k]>>) = When(k \in T, <<all[k]>>)
      BY DEF When
    <2> HIDE DEF T
    <2> QED
      BY <1>8, <2>1
  <1>10. /\ FlattenSeq(seqs) \in Seq(Handler)
         /\ \A h : h \in ToSet(FlattenSeq(seqs)) <=> \E k \in 1 .. m : k \in T /\ h = all[k]
    <2> HIDE DEF T
    <2>1. Picks(seqs, all, T)
      BY <1>8 DEF Picks
    <2>2. Over(all, Handler)
      BY <1>7 DEF Over
    <2> HIDE DEF seqs
    <2>3. Picked(FlattenSeq(seqs), all, T, Handler)
      BY <2>1, <2>2, Selected
    <2> QED
      BY <1>8, <2>3 DEF Picked
  <1>11. \A h : h \in ToSet(all) <=> \E k \in 1 .. m : h = all[k]
    BY <1>8 DEF ToSet
  <1>12. \A k \in 1 .. m : k \in T <=> all[k].code = x
    OBVIOUS
  <1> HIDE DEF T, seqs
  <1>13. \A h : (\E k \in 1 .. m : k \in T /\ h = all[k]) <=> h \in ToSet(all) /\ h.code = x
    BY <1>11, <1>12
  <1>14. \A h : h \in ToSet(all) <=> h \in NotifyIn(c)
    BY <1>5, <1>6, <1>7
  <1> QED
    BY <1>40, <1>9, <1>10, <1>13, <1>14

(* The conditions that hold in a call *)
Given == {<<"action", action>>, <<"code", code>>}

Meant == HandlersFor(IF code = Receiver THEN AllActions ELSE Addressed)

(* How the call of handlers M may end *)
Ends(M, none) ==
    {<<"returned", <<h.func>>>> : h \in M} \union {w \in {<<none, <<>>>>} : M = {}}

RightEnds == Ends(Meant, IF code = Receiver THEN "no_action" ELSE "returned")

(* The outcomes of handlers are those of the handlers that are meant. *)
LEMMA OutcomesMeant ==
    ASSUME NEW hs, IsHandlers(hs), NEW M, \A h : h \in ToSet(hs) <=> h \in M, NEW none
    PROVE  Outcomes(hs, Given, none) = Ends(HandlersFor(M), none)
  <1>1. PICK n \in Nat : n = Len(hs) /\ DOMAIN hs = 1 .. n
    BY DEF IsHandlers
  <1>2. \A h : ActionCond(h) \in Given <=> h.name = action
    BY DEF ActionCond, Given
  <1>3. \A h : h \in M <=> \E k \in 1 .. n : h = hs[k]
    BY <1>1 DEF ToSet
  <1>4. \A h : h \in HandlersFor(M) <=> \E k \in 1 .. n : h = hs[k] /\ ActionCond(hs[k]) \in Given
    BY <1>2, <1>3 DEF HandlersFor
  <1>5. (HandlersFor(M) = {}) <=> \A k \in 1 .. n : ActionCond(hs[k]) \notin Given
    BY <1>4
  <1>6. ASSUME NEW w PROVE w \in Outcomes(hs, Given, none) <=> w \in Ends(HandlersFor(M), none)
    <2>1. w \in Outcomes(hs, Given, none) <=>
             \/ \E k \in 1 .. n : ActionCond(hs[k]) \in Given /\ w = <<"returned", <<hs[k].func>>>>
             \/ w = <<none, <<>>>> /\ \A k \in 1 .. n : ActionCond(hs[k]) \notin Given
      BY <1>1 DEF Outcomes
    <2>2. w \in Ends(HandlersFor(M), none) <=>
             \/ \E h \in HandlersFor(M) : w = <<"returned", <<h.func>>>>
             \/ w = <<none, <<>>>> /\ HandlersFor(M) = {}
      BY DEF Ends
    <2>3. (\E h \in HandlersFor(M) : w = <<"returned", <<h.func>>>>) <=>
          (\E k \in 1 .. n : ActionCond(hs[k]) \in Given /\ w = <<"returned", <<hs[k].func>>>>)
      BY <1>4
    <2> QED
      BY <1>5, <2>1, <2>2, <2>3
  <1> QED
    BY <1>6

(* The handlers of a contract that is linked *)
LEMMA HandlersOfContract ==
    ASSUME HandlersApart, contract \in Contracts
    PROVE  /\ IsHandlers(ActionsOf(contract)) /\ \A x : IsHandlers(notify_handlers(contract, x))
           /\ \A h : h \in ToSet(ActionsOf(contract)) <=> h \in AllActions
           /\ \A x, h : h \in ToSet(notify_handlers(contract, x)) <=> h \in AllNotify /\ h.code = x
           /\ \A h \in AllNotify : h.code = Star \/ h.code \in ToSet(CodeOrder)
  <1>0. PICK c \in Contract : c = contract /\ c \in Contracts
    BY ContractAssumption
  <1>1. AllActions = ActionsIn(c) /\ AllNotify = NotifyIn(c)
    BY <1>0 DEF AllActions, AllNotify, Declared, ActionsIn, NotifyIn
  <1>2. ActionsOf(c) \in Seq(Handler) /\ \A h : h \in ToSet(ActionsOf(c)) <=> h \in ActionsIn(c)
    BY ActionsDeclared
  <1>3. \A x : notify_handlers(c, x) \in Seq(Handler)
    BY NotifyDeclared
  <1>4. \A x, h : h \in ToSet(notify_handlers(c, x)) <=> h \in NotifyIn(c) /\ h.code = x
    BY NotifyDeclared
  <1>5. \A h \in ActionsIn(c) \union NotifyIn(c) : h.func \notin Hooks
    BY <1>0 DEF HandlersApart, ActionsIn, NotifyIn
  <1>6. ASSUME NEW hs \in Seq(Handler), \A h : h \in ToSet(hs) => h \in ActionsIn(c) \union NotifyIn(c)
        PROVE  IsHandlers(hs)
    <2>1. \A k \in 1 .. Len(hs) : hs[k] \in ToSet(hs)
      BY DEF ToSet
    <2> QED
      BY <1>5, <1>6, <2>1 DEF IsHandlers
  <1>7. IsHandlers(ActionsOf(c))
    BY <1>2, <1>6
  <1>8. ASSUME NEW x PROVE IsHandlers(notify_handlers(c, x))
    <2>1. PICK hs : hs = notify_handlers(c, x)
      OBVIOUS
    <2>2. hs \in Seq(Handler) /\ \A h : h \in ToSet(hs) => h \in NotifyIn(c)
      BY <1>3, <1>4, <2>1
    <2> QED
      BY <1>6, <2>1, <2>2
  <1>9. \A h \in NotifyIn(c) : h.code = Star \/ h.code \in ToSet(CodeOrder)
    BY <1>0, CodeOrderAssumption DEF NotifyIn
  <1> QED
    BY <1>0, <1>1, <1>2, <1>4, <1>7, <1>8, <1>9

(* A call of the contract itself *)
LEMMA ActionsMeant ==
    ASSUME HandlersApart, contract \in Contracts, code = Receiver
    PROVE  Outcomes(ActionsOf(contract), Given, "no_action") \subseteq RightEnds
  <1>1. Outcomes(ActionsOf(contract), Given, "no_action") = Ends(HandlersFor(AllActions), "no_action")
    BY HandlersOfContract, OutcomesMeant
  <1> QED
    BY <1>1 DEF RightEnds, Meant

(* A notification *)
LEMMA NotifyMeant ==
    ASSUME CodesApart, HandlersApart, contract \in Contracts, code # Receiver
    PROVE  /\ \A x \in ToSet(CodeOrder) :
                 notify_handlers(contract, x) # <<>> /\ CodeCond(x) \in Given =>
                    Outcomes(notify_handlers(contract, x), Given, "returned") \subseteq RightEnds
           /\ (\A x \in ToSet(CodeOrder) : notify_handlers(contract, x) # <<>> => CodeCond(x) \notin Given) =>
                 Outcomes(notify_handlers(contract, Star), Given, "returned") \subseteq RightEnds
  <1>1. /\ \A x : IsHandlers(notify_handlers(contract, x))
        /\ \A x, h : h \in ToSet(notify_handlers(contract, x)) <=> h \in AllNotify /\ h.code = x
        /\ \A h \in AllNotify : h.code = Star \/ h.code \in ToSet(CodeOrder)
    BY HandlersOfContract
  <1>2. \A x : CodeCond(x) \in Given <=> string_to_regid(x) = code
    BY DEF CodeCond, Given
  <1>3. RightEnds = Ends(HandlersFor(Addressed), "returned")
    BY DEF RightEnds, Meant
  <1> DEFINE named == {h \in AllNotify : h.code # Star /\ string_to_regid(h.code) = code}
  <1>4. Addressed = IF named # {} THEN named ELSE {h \in AllNotify : h.code = Star}
    BY DEF Addressed
  <1>5. ASSUME NEW x \in ToSet(CodeOrder), notify_handlers(contract, x) # <<>>, CodeCond(x) \in Given
        PROVE  Outcomes(notify_handlers(contract, x), Given, "returned") \subseteq RightEnds
    <2>1. PICK hs : hs = notify_handlers(contract, x) /\ IsHandlers(hs)
      BY <1>1
    <2>2. \A h : h \in ToSet(hs) <=> h \in named
      <3> SUFFICES ASSUME NEW h PROVE h \in ToSet(hs) <=> h \in named
        OBVIOUS
      <3>1. ASSUME h \in ToSet(hs) PROVE h \in named
        BY <1>1, <1>2, <1>5, <2>1, <3>1 DEF CodesApart
      <3>2. ASSUME h \in named PROVE h \in ToSet(hs)
        <4>1. h.code = x
          BY <1>1, <1>2, <1>5, <3>2 DEF CodesApart
        <4> QED
          BY <1>1, <2>1, <3>2, <4>1
      <3> QED
        BY <3>1, <3>2
    <2>3. named # {}
      <3>1. hs \in Seq(Handler) /\ hs # <<>>
        BY <1>5, <2>1 DEF IsHandlers
      <3>2. hs[1] \in ToSet(hs)
        BY <3>1 DEF ToSet
      <3> HIDE DEF named
      <3> QED
        BY <2>2, <3>2
    <2> HIDE DEF named
    <2>4. Outcomes(hs, Given, "returned") = Ends(HandlersFor(named), "returned")
      BY <2>1, <2>2, OutcomesMeant
    <2> QED
      BY <1>3, <1>4, <2>1, <2>3, <2>4
  <1>6. ASSUME \A x \in ToSet(CodeOrder) : notify_handlers(contract, x) # <<>> => CodeCond(x) \notin Given
        PROVE  Outcomes(notify_handlers(contract, Star), Given, "returned") \subseteq RightEnds
    <2>1. PICK hs : hs = notify_handlers(contract, Star) /\ IsHandlers(hs)
      BY <1>1
    <2>2. named = {}
      <3> SUFFICES ASSUME NEW h \in named PROVE FALSE
        OBVIOUS
      <3>1. h.code \in ToSet(CodeOrder) /\ CodeCond(h.code) \in Given
        BY <1>1, <1>2
      <3>2. h \in ToSet(notify_handlers(contract, h.code))
        BY <1>1
      <3>3. notify_handlers(contract, h.code) # <<>>
        BY <3>2 DEF ToSet
      <3> QED
        BY <1>6, <3>1, <3>3
    <2> DEFINE all == {h \in AllNotify : h.code = Star}
    <2>3. \A h : h \in ToSet(hs) <=> h \in all
      BY <1>1, <2>1
    <2> HIDE DEF named, all
    <2>4. Outcomes(hs, Given, "returned") = Ends(HandlersFor(all), "returned")
      BY <2>1, <2>3, OutcomesMeant
    <2> QED
      BY <1>3, <1>4, <2>1, <2>2, <2>4 DEF all
  <1> QED
    BY <1>5, <1>6

(* The dispatch: if (code == receiver) actions else notifications *)
DispatchCode(c) ==
    Cat(Cat(Cat(Cat(<<If(<<"code", Receiver>>)>>, create_action_dispatch(c)), <<Else>>),
            create_notify_dispatch(c)), <<End>>)

(* The dispatch ends as the call is meant to. *)
LEMMA DispatchDoes ==
    ASSUME CodesApart, HandlersApart, contract \in Contracts
    PROVE  Over(DispatchCode(contract), Code) /\ Does(DispatchCode(contract), Given, RightEnds)
  <1>1. IsHandlers(ActionsOf(contract)) /\ \A x : IsHandlers(notify_handlers(contract, x))
    BY HandlersOfContract
  <1>2. PICK a, b, c : /\ a = create_action_dispatch(contract) /\ b = create_notify_dispatch(contract)
                       /\ c = <<"code", Receiver>>
    OBVIOUS
  <1> DEFINE V == Outcomes(ActionsOf(contract), Given, "no_action")
  <1>3. Over(a, Code) /\ Does(a, Given, V)
    BY <1>1, <1>2, ActionDispatch
  <1>4. c \in Conds
    BY <1>2 DEF Conds, Regids
  <1>5. If(c) \in Code /\ Else \in Code /\ End \in Code
    BY <1>4 DEF Code
  <1>6. c \in Given <=> code = Receiver
    BY <1>2 DEF Given
  <1> DEFINE all == UNION {Outcomes(notify_handlers(contract, x), Given, "returned")
                           : x \in ToSet(CodeOrder) \union {Star}}
             X == IF c \in Given THEN all ELSE RightEnds
  <1>7. Over(b, Code) /\ Does(b, Given, X)
    <2>1. CASE c \in Given
      <3>1. \A x \in ToSet(CodeOrder) \union {Star} :
               Outcomes(notify_handlers(contract, x), Given, "returned") \subseteq all
        OBVIOUS
      <3> HIDE DEF all
      <3>2. Over(b, Code) /\ Does(b, Given, all)
        BY <1>1, <1>2, <3>1, NotifyDispatch
      <3> QED
        BY <2>1, <3>2
    <2>2. CASE c \notin Given
      <3>1. Over(b, Code) /\ Does(b, Given, RightEnds)
        BY <1>1, <1>2, <1>6, <2>2, NotifyMeant, NotifyDispatch
      <3> QED
        BY <2>2, <3>1
    <2> QED
      BY <2>1, <2>2
  <1>8. (c \in Given => V \subseteq RightEnds) /\ (c \notin Given => X \subseteq RightEnds)
    <2>1. c \in Given => V \subseteq RightEnds
      BY <1>6, ActionsMeant
    <2> QED
      BY <2>1
  <1> HIDE DEF V, all, X
  <1>9. PICK s : s = Cat(Cat(Cat(Cat(<<If(c)>>, a), <<Else>>), b), <<End>>)
    OBVIOUS
  <1>10. IsBranch(s, c, a, b)
    BY <1>3, <1>5, <1>7, <1>9, BranchMade
  <1>11. Does(s, Given, RightEnds)
    BY <1>3, <1>4, <1>7, <1>8, <1>10, Branch
  <1>12. Over(s, Code)
    BY <1>3, <1>5, <1>7, <1>9, CatOver, UnitOver
  <1> QED
    BY <1>2, <1>9, <1>11, <1>12 DEF DispatchCode

-----------------------------------------------------------------------------
(* The whole apply *)

(* How long the code before and after the dispatch is *)
PreLen(c) == IF c.pre THEN 3 ELSE 1
PostLen(c) == IF c.post THEN 1 ELSE 0

(* Where the instructions of an apply are: s is createDispatchFunction(c),   *)
(* whose dispatch has n instructions.                                        *)
Shape(s, c, n) ==
    LET p == PreLen(c)
        q == PostLen(c)
    IN  /\ n \in Nat /\ Len(s) = p + n + q + (IF c.pre THEN 4 ELSE 2)
        /\ s[1] = Call("ctors")
        /\ c.pre => s[2] = Call("pre_dispatch") /\ s[3] = If(<<"pre_dispatch">>)
        /\ c.post => s[p + n + 1] = Call("post_dispatch")
        /\ s[p + n + q + 1] = Call("finalize")
        /\ s[Len(s)] = End
        /\ c.pre => /\ s[p + n + q + 2] = Else
                    /\ s[p + n + q + 3] = AssertCode("pre_dispatch_failed")

(* All the instructions of an apply *)
AllCode ==
    Code \union {If(<<"pre_dispatch">>), AssertCode("pre_dispatch_failed")} \union {Call(f) : f \in Hooks}

(* A list of at most two *)
LEMMA PairOver ==
    ASSUME NEW S, NEW x, NEW y, x \in S, y \in S
    PROVE  Over(<<x, y>>, S) /\ Len(<<x, y>>) = 2 /\ <<x, y>>[1] = x /\ <<x, y>>[2] = y
  BY DEF Over

(* A list and one or two more *)
LEMMA ThenOne ==
    ASSUME NEW c, NEW a, NEW b, NEW n \in Nat, Spliced(c, a, b), Len(a) = n, Len(b) = 1
    PROVE  Len(c) = n + 1 /\ (\A i \in 1 .. n : c[i] = a[i]) /\ c[n + 1] = b[1]
  <1>1. Len(c) = n + 1 /\ \A i \in 1 .. n : c[i] = a[i]
    BY DEF Spliced
  <1>2. \A i \in 1 .. 1 : c[n + i] = b[i]
    BY DEF Spliced
  <1> QED
    BY <1>1, <1>2

(* The same for two more *)
LEMMA ThenTwo ==
    ASSUME NEW c, NEW a, NEW b, NEW n \in Nat, Spliced(c, a, b), Len(a) = n, Len(b) = 2
    PROVE  /\ Len(c) = n + 2 /\ (\A i \in 1 .. n : c[i] = a[i])
           /\ c[n + 1] = b[1] /\ c[n + 2] = b[2]
  <1>1. Len(c) = n + 2 /\ \A i \in 1 .. n : c[i] = a[i]
    BY DEF Spliced
  <1>2. \A i \in 1 .. 2 : c[n + i] = b[i]
    BY DEF Spliced
  <1> QED
    BY <1>1, <1>2

(* The instructions of an apply are where they should be. *)
LEMMA BodyShape ==
    ASSUME NEW c, c.pre \in BOOLEAN, c.post \in BOOLEAN, NEW D, D = DispatchCode(c), Over(D, Code),
           NEW A, A = create_action_dispatch(c), Over(A, Code),
           NEW N, N = create_notify_dispatch(c), Over(N, Code)
    PROVE  /\ Shape(createDispatchFunction(c), c, Len(D))
           /\ Placed(D, createDispatchFunction(c), PreLen(c))
  <1>1. PICK ctors, pre, ifpre, post, fin, l, refuse, x :
            /\ ctors = Call("ctors") /\ pre = Call("pre_dispatch") /\ ifpre = If(<<"pre_dispatch">>)
            /\ post = Call("post_dispatch") /\ fin = Call("finalize") /\ l = Else
            /\ refuse = AssertCode("pre_dispatch_failed") /\ x = End
    OBVIOUS
  <1>2. /\ ctors \in AllCode /\ pre \in AllCode /\ ifpre \in AllCode /\ post \in AllCode
        /\ fin \in AllCode /\ l \in AllCode /\ refuse \in AllCode /\ x \in AllCode
    <2>1. ASSUME NEW f \in Hooks PROVE Call(f) \in AllCode
      BY DEF AllCode
    <2>2. Else \in AllCode /\ End \in AllCode
      BY DEF AllCode, Code
    <2>3. If(<<"pre_dispatch">>) \in AllCode /\ AssertCode("pre_dispatch_failed") \in AllCode
      BY DEF AllCode
    <2>4. PICK f1 \in Hooks, f2 \in Hooks, f3 \in Hooks, f4 \in Hooks :
              f1 = "ctors" /\ f2 = "pre_dispatch" /\ f3 = "post_dispatch" /\ f4 = "finalize"
      BY DEF Hooks
    <2>5. Call(f1) \in AllCode /\ Call(f2) \in AllCode /\ Call(f3) \in AllCode /\ Call(f4) \in AllCode
      BY <2>1
    <2> QED
      BY <1>1, <2>2, <2>3, <2>4, <2>5, Zenon
  <1>3. If(<<"code", Receiver>>) \in AllCode
    BY DEF AllCode, Code, Conds, Regids
  <1>4. Over(D, AllCode) /\ Over(A, AllCode) /\ Over(N, AllCode)
    <2>1. ASSUME NEW s, Over(s, Code) PROVE Over(s, AllCode)
      BY <2>1 DEF Over, AllCode
    <2> QED
      BY <2>1
  <1> HIDE DEF AllCode
  <1>5. PICK P, b, e, z : /\ P = When(c.pre, <<pre, ifpre>>) /\ b = When(c.post, <<post>>)
                          /\ e = When(c.pre, <<l, refuse>>) /\ z = <<If(<<"code", Receiver>>)>>
    OBVIOUS
  <1>6. Over(P, AllCode) /\ Over(b, AllCode) /\ Over(e, AllCode) /\ Over(z, AllCode)
    <2>1. Over(<<>>, AllCode)
      BY DEF Over
    <2> QED
      BY <1>2, <1>3, <1>5, <2>1, UnitOver, PairOver DEF When
  <1>7. /\ Over(<<ctors>>, AllCode) /\ Over(<<l>>, AllCode) /\ Over(<<x>>, AllCode)
        /\ Over(<<fin>>, AllCode)
    BY <1>2, UnitOver
  <1>8. PICK u1, u2, u3, u4, u5, u6 :
            /\ u1 = Cat(<<ctors>>, P) /\ u2 = Cat(u1, D) /\ u3 = Cat(u2, b) /\ u4 = Cat(u3, <<fin>>)
            /\ u5 = Cat(u4, e) /\ u6 = Cat(u5, <<x>>)
    OBVIOUS
  <1>9. /\ Over(u1, AllCode) /\ Over(u2, AllCode) /\ Over(u3, AllCode) /\ Over(u4, AllCode)
        /\ Over(u5, AllCode)
    BY <1>4, <1>6, <1>7, <1>8, CatOver
  <1>10. createDispatchFunction(c) = u6
    <2>1. createDispatchFunction(c)
          = Cat(Cat(Cat(Cat(Cat(Cat(Cat(Cat(Cat(u1, z), A), <<l>>), N), <<x>>), b), <<fin>>), e), <<x>>)
      BY <1>1, <1>5, <1>8 DEF createDispatchFunction, Cat
    <2>2. D = Cat(Cat(Cat(Cat(z, A), <<l>>), N), <<x>>)
      BY <1>1, <1>5 DEF DispatchCode
    <2>3. Cat(Cat(Cat(Cat(Cat(u1, z), A), <<l>>), N), <<x>>)
          = Cat(u1, Cat(Cat(Cat(Cat(z, A), <<l>>), N), <<x>>))
      BY <1>4, <1>6, <1>7, <1>9, CatOver, CatAssoc
    <2> QED
      BY <1>8, <2>1, <2>2, <2>3
  <1>11. /\ Spliced(u1, <<ctors>>, P) /\ Spliced(u2, u1, D) /\ Spliced(u3, u2, b)
         /\ Spliced(u4, u3, <<fin>>) /\ Spliced(u5, u4, e) /\ Spliced(u6, u5, <<x>>)
    <2>1. Spliced(u1, <<ctors>>, P)
      BY <1>6, <1>7, <1>8, CatFacts
    <2>2. Spliced(u2, u1, D)
      BY <1>4, <1>8, <1>9, CatFacts
    <2>3. Spliced(u3, u2, b)
      BY <1>6, <1>8, <1>9, CatFacts
    <2>4. Spliced(u4, u3, <<fin>>)
      BY <1>7, <1>8, <1>9, CatFacts
    <2>5. Spliced(u5, u4, e)
      BY <1>6, <1>8, <1>9, CatFacts
    <2>6. Spliced(u6, u5, <<x>>)
      BY <1>7, <1>8, <1>9, CatFacts
    <2> QED
      BY <2>1, <2>2, <2>3, <2>4, <2>5, <2>6
  <1>12. PICK p \in Nat, q \in Nat, n \in Nat : p = PreLen(c) /\ q = PostLen(c) /\ n = Len(D)
    <2>1. PreLen(c) \in Nat /\ PostLen(c) \in Nat
      BY DEF PreLen, PostLen
    <2>2. Len(D) \in Nat
      BY DEF Over
    <2> QED
      BY <2>1, <2>2
  <1>13. Len(u1) = p /\ u1[1] = ctors /\ (c.pre => u1[2] = pre /\ u1[3] = ifpre)
    <2>1. PICK a : a = <<ctors>> /\ Len(a) = 1 /\ a[1] = ctors /\ Spliced(u1, a, P)
      BY <1>2, <1>11, UnitOver
    <2>2. CASE c.pre
      <3>1. P = <<pre, ifpre>> /\ p = 3
        BY <1>5, <1>12, <2>2 DEF When, PreLen
      <3>2. Len(P) = 2 /\ P[1] = pre /\ P[2] = ifpre
        BY <1>2, <3>1, PairOver
      <3> QED
        BY <2>1, <2>2, <3>1, <3>2 DEF Spliced
    <2>3. CASE ~c.pre
      <3>1. P = <<>> /\ p = 1
        BY <1>5, <1>12, <2>3 DEF When, PreLen
      <3> QED
        BY <2>1, <2>3, <3>1 DEF Spliced
    <2> QED
      BY <2>2, <2>3
  <1>14. /\ Len(u2) = p + n /\ (\A i \in 1 .. p : u2[i] = u1[i]) /\ \A i \in 1 .. n : u2[p + i] = D[i]
    BY <1>11, <1>12, <1>13 DEF Spliced
  <1>15. /\ Len(u3) = p + n + q /\ (\A i \in 1 .. p + n : u3[i] = u2[i])
         /\ c.post => u3[p + n + 1] = post
    <2>1. CASE c.post
      <3>1. b = <<post>> /\ q = 1
        BY <1>5, <1>12, <2>1 DEF When, PostLen
      <3>2. Len(b) = 1 /\ b[1] = post
        BY <1>2, <3>1, UnitOver
      <3>3. PICK j \in Nat : j = p + n
        OBVIOUS
      <3>4. Len(u3) = j + 1 /\ (\A i \in 1 .. j : u3[i] = u2[i]) /\ u3[j + 1] = b[1]
        BY <1>11, <1>14, <3>2, <3>3, ThenOne
      <3> QED
        BY <3>1, <3>2, <3>3, <3>4
    <2>2. CASE ~c.post
      <3>1. b = <<>> /\ q = 0
        BY <1>5, <1>12, <2>2 DEF When, PostLen
      <3> QED
        BY <1>11, <1>14, <2>2, <3>1 DEF Spliced
    <2> QED
      BY <2>1, <2>2
  <1>16. PICK m \in Nat : m = p + n + q
    OBVIOUS
  <1>17. Len(u4) = m + 1 /\ (\A i \in 1 .. m : u4[i] = u3[i]) /\ u4[m + 1] = fin
    <2>1. PICK a : a = <<fin>> /\ Len(a) = 1 /\ a[1] = fin /\ Spliced(u4, u3, a)
      BY <1>2, <1>11, UnitOver
    <2> QED
      BY <1>15, <1>16, <2>1, ThenOne
  <1>18. PICK k \in Nat : k = m + (IF c.pre THEN 3 ELSE 1)
    OBVIOUS
  <1>19. /\ Len(u5) = k /\ (\A i \in 1 .. m + 1 : u5[i] = u4[i])
         /\ c.pre => u5[m + 2] = l /\ u5[m + 3] = refuse
    <2>1. CASE c.pre
      <3>1. e = <<l, refuse>>
        BY <1>5, <2>1 DEF When
      <3>2. Len(e) = 2 /\ e[1] = l /\ e[2] = refuse
        BY <1>2, <3>1, PairOver
      <3>3. PICK j \in Nat : j = m + 1 /\ j + 1 = m + 2 /\ j + 2 = m + 3
        OBVIOUS
      <3>4. /\ Len(u5) = j + 2 /\ (\A i \in 1 .. j : u5[i] = u4[i])
            /\ u5[j + 1] = e[1] /\ u5[j + 2] = e[2]
        BY <1>11, <1>17, <3>2, <3>3, ThenTwo
      <3>5. k = m + 3
        BY <1>18, <2>1
      <3> QED
        BY <3>2, <3>3, <3>4, <3>5
    <2>2. CASE ~c.pre
      <3>1. e = <<>>
        BY <1>5, <2>2 DEF When
      <3>2. Len(e) = 0 /\ k = m + 1 /\ Len(u4) = m + 1
        BY <1>17, <1>18, <2>2, <3>1
      <3> HIDE DEF Spliced
      <3>3. Spliced(u5, u4, e)
        BY <1>11
      <3> QED
        BY <2>2, <3>2, <3>3 DEF Spliced
    <2> QED
      BY <2>1, <2>2
  <1>20. Len(u6) = k + 1 /\ (\A i \in 1 .. k : u6[i] = u5[i]) /\ u6[k + 1] = x
    <2>1. PICK a : a = <<x>> /\ Len(a) = 1 /\ a[1] = x /\ Spliced(u6, u5, a)
      BY <1>2, <1>11, UnitOver
    <2> QED
      BY <1>18, <1>19, <2>1, ThenOne
  <1>21. \A i \in 1 .. m + 1 : i \in 1 .. k /\ u6[i] = u4[i]
    BY <1>18, <1>19, <1>20
  <1>22. \A i \in 1 .. m : u6[i] = u3[i]
    BY <1>17, <1>21
  <1>23. \A i \in 1 .. p + n : i \in 1 .. m /\ u6[i] = u2[i]
    BY <1>15, <1>16, <1>22
  <1>24. \A i \in 1 .. p : u6[i] = u1[i]
    BY <1>14, <1>23
  <1>25. \A i \in 1 .. n : u6[p + i] = D[i]
    BY <1>14, <1>23
  <1>26. Placed(D, u6, p)
    <2>0. m <= k /\ p + n <= m
      BY <1>16, <1>18
    <2>1. Len(D) \in Nat /\ Len(u6) \in Nat /\ p + Len(D) <= Len(u6)
      BY <1>12, <1>20, <2>0
    <2> QED
      BY <1>12, <1>25, <2>1 DEF Placed
  <1>27. u6[1] = ctors /\ (c.pre => u6[2] = pre /\ u6[3] = ifpre)
    <2>1. p >= 1 /\ (c.pre => p = 3)
      BY <1>12 DEF PreLen
    <2> QED
      BY <1>13, <1>24, <2>1
  <1>28. c.post => u6[p + n + 1] = post
    <2>1. c.post => p + n + 1 \in 1 .. m
      BY <1>12, <1>16 DEF PostLen
    <2> QED
      BY <1>15, <1>22, <2>1
  <1>29. u6[m + 1] = fin /\ u6[k + 1] = x
    BY <1>17, <1>20, <1>21
  <1>30. c.pre => u6[m + 2] = l /\ u6[m + 3] = refuse
    <2>1. c.pre => m + 2 \in 1 .. k /\ m + 3 \in 1 .. k
      BY <1>18
    <2> QED
      BY <1>19, <1>20, <2>1
  <1>31. Len(u6) = m + (IF c.pre THEN 4 ELSE 2) /\ k + 1 = Len(u6)
    BY <1>18, <1>20
  <1>32. Shape(u6, c, n)
    BY <1>1, <1>12, <1>16, <1>27, <1>28, <1>29, <1>30, <1>31 DEF Shape
  <1> QED
    BY <1>10, <1>12, <1>26, <1>32

-----------------------------------------------------------------------------
(* The machine's steps *)

(* One step of the machine *)
LEMMA StepOnlyRunning ==
    ASSUME Next
    PROVE  /\ status = "running" /\ contract' = contract /\ body' = body
           /\ code' = code /\ action' = action
  BY DEF Next, ExecIf, ExecElse, ExecEnd, ExecCall, ExecAssert, Return, Executing

(* A call returns, or fails a check. *)
LEMMA StepCall ==
    ASSUME Next, NEW n \in Nat, Len(body) = n, pc \in 1 .. n, NEW f, body[pc] = Call(f)
    PROVE  /\ trace' = Append(trace, f)
           /\ \/ /\ pc' = pc + 1 /\ status' = "running"
                 /\ result' \in IF f = "pre_dispatch" THEN BOOLEAN ELSE {result}
              \/ status' = "check_failed" /\ result' = result
  <1>1. status = "running"
    BY StepOnlyRunning
  <1>2. body[pc].op = "call" /\ body[pc].arg = <<f>> /\ body[pc].arg[1] = f
    BY DEF Call
  <1>3. ExecCall
    BY <1>2 DEF Next, ExecIf, ExecElse, ExecEnd, ExecCall, ExecAssert, Return, Executing
  <1> QED
    BY <1>1, <1>2, <1>3 DEF ExecCall

(* An if goes on, or to the next branch. *)
LEMMA StepIf ==
    ASSUME Next, NEW n \in Nat, Len(body) = n, pc \in 1 .. n, body[pc].op = "if"
    PROVE  /\ pc' = IF Holds(body[pc].arg) THEN pc + 1 ELSE NextBranch(pc, {"else", "end"}) + 1
           /\ trace' = trace /\ result' = result /\ status' = "running"
  <1>1. status = "running"
    BY StepOnlyRunning
  <1>3. ExecIf
    BY DEF Next, ExecIf, ExecElse, ExecEnd, ExecCall, ExecAssert, Return, Executing
  <1> QED
    BY <1>1, <1>3 DEF ExecIf

(* A branch that ends at else goes to its end. *)
LEMMA StepElse ==
    ASSUME Next, NEW n \in Nat, Len(body) = n, pc \in 1 .. n, body[pc].op = "else"
    PROVE  /\ pc' = NextBranch(pc, {"end"}) + 1
           /\ trace' = trace /\ result' = result /\ status' = "running"
  <1>1. status = "running"
    BY StepOnlyRunning
  <1>3. ExecElse
    BY DEF Next, ExecIf, ExecElse, ExecEnd, ExecCall, ExecAssert, Return, Executing
  <1> QED
    BY <1>1, <1>3 DEF ExecElse

(* An end goes on. *)
LEMMA StepEnd ==
    ASSUME Next, NEW n \in Nat, Len(body) = n, pc \in 1 .. n, body[pc].op = "end"
    PROVE  pc' = pc + 1 /\ trace' = trace /\ result' = result /\ status' = "running"
  <1>1. status = "running"
    BY StepOnlyRunning
  <1>3. ExecEnd
    BY DEF Next, ExecIf, ExecElse, ExecEnd, ExecCall, ExecAssert, Return, Executing
  <1> QED
    BY <1>1, <1>3 DEF ExecEnd

(* A failed assertion stops the contract with its code. *)
LEMMA StepAssert ==
    ASSUME Next, NEW n \in Nat, Len(body) = n, pc \in 1 .. n, body[pc].op = "assert"
    PROVE  status' = body[pc].arg[1] /\ trace' = trace /\ result' = result
  <1>1. status = "running"
    BY StepOnlyRunning
  <1>3. ExecAssert
    BY DEF Next, ExecIf, ExecElse, ExecEnd, ExecCall, ExecAssert, Return, Executing
  <1> QED
    BY <1>1, <1>3 DEF ExecAssert

(* Past its last instruction, apply returns. *)
LEMMA StepReturn ==
    ASSUME Next, NEW n \in Nat, Len(body) = n, pc = n + 1
    PROVE  status' = "returned" /\ trace' = trace /\ result' = result
  <1>3. Return
    BY DEF Next, ExecIf, ExecElse, ExecEnd, ExecCall, ExecAssert, Return, Executing
  <1> QED
    BY <1>3 DEF Return

(* Conditions *)
LEMMA HoldsGiven ==
    ASSUME NEW c \in Conds
    PROVE  Holds(c) <=> c \in Given
  <1>1. CASE c \in {"action"} \X Actions
    <2>1. PICK a : c = <<"action", a>>
      BY <1>1
    <2>2. Holds(c) <=> a = action
      BY <2>1 DEF Holds
    <2>3. c \in Given <=> a = action
      BY <2>1 DEF Given
    <2> QED
      BY <2>2, <2>3
  <1>2. CASE c \in {"code"} \X Regids
    <2>1. PICK a : c = <<"code", a>>
      BY <1>2
    <2>2. Holds(c) <=> a = code
      BY <2>1 DEF Holds
    <2>3. c \in Given <=> a = code
      BY <2>1 DEF Given
    <2> QED
      BY <2>2, <2>3
  <1> QED
    BY <1>1, <1>2 DEF Conds

(* A step within code whose runs are known *)
LEMMA StepInside ==
    ASSUME Next, NEW b, NEW o \in Nat, Placed(b, body, o), NEW R, NEW W, Runs(R, b, Given, W),
           NEW i \in 1 .. Len(b), NEW t, t \in R[i], pc = o + i
    PROVE  \/ /\ status' = "running" /\ result' = result
              /\ \E j \in 1 .. Len(b) + 1 :
                    /\ pc' = o + j
                    /\ \/ t \in R[j] /\ trace' = trace
                       \/ \E f \in STRING \ Hooks : Append(t, f) \in R[j] /\ trace' = Append(trace, f)
           \/ /\ status' = "check_failed" /\ result' = result
              /\ \E f \in STRING \ Hooks : trace' = Append(trace, f)
           \/ /\ status' = "no_action" /\ result' = result /\ trace' = trace
              /\ <<"no_action", t>> \in W
  <1>1. PICK m \in Nat : m = Len(body) /\ Len(b) \in Nat /\ pc \in 1 .. m /\ pc \in Nat
    BY DEF Placed
  <1>2. body[pc] = b[i]
    BY DEF Placed
  <1>3. Follows(R, b, i, t, Given, W)
    BY DEF Runs
  <1>4. (pc + 1) = o + (i + 1) /\ i + 1 \in 1 .. Len(b) + 1
    BY <1>1
  <1>5. ASSUME NEW ops, NEW q, Matches(b, i, q, ops)
        PROVE  NextBranch(pc, ops) + 1 = o + (q + 1) /\ q + 1 \in 1 .. Len(b) + 1
    <2>1. q \in (i + 1) .. Len(b)
      BY <1>5 DEF Matches
    <2>2. Matches(body, o + i, o + q, ops)
      BY <1>5, MatchPlaced
    <2>3. Matches(body, pc, o + q, ops)
      BY <2>2
    <2>4. NextBranch(pc, ops) = o + q
      BY <1>1, <2>3, MatchIsNext
    <2> QED
      BY <1>1, <2>1, <2>4
  <1>6. CASE body[pc].op = "if"
    <2>1. /\ pc' = IF Holds(body[pc].arg) THEN pc + 1 ELSE NextBranch(pc, {"else", "end"}) + 1
          /\ trace' = trace /\ result' = result /\ status' = "running"
      BY <1>1, <1>6, StepIf
    <2>2. b[i].arg \in Conds
      BY <1>2, <1>3, <1>6 DEF Follows
    <2>3. CASE b[i].arg \in Given
      <3>1. t \in R[i + 1]
        BY <1>2, <1>3, <1>6, <2>3 DEF Follows
      <3>2. pc' = o + (i + 1)
        BY <1>2, <1>4, <2>1, <2>2, <2>3, HoldsGiven
      <3> QED
        BY <1>4, <2>1, <3>1, <3>2
    <2>4. CASE b[i].arg \notin Given
      <3>1. PICK q : Matches(b, i, q, {"else", "end"}) /\ t \in R[q + 1]
        BY <1>2, <1>3, <1>6, <2>4 DEF Follows
      <3>2. pc' = NextBranch(pc, {"else", "end"}) + 1
        BY <1>2, <2>1, <2>2, <2>4, HoldsGiven
      <3>3. pc' = o + (q + 1) /\ q + 1 \in 1 .. Len(b) + 1
        BY <1>5, <3>1, <3>2
      <3> QED
        BY <2>1, <3>1, <3>3
    <2> QED
      BY <2>3, <2>4
  <1>7. CASE body[pc].op = "else"
    <2>1. pc' = NextBranch(pc, {"end"}) + 1 /\ trace' = trace /\ result' = result /\ status' = "running"
      BY <1>1, <1>7, StepElse
    <2>2. PICK q : Matches(b, i, q, {"end"}) /\ t \in R[q + 1]
      BY <1>2, <1>3, <1>7 DEF Follows
    <2>3. pc' = o + (q + 1) /\ q + 1 \in 1 .. Len(b) + 1
      BY <1>5, <2>1, <2>2
    <2> QED
      BY <2>1, <2>2, <2>3
  <1>8. CASE body[pc].op = "end"
    <2>1. pc' = pc + 1 /\ trace' = trace /\ result' = result /\ status' = "running"
      BY <1>1, <1>8, StepEnd
    <2>2. t \in R[i + 1]
      BY <1>2, <1>3, <1>8 DEF Follows
    <2> QED
      BY <1>4, <2>1, <2>2
  <1>9. CASE body[pc].op = "call"
    <2>1. PICK f \in STRING \ Hooks : b[i].arg = <<f>> /\ Append(t, f) \in R[i + 1]
      BY <1>2, <1>3, <1>9 DEF Follows
    <2>2. f # "pre_dispatch"
      BY DEF Hooks
    <2>3. ExecCall
      BY <1>1, <1>9 DEF Next, ExecIf, ExecElse, ExecEnd, ExecCall, ExecAssert, Return, Executing
    <2>4. body[pc].arg[1] = f
      BY <1>2, <2>1
    <2>5. /\ trace' = Append(trace, f) /\ result' = result
          /\ (pc' = pc + 1 /\ status' = status) \/ status' = "check_failed"
      BY <2>2, <2>3, <2>4 DEF ExecCall
    <2>6. status = "running"
      BY StepOnlyRunning
    <2> QED
      BY <1>4, <2>1, <2>5, <2>6
  <1>10. CASE body[pc].op = "assert"
    <2>1. status' = body[pc].arg[1] /\ trace' = trace /\ result' = result
      BY <1>1, <1>10, StepAssert
    <2>2. b[i].arg = <<"no_action">> /\ <<"no_action", t>> \in W
      BY <1>2, <1>3, <1>10 DEF Follows
    <2> QED
      BY <1>2, <2>1, <2>2
  <1> QED
    BY <1>2, <1>3, <1>6, <1>7, <1>8, <1>9, <1>10 DEF Follows

-----------------------------------------------------------------------------
(* The calls that are not hooks *)

(* The names of functions *)
Names == STRING \union Hooks

(* The calls among s that are not hooks; Called is Kept(trace) *)
Kept(s) == FlattenSeq([i \in DOMAIN s |-> When(s[i] \notin Hooks, <<s[i]>>)])

(* Joining has one result. *)
LEMMA JoinsUnique ==
    ASSUME NEW g, NEW h, NEW a, NEW b, NEW n \in Nat, Joins(g, a, n), Joins(h, b, n),
           \A k \in 1 .. n : a[k] = b[k], n # 0
    PROVE  g[n] = h[n]
  <1> DEFINE T == {m \in Nat : m + 1 <= n => g[m + 1] = h[m + 1]}
  <1>1. 0 \in T
    <2>1. g[1] = a[1] /\ h[1] = b[1] /\ a[1] = b[1] /\ 0 + 1 = 1
      BY DEF Joins
    <2> QED
      BY <2>1
  <1>2. ASSUME NEW m \in Nat, m \in T PROVE m + 1 \in T
    <2> SUFFICES ASSUME (m + 1) + 1 <= n PROVE g[(m + 1) + 1] = h[(m + 1) + 1]
      OBVIOUS
    <2>1. PICK j \in 1 .. n, k \in 2 .. n : j = m + 1 /\ k = (m + 1) + 1 /\ j = k - 1 /\ k \in 1 .. n
      OBVIOUS
    <2>2. g[k] = g[j] \o a[k] /\ h[k] = h[j] \o b[k]
      BY <2>1 DEF Joins
    <2>3. g[j] = h[j] /\ a[k] = b[k]
      BY <1>2, <2>1
    <2> QED
      BY <2>1, <2>2, <2>3
  <1>3. Nat \subseteq T
    <2> HIDE DEF T
    <2> QED
      BY <1>1, <1>2, NaturalInduction
  <1>4. PICK m \in Nat : m + 1 = n
    <2>1. n - 1 \in Nat /\ (n - 1) + 1 = n
      OBVIOUS
    <2> QED
      BY <2>1
  <1>5. m \in T
    BY <1>3
  <1> QED
    BY <1>4, <1>5

(* No calls, no handlers *)
LEMMA KeptNone == Kept(<<>>) = <<>>
  <1>1. [i \in DOMAIN <<>> |-> When(<<>>[i] \notin Hooks, <<<<>>[i]>>)] = <<>>
    OBVIOUS
  <1>2. FlattenSeq(<<>>) = <<>>
    BY DEF FlattenSeq
  <1> QED
    BY <1>1, <1>2 DEF Kept

(* A list and one more member of S *)
LEMMA AppendOver ==
    ASSUME NEW S, NEW s, Over(s, S), NEW x, x \in S
    PROVE  Over(Append(s, x), S)
  BY DEF Over

(* One more call *)
LEMMA KeptMore ==
    ASSUME NEW s, Over(s, Names), NEW x \in Names, Over(Kept(s), Names)
    PROVE  Kept(Append(s, x)) = Cat(Kept(s), When(x \notin Hooks, <<x>>))
  <1>1. PICK n \in Nat : n = Len(s) /\ DOMAIN s = 1 .. n
    BY DEF Over
  <1>2. PICK u : u = Append(s, x)
    OBVIOUS
  <1>3. PICK m \in Nat : m = n + 1 /\ Len(u) = m /\ DOMAIN u = 1 .. m /\ m \in 1 .. m /\ m # 0
    BY <1>1, <1>2 DEF Over
  <1>4. (\A i \in 1 .. n : u[i] = s[i]) /\ u[m] = x
    BY <1>1, <1>2, <1>3 DEF Over
  <1> DEFINE a == [i \in DOMAIN s |-> When(s[i] \notin Hooks, <<s[i]>>)]
             b == [i \in DOMAIN u |-> When(u[i] \notin Hooks, <<u[i]>>)]
  <1>5. Len(a) = n /\ Len(b) = m
    BY <1>1, <1>3
  <1>6. (\A k \in 1 .. n : a[k] = b[k]) /\ b[m] = When(x \notin Hooks, <<x>>)
    BY <1>1, <1>3, <1>4
  <1>7. Kept(s) = FlattenSeq(a) /\ Kept(u) = FlattenSeq(b)
    BY DEF Kept
  <1> HIDE DEF a, b
  <1>8. PICK h : Joins(h, b, m) /\ Kept(u) = h[m]
    BY <1>3, <1>5, <1>7, FlattenJoins
  <1>9. CASE n = 0
    <2>1. Kept(u) = b[m] /\ s = <<>>
      BY <1>1, <1>3, <1>8, <1>9 DEF Joins, Over
    <2>2. Kept(s) = <<>>
      BY <2>1, KeptNone
    <2>3. Over(When(x \notin Hooks, <<x>>), Names)
      <3>1. Over(<<>>, Names)
        BY CatEmpty
      <3> QED
        BY <3>1, UnitOver DEF When
    <2> QED
      BY <1>2, <1>6, <2>1, <2>2, <2>3, CatEmpty
  <1>10. CASE n # 0
    <2>1. PICK g : Joins(g, a, n) /\ Kept(s) = g[n]
      BY <1>5, <1>7, <1>10, FlattenJoins
    <2>2. Joins(h, b, n)
      <3>1. \A k \in 2 .. n : k \in 2 .. m
        BY <1>3
      <3> QED
        BY <1>8, <3>1 DEF Joins
    <2>3. g[n] = h[n]
      BY <1>6, <1>10, <2>1, <2>2, JoinsUnique
    <2>4. h[m] = h[n] \o b[m]
      <3>1. m \in 2 .. m /\ m - 1 = n
        BY <1>3, <1>10
      <3> QED
        BY <1>8, <3>1 DEF Joins
    <2> QED
      BY <1>2, <1>6, <1>8, <2>1, <2>3, <2>4 DEF Cat
  <1> QED
    BY <1>9, <1>10

(* A hook is no handler. *)
LEMMA KeptHook ==
    ASSUME NEW s, Over(s, Names), NEW x \in Hooks, Over(Kept(s), Names)
    PROVE  Over(Append(s, x), Names) /\ Kept(Append(s, x)) = Kept(s)
  <1>0. x \in Names
    BY DEF Names
  <1>1. x \in Names /\ Over(Append(s, x), Names)
    BY <1>0, AppendOver
  <1>2. When(x \notin Hooks, <<x>>) = <<>>
    BY DEF When
  <1> QED
    BY <1>1, <1>2, KeptMore, CatEmpty

(* The first call that is no hook is what is kept. *)
LEMMA KeptCall ==
    ASSUME NEW s, Over(s, Names), NEW x \in STRING \ Hooks, Kept(s) = <<>>
    PROVE  Over(Append(s, x), Names) /\ Kept(Append(s, x)) = <<x>>
  <1>0. x \in Names
    BY DEF Names
  <1>1. x \in Names /\ Over(Append(s, x), Names)
    BY <1>0, AppendOver
  <1>2. When(x \notin Hooks, <<x>>) = <<x>>
    BY DEF When
  <1>3. Over(<<>>, Names) /\ Over(<<x>>, Names)
    BY <1>1, UnitOver, CatEmpty
  <1>4. Kept(Append(s, x)) = Cat(Kept(s), <<x>>)
    BY <1>1, <1>2, <1>3, KeptMore
  <1> QED
    BY <1>1, <1>3, <1>4, CatEmpty

(* What has been called when the dispatch starts, when post_dispatch is over *)
(* and at the end, if the dispatch has called t.                             *)
Begun(c) == IF c.pre THEN <<"ctors", "pre_dispatch">> ELSE <<"ctors">>
Posted(c, t) == IF c.post THEN Append(Cat(Begun(c), t), "post_dispatch") ELSE Cat(Begun(c), t)
Full(c, t) == Append(Posted(c, t), "finalize")

(* Ways to write a list of two *)
LEMMA ListsOfTwo ==
    ASSUME NEW x, NEW y
    PROVE  Append(<<>>, x) = <<x>> /\ Append(<<x>>, y) = <<x, y>> /\ Cat(<<x>>, <<y>>) = <<x, y>>
  <1>1. PICK S : x \in S /\ y \in S
    <2>1. x \in {x, y} /\ y \in {x, y}
      OBVIOUS
    <2> QED
      BY <2>1
  <1>2. PICK e, a, b, p : e = <<>> /\ a = <<x>> /\ b = <<y>> /\ p = <<x, y>>
    OBVIOUS
  <1>3. /\ Over(a, S) /\ Len(a) = 1 /\ a[1] = x /\ Over(b, S) /\ Len(b) = 1 /\ b[1] = y
        /\ Over(p, S) /\ Len(p) = 2 /\ p[1] = x /\ p[2] = y
    BY <1>1, <1>2, UnitOver, PairOver
  <1>4. Over(Cat(a, b), S) /\ Spliced(Cat(a, b), a, b)
    BY <1>3, CatOver, CatFacts
  <1>5. PICK c : c = Cat(a, b)
    OBVIOUS
  <1>6. Len(c) = 2 /\ c[1] = x /\ c[2] = y
    BY <1>3, <1>4, <1>5 DEF Spliced
  <1>7. c = p
    <2>1. c \in Seq(S) /\ p \in Seq(S) /\ Len(c) = Len(p) /\ \A i \in 1 .. Len(c) : c[i] = p[i]
      BY <1>3, <1>4, <1>5, <1>6 DEF Over
    <2> QED
      BY <2>1, SeqEqual
  <1>8. Append(a, y) = Cat(a, b)
    BY <1>1, <1>2, <1>3 DEF Over, Cat
  <1>9. Append(<<>>, x) = <<x>>
    OBVIOUS
  <1> QED
    BY <1>2, <1>5, <1>7, <1>8, <1>9

(* Appending is joining with a list of one. *)
LEMMA AppendIsCat ==
    ASSUME NEW S, NEW a, Over(a, S), NEW x, x \in S
    PROVE  Append(a, x) = Cat(a, <<x>>)
  BY DEF Over, Cat

(* The hooks before the dispatch are no handlers. *)
LEMMA BegunFacts ==
    /\ Over(<<>>, Names) /\ Kept(<<>>) = <<>>
    /\ Over(<<"ctors">>, Names) /\ Kept(<<"ctors">>) = <<>>
    /\ Over(<<"ctors", "pre_dispatch">>, Names) /\ Kept(<<"ctors", "pre_dispatch">>) = <<>>
    /\ Append(<<>>, "ctors") = <<"ctors">>
    /\ Append(<<"ctors">>, "pre_dispatch") = <<"ctors", "pre_dispatch">>
  <1>1. /\ Append(<<>>, "ctors") = <<"ctors">>
        /\ Append(<<"ctors">>, "pre_dispatch") = <<"ctors", "pre_dispatch">>
    BY ListsOfTwo, Zenon
  <1>2. PICK x \in Hooks, y \in Hooks : x = "ctors" /\ y = "pre_dispatch"
    BY DEF Hooks
  <1>3. Over(<<>>, Names) /\ Kept(<<>>) = <<>>
    BY KeptNone DEF Over
  <1>4. PICK u0, u1, u2 : u0 = <<>> /\ u1 = Append(u0, x) /\ u2 = Append(u1, y)
    OBVIOUS
  <1>5. Over(u1, Names) /\ Kept(u1) = <<>>
    BY <1>3, <1>4, KeptHook
  <1>6. Over(u2, Names) /\ Kept(u2) = <<>>
    BY <1>3, <1>4, <1>5, KeptHook
  <1>7. u1 = <<"ctors">> /\ u2 = <<"ctors", "pre_dispatch">>
    BY <1>1, <1>2, <1>4
  <1> QED
    BY <1>1, <1>3, <1>5, <1>6, <1>7

(* Appending at the end *)
LEMMA CatAppend ==
    ASSUME NEW S, NEW a, NEW t, NEW x, Over(a, S), Over(t, S), x \in S
    PROVE  Append(Cat(a, t), x) = Cat(a, Append(t, x))
  <1>1. Append(t, x) = Cat(t, <<x>>) /\ Over(<<x>>, S)
    BY DEF Over, Cat
  <1>2. Over(Cat(a, t), S)
    BY CatOver
  <1>3. Append(Cat(a, t), x) = Cat(Cat(a, t), <<x>>)
    <2>1. PICK u : u = Cat(a, t) /\ Over(u, S)
      BY <1>2
    <2>2. Append(u, x) = Cat(u, <<x>>)
      BY <2>1 DEF Over, Cat
    <2> QED
      BY <2>1, <2>2
  <1> QED
    BY <1>1, <1>3, CatAssoc

(* The handler is what has been called beside the hooks. *)
LEMMA KeptFull ==
    ASSUME NEW c, c.pre \in BOOLEAN, c.post \in BOOLEAN, NEW t,
           t = <<>> \/ \E f \in STRING \ Hooks : t = <<f>>
    PROVE  Kept(Full(c, t)) = t
  <1>1. PICK b : b = Begun(c) /\ Over(b, Names) /\ Kept(b) = <<>>
    BY BegunFacts DEF Begun
  <1>2. PICK u : u = Cat(b, t)
    OBVIOUS
  <1>3. Over(u, Names) /\ Kept(u) = t /\ Over(t, Names)
    <2>1. CASE t = <<>>
      BY <1>1, <1>2, <2>1, CatEmpty
    <2>2. CASE \E f \in STRING \ Hooks : t = <<f>>
      <3>1. PICK f \in STRING \ Hooks : t = <<f>>
        BY <2>2
      <3>2. f \in Names
        BY DEF Names
      <3>5. u = Append(b, f)
        BY <1>1, <1>2, <3>1, <3>2, AppendIsCat
      <3>6. Over(t, Names)
        BY <3>1, <3>2, UnitOver
      <3> QED
        BY <1>1, <3>1, <3>5, <3>6, KeptCall
    <2> QED
      BY <2>1, <2>2
  <1>4. PICK x \in Hooks, y \in Hooks : x = "post_dispatch" /\ y = "finalize"
    BY DEF Hooks
  <1>5. PICK v : v = IF c.post THEN Append(u, x) ELSE u
    OBVIOUS
  <1>6. Over(v, Names) /\ Kept(v) = t
    BY <1>3, <1>5, KeptHook
  <1>7. Kept(Append(v, y)) = t
    BY <1>3, <1>6, KeptHook
  <1> QED
    BY <1>1, <1>2, <1>4, <1>5, <1>7 DEF Full, Posted

(* What HooksAround says the calls are *)
Around(c, t) ==
    <<"ctors">> \o When(c.pre, <<"pre_dispatch">>) \o t
    \o When(c.post, <<"post_dispatch">>) \o <<"finalize">>

(* The calls of an apply that returned, in order *)
LEMMA FullParts ==
    ASSUME NEW c, c.pre \in BOOLEAN, c.post \in BOOLEAN, NEW t, Over(t, Names)
    PROVE  Full(c, t) = Around(c, t)
  <1>1. PICK x \in Names, y \in Names, z \in Names, f \in Names :
            x = "ctors" /\ y = "pre_dispatch" /\ z = "post_dispatch" /\ f = "finalize"
    BY DEF Hooks, Names
  <1>2. Over(<<x>>, Names) /\ Over(<<y>>, Names) /\ Over(<<z>>, Names) /\ Over(<<f>>, Names)
    BY UnitOver
  <1>3. PICK b : b = Begun(c) /\ Over(b, Names)
    BY BegunFacts DEF Begun
  <1>4. b = Cat(<<x>>, When(c.pre, <<y>>))
    <2>1. CASE c.pre
      <3>1. b = <<x, y>> /\ When(c.pre, <<y>>) = <<y>>
        BY <1>1, <1>3, <2>1 DEF Begun, When
      <3> QED
        BY <3>1, ListsOfTwo
    <2>2. CASE ~c.pre
      <3>1. b = <<x>> /\ When(c.pre, <<y>>) = <<>>
        BY <1>1, <1>3, <2>2 DEF Begun, When
      <3> QED
        BY <1>2, <3>1, CatEmpty
    <2> QED
      BY <2>1, <2>2
  <1>5. PICK u : u = Cat(b, t) /\ Over(u, Names)
    BY <1>3, CatOver
  <1>6. PICK v : v = IF c.post THEN Append(u, z) ELSE u
    OBVIOUS
  <1>7. ASSUME NEW a, Over(a, Names), NEW w \in Names PROVE Append(a, w) = Cat(a, <<w>>)
    BY <1>7, AppendIsCat
  <1>8. Over(v, Names) /\ v = Cat(u, When(c.post, <<z>>))
    <2>1. CASE c.post
      <3>1. v = Append(u, z) /\ When(c.post, <<z>>) = <<z>>
        BY <1>6, <2>1 DEF When
      <3>2. Over(v, Names)
        BY <1>5, <3>1, AppendOver
      <3> QED
        BY <1>5, <1>7, <3>1, <3>2
    <2>2. CASE ~c.post
      <3>1. v = u /\ When(c.post, <<z>>) = <<>>
        BY <1>6, <2>2 DEF When
      <3> QED
        BY <1>5, <3>1, CatEmpty
    <2> QED
      BY <2>1, <2>2
  <1>9. Full(c, t) = Append(v, f)
    BY <1>1, <1>3, <1>5, <1>6 DEF Full, Posted
  <1>10. Append(v, f) = Cat(v, <<f>>)
    BY <1>7, <1>8
  <1>11. Full(c, t) = Cat(Cat(Cat(Cat(<<x>>, When(c.pre, <<y>>)), t), When(c.post, <<z>>)), <<f>>)
    BY <1>4, <1>5, <1>8, <1>9, <1>10
  <1> QED
    BY <1>1, <1>11 DEF Cat, Around

(* How a call may end *)
LEMMA EndsMean ==
    ASSUME HandlersApart, contract \in Contracts, NEW w, NEW t, <<w, t>> \in RightEnds
    PROVE  \/ w = "returned" /\ \E h \in Meant : t = <<h.func>> /\ h.func \in STRING \ Hooks
           \/ t = <<>> /\ Meant = {} /\ w = IF code = Receiver THEN "no_action" ELSE "returned"
  <1>1. PICK none : none = IF code = Receiver THEN "no_action" ELSE "returned"
    OBVIOUS
  <1>2. <<w, t>> \in Ends(Meant, none)
    BY <1>1 DEF RightEnds
  <1>3. (w = "returned" /\ \E h \in Meant : t = <<h.func>>) \/ (w = none /\ t = <<>> /\ Meant = {})
    BY <1>2 DEF Ends
  <1>4. ASSUME NEW h \in Meant PROVE h.func \in STRING \ Hooks
    <2>1. h \in AllActions \/ h \in AllNotify
      BY DEF Meant, HandlersFor, Addressed
    <2>2. ASSUME NEW hs, IsHandlers(hs), NEW g \in ToSet(hs) PROVE g.func \in STRING \ Hooks
      <3>1. PICK k \in 1 .. Len(hs) : g = hs[k]
        BY <2>2 DEF IsHandlers, ToSet
      <3>2. g \in Handler /\ g.func \notin Hooks
        BY <2>2, <3>1 DEF IsHandlers
      <3> QED
        BY <3>2 DEF Handler
    <2>3. CASE h \in AllActions
      BY <2>2, <2>3, HandlersOfContract
    <2>4. CASE h \in AllNotify
      <3>1. h \in ToSet(notify_handlers(contract, h.code)) /\ IsHandlers(notify_handlers(contract, h.code))
        BY <2>4, HandlersOfContract
      <3> QED
        BY <2>2, <3>1
    <2> QED
      BY <2>1, <2>3, <2>4
  <1> QED
    BY <1>1, <1>3, <1>4

-----------------------------------------------------------------------------
(* Where a call of apply can be *)

(* pre_dispatch, if there is one, has agreed, and the calls since then are   *)
(* those after it.                                                           *)
Agreed(c, res) == c.pre => res

Going(c, res, tr) ==
    Agreed(c, res) /\ \E u : Over(u, Names) /\ tr = Cat(Begun(c), u)

(* Where a call can be: c is the contract, H the conditions that hold, W how *)
(* the dispatch may end; at is the program counter, res what pre_dispatch    *)
(* returned, tr the calls made and st the status.                            *)
InDispatch(c, H, W, at, res, tr) ==
    /\ Going(c, res, tr)
    /\ \E R : /\ Runs(R, DispatchCode(c), H, W)
              /\ \E i \in 1 .. Len(DispatchCode(c)) + 1 : \E t \in R[i] :
                    at = PreLen(c) + i /\ tr = Cat(Begun(c), t)

HooksEnd(c) == PreLen(c) + Len(DispatchCode(c)) + PostLen(c) + 1

Refused(c, tr) == c.pre /\ tr = <<"ctors", "pre_dispatch">>

Running(c, H, W, at, res, tr) ==
    \/ at = 1 /\ tr = <<>>
    \/ at = 2 /\ tr = <<"ctors">> /\ c.pre
    \/ at = 3 /\ Refused(c, tr)
    \/ InDispatch(c, H, W, at, res, tr)
    \/ at = HooksEnd(c) /\ Going(c, res, tr) /\ \E t : <<"returned", t>> \in W /\ tr = Posted(c, t)
    \/ /\ at \in {HooksEnd(c) + 1, Len(createDispatchFunction(c)) + 1}
       /\ Going(c, res, tr) /\ \E t : <<"returned", t>> \in W /\ tr = Full(c, t)
    \/ at = HooksEnd(c) + 2 /\ Refused(c, tr)

Halted(c, W, res, tr, st) ==
    \/ st = "returned" /\ Going(c, res, tr) /\ \E t : <<"returned", t>> \in W /\ tr = Full(c, t)
    \/ st = "no_action" /\ Going(c, res, tr) /\ \E t : <<"no_action", t>> \in W
    \/ st = "pre_dispatch_failed" /\ Refused(c, tr)
    \/ st = "check_failed" /\ (Going(c, res, tr) \/ tr = <<"ctors">> \/ Refused(c, tr))

Reach(c, H, W, at, res, tr, st) ==
    IF st = "running" THEN Running(c, H, W, at, res, tr) ELSE Halted(c, W, res, tr, st)

(* One more call *)
LEMMA GoingOn ==
    ASSUME NEW c, c.pre \in BOOLEAN, NEW res, NEW tr, Going(c, res, tr), NEW x \in Names
    PROVE  Going(c, res, Append(tr, x))
  <1>1. PICK u : Over(u, Names) /\ tr = Cat(Begun(c), u)
    BY DEF Going
  <1>2. Over(Begun(c), Names)
    BY BegunFacts DEF Begun
  <1>3. Over(Append(u, x), Names)
    BY <1>1, AppendOver
  <1>4. Append(tr, x) = Cat(Begun(c), Append(u, x))
    BY <1>1, <1>2, CatAppend
  <1> QED
    BY <1>3, <1>4 DEF Going

(* The dispatch starts. *)
LEMMA DispatchStarts ==
    ASSUME NEW c, c.pre \in BOOLEAN, NEW res, Agreed(c, res), NEW H, NEW W,
           Does(DispatchCode(c), H, W)
    PROVE  InDispatch(c, H, W, PreLen(c) + 1, res, Begun(c))
  <1>1. Over(Begun(c), Names) /\ Over(<<>>, Names)
    BY BegunFacts DEF Begun
  <1>2. Begun(c) = Cat(Begun(c), <<>>)
    BY <1>1, CatEmpty
  <1>3. Going(c, res, Begun(c))
    BY <1>1, <1>2 DEF Going
  <1>0. PICK D : D = DispatchCode(c) /\ Does(D, H, W)
    OBVIOUS
  <1>4. PICK R : Runs(R, D, H, W)
    BY <1>0 DEF Does
  <1>5. <<>> \in R[1] /\ 1 \in 1 .. Len(D) + 1
    BY <1>0, <1>4 DEF Runs, Does, IsBlock
  <1> QED
    BY <1>0, <1>2, <1>3, <1>4, <1>5 DEF InDispatch

(* What is known of the code of a contract's apply: p, n and q instructions  *)
(* are those before the dispatch, of it, and post_dispatch.                  *)
Layout(s, c, p, n, q) ==
    /\ p = PreLen(c) /\ n = Len(DispatchCode(c)) /\ q = PostLen(c)
    /\ p \in Nat /\ n \in Nat /\ q \in Nat
    /\ Len(s) = p + n + q + (IF c.pre THEN 4 ELSE 2)
    /\ s[1] = Call("ctors")
    /\ c.pre => p = 3 /\ s[2] = Call("pre_dispatch") /\ s[3] = If(<<"pre_dispatch">>)
    /\ ~c.pre => p = 1
    /\ c.post => q = 1 /\ s[p + n + 1] = Call("post_dispatch")
    /\ ~c.post => q = 0
    /\ s[p + n + q + 1] = Call("finalize")
    /\ s[Len(s)] = End
    /\ c.pre => /\ s[p + n + q + 2] = Else
                /\ s[p + n + q + 3] = AssertCode("pre_dispatch_failed")

(* The apply of a contract that is linked *)
LEMMA ApplyLayout ==
    ASSUME CodesApart, HandlersApart, contract \in Contracts, body = createDispatchFunction(contract)
    PROVE  /\ contract.pre \in BOOLEAN /\ contract.post \in BOOLEAN
           /\ Does(DispatchCode(contract), Given, RightEnds)
           /\ Placed(DispatchCode(contract), body, PreLen(contract))
           /\ \E p, n, q : Layout(body, contract, p, n, q)
  <1>1. PICK c \in Contract : c = contract
    BY ContractAssumption
  <1>2. c.pre \in BOOLEAN /\ c.post \in BOOLEAN
    BY DEF Contract
  <1>3. Over(DispatchCode(c), Code) /\ Does(DispatchCode(c), Given, RightEnds)
    BY <1>1, DispatchDoes
  <1>4. Over(create_action_dispatch(c), Code) /\ Over(create_notify_dispatch(c), Code)
    <2>1. IsHandlers(ActionsOf(c)) /\ \A x : IsHandlers(notify_handlers(c, x))
      BY <1>1, HandlersOfContract
    <2>2. Over(create_action_dispatch(c), Code)
      BY <2>1, ActionDispatch
    <2>3. Over(create_notify_dispatch(c), Code)
      <3> DEFINE all == UNION {Outcomes(notify_handlers(c, x), Given, "returned")
                               : x \in ToSet(CodeOrder) \union {Star}}
      <3>1. \A x \in ToSet(CodeOrder) \union {Star} :
               Outcomes(notify_handlers(c, x), Given, "returned") \subseteq all
        OBVIOUS
      <3> HIDE DEF all
      <3> QED
        BY <2>1, <3>1, NotifyDispatch
    <2> QED
      BY <2>2, <2>3
  <1>5. /\ Shape(body, c, Len(DispatchCode(c)))
        /\ Placed(DispatchCode(c), body, PreLen(c))
    BY <1>1, <1>2, <1>3, <1>4, BodyShape
  <1>6. PICK p, n, q : p = PreLen(c) /\ q = PostLen(c) /\ n = Len(DispatchCode(c))
    OBVIOUS
  <1>7. p \in Nat /\ q \in Nat /\ (c.pre => p = 3) /\ (~c.pre => p = 1)
        /\ (c.post => q = 1) /\ (~c.post => q = 0)
    BY <1>2, <1>6 DEF PreLen, PostLen
  <1>8. Layout(body, c, p, n, q)
    BY <1>5, <1>6, <1>7 DEF Shape, Layout
  <1> QED
    BY <1>1, <1>2, <1>3, <1>5, <1>8

(* Calls added to a block leave it a block. *)
LEMMA BlockAndCalls ==
    ASSUME NEW b, IsBlock(b), NEW s, NEW m \in Nat, Len(s) = m, Len(b) <= m,
           \A i \in 1 .. Len(b) : s[i] = b[i],
           \A i \in (Len(b) + 1) .. m : s[i].op = "call"
    PROVE  IsBlock(s)
  <1>1. PICK n \in Nat : n = Len(b)
    BY DEF IsBlock
  <1>2. PICK d \in [1 .. n + 1 -> Nat] :
              /\ d[1] = 0 /\ d[n + 1] = 0
              /\ \A r \in 1 .. n : /\ d[r + 1] = d[r] + Delta(b[r])
                                   /\ b[r].op \in {"else", "end"} => d[r] # 0
    BY <1>1 DEF IsBlock
  <1> DEFINE f == [r \in 1 .. m + 1 |-> IF r <= n THEN d[r] ELSE 0]
  <1>3. f \in [1 .. m + 1 -> Nat]
    BY <1>1, <1>2
  <1>4. \A r \in 1 .. n + 1 : r \in 1 .. m + 1 /\ f[r] = d[r]
    <2>1. ASSUME NEW r \in 1 .. n + 1 PROVE r \in 1 .. m + 1 /\ f[r] = d[r]
      <3>1. CASE r <= n
        BY <1>1, <3>1
      <3>2. CASE r = n + 1
        BY <1>1, <1>2, <3>2
      <3> QED
        BY <3>1, <3>2
    <2> QED
      BY <2>1
  <1>5. \A r \in (n + 1) .. m + 1 : f[r] = 0
    BY <1>1
  <1> HIDE DEF f
  <1>6. ASSUME NEW r \in 1 .. m
        PROVE  f[r + 1] = f[r] + Delta(s[r]) /\ (s[r].op \in {"else", "end"} => f[r] # 0)
    <2>1. CASE r \in 1 .. n
      <3>1. r \in 1 .. n + 1 /\ r + 1 \in 1 .. n + 1
        BY <2>1
      <3>2. f[r] = d[r] /\ f[r + 1] = d[r + 1] /\ s[r] = b[r]
        BY <1>1, <1>4, <2>1, <3>1
      <3> QED
        BY <1>2, <2>1, <3>2
    <2>2. CASE r \notin 1 .. n
      <3>1. r \in (n + 1) .. m /\ r \in (n + 1) .. m + 1 /\ r + 1 \in (n + 1) .. m + 1
        BY <2>2
      <3>2. f[r] = 0 /\ f[r + 1] = 0 /\ s[r].op = "call"
        BY <1>1, <1>5, <3>1
      <3>3. Delta(s[r]) = 0
        BY <3>2 DEF Delta
      <3> QED
        BY <3>2, <3>3
    <2> QED
      BY <2>1, <2>2
  <1>7. f[1] = 0 /\ f[m + 1] = 0
    <2>1. 1 \in 1 .. n + 1 /\ m + 1 \in (n + 1) .. m + 1
      BY <1>1
    <2> QED
      BY <1>2, <1>4, <1>5, <2>1
  <1> QED
    BY <1>3, <1>6, <1>7 DEF IsBlock

(* The branch that is not taken when pre_dispatch refuses *)
LEMMA RefusalFound ==
    ASSUME NEW c, c.pre, c.post \in BOOLEAN, NEW p, NEW n, NEW q, Layout(body, c, p, n, q),
           IsBlock(DispatchCode(c)), Placed(DispatchCode(c), body, PreLen(c))
    PROVE  Matches(body, 3, p + n + q + 2, {"else", "end"})
  <1>1. /\ p = 3 /\ PreLen(c) = 3 /\ n \in Nat /\ q \in Nat /\ n = Len(DispatchCode(c))
        /\ Len(body) = p + n + q + 4
    BY DEF Layout
  <1>2. PICK D : D = DispatchCode(c) /\ Len(D) = n /\ IsBlock(D) /\ \A i \in 1 .. n : body[3 + i] = D[i]
    BY <1>1 DEF Placed
  <1>3. PICK m \in Nat : m = n + q + 1 /\ m >= n
    BY <1>1
  <1> DEFINE b == [i \in 1 .. m |-> body[3 + i]]
  <1>4. Len(b) = m /\ \A i \in 1 .. m : b[i] = body[3 + i]
    OBVIOUS
  <1> HIDE DEF b
  <1>5. \A i \in (n + 1) .. m : b[i].op = "call"
    <2> SUFFICES ASSUME NEW i \in (n + 1) .. m PROVE body[3 + i].op = "call"
      BY <1>1, <1>3, <1>4
    <2>1. CASE i = m
      <3>1. 3 + i = p + n + q + 1
        BY <1>1, <1>3, <2>1
      <3>2. body[p + n + q + 1].op = "call"
        BY DEF Layout, Call
      <3> QED
        BY <3>1, <3>2
    <2>2. CASE i # m
      <3>1. c.post /\ q = 1
        <4>1. (c.post => q = 1) /\ (~c.post => q = 0)
          BY DEF Layout
        <4>2. q # 0
          BY <1>1, <1>3, <2>2
        <4> QED
          BY <4>1, <4>2
      <3>2. 3 + i = p + n + 1
        BY <1>1, <1>3, <2>2, <3>1
      <3>3. body[p + n + 1].op = "call"
        BY <3>1 DEF Layout, Call
      <3> QED
        BY <3>2, <3>3
    <2> QED
      BY <2>1, <2>2
  <1>6. \A i \in 1 .. n : b[i] = D[i]
    BY <1>2, <1>3, <1>4
  <1>7. IsBlock(b)
    BY <1>2, <1>3, <1>4, <1>5, <1>6, BlockAndCalls
  <1>8. Placed(b, body, 3)
    BY <1>1, <1>3, <1>4 DEF Placed
  <1>9. PICK k \in Nat : k = p + n + q + 2 /\ k = (3 + m) + 1 /\ k <= Len(body)
    BY <1>1, <1>3
  <1>10. body[k].op \in {"else", "end"}
    BY <1>9 DEF Layout, Else
  <1>11. Matches(body, 3, (3 + Len(b)) + 1, {"else", "end"})
    BY <1>4, <1>7, <1>8, <1>9, <1>10, BlockSkipped
  <1> QED
    BY <1>4, <1>9, <1>11

(* The branch of the refusal is skipped when pre_dispatch agreed. *)
LEMMA RefusalSkipped ==
    ASSUME NEW c, c.pre, NEW p, NEW n, NEW q, Layout(body, c, p, n, q)
    PROVE  Matches(body, p + n + q + 2, Len(body), {"end"})
  <1>1. p \in Nat /\ n \in Nat /\ q \in Nat /\ Len(body) = p + n + q + 4
    BY DEF Layout
  <1>2. PICK k \in Nat : k = p + n + q + 2 /\ k + 1 = p + n + q + 3 /\ k + 2 = Len(body) /\ k # 0
    BY <1>1
  <1> DEFINE b == [i \in 1 .. 1 |-> body[k + 1]]
  <1>3. Len(b) = 1 /\ b[1] = body[k + 1]
    OBVIOUS
  <1> HIDE DEF b
  <1>4. b[1].op = "assert"
    BY <1>2, <1>3 DEF Layout, AssertCode
  <1>5. IsBlock(b)
    <2> DEFINE d == [i \in 1 .. 2 |-> 0]
    <2>1. d \in [1 .. 2 -> Nat] /\ d[1] = 0 /\ d[2] = 0
      OBVIOUS
    <2>2. Delta(b[1]) = 0
      BY <1>4 DEF Delta
    <2> HIDE DEF d
    <2> QED
      BY <1>3, <1>4, <2>1, <2>2 DEF IsBlock
  <1>6. Placed(b, body, k)
    <2>1. \A i \in 1 .. 1 : body[k + i] = b[i]
      BY <1>3
    <2>2. k + 1 <= Len(body) /\ Len(body) \in Nat
      BY <1>1, <1>2
    <2> QED
      BY <1>2, <1>3, <2>1, <2>2 DEF Placed
  <1>7. body[k + 2].op \in {"end"}
    <2>1. body[Len(body)] = End
      BY DEF Layout
    <2>2. body[k + 2] = End
      BY <1>2, <2>1
    <2> QED
      BY <2>2 DEF End
  <1>8. (k + Len(b)) + 1 = k + 2 /\ k + 2 <= Len(body)
    BY <1>2, <1>3
  <1>9. Matches(body, k, (k + Len(b)) + 1, {"end"})
    BY <1>2, <1>5, <1>6, <1>7, <1>8, BlockSkipped
  <1> QED
    BY <1>2, <1>8, <1>9

Laid(c, p, n, q) ==
    /\ c.pre \in BOOLEAN /\ c.post \in BOOLEAN
    /\ Does(DispatchCode(c), Given, RightEnds)
    /\ Placed(DispatchCode(c), body, PreLen(c))
    /\ Layout(body, c, p, n, q)
    /\ body = createDispatchFunction(c)

(* Lengths and positions in an apply *)
LEMMA LaidFacts ==
    ASSUME NEW c, NEW p, NEW n, NEW q, Laid(c, p, n, q)
    PROVE  /\ c.pre \in BOOLEAN /\ c.post \in BOOLEAN
           /\ p \in Nat /\ n \in Nat /\ q \in Nat /\ Len(body) \in Nat
           /\ p >= 1 /\ Len(body) >= p + n + q + 2
           /\ (c.pre => p = 3 /\ Len(body) = p + n + q + 4)
           /\ (~c.pre => p = 1 /\ Len(body) = p + n + q + 2)
           /\ (c.post => q = 1) /\ (~c.post => q = 0)
           /\ PreLen(c) = p /\ Len(DispatchCode(c)) = n /\ HooksEnd(c) = p + n + q + 1
           /\ Len(createDispatchFunction(c)) = Len(body)
  <1>1. c.pre \in BOOLEAN /\ c.post \in BOOLEAN /\ Layout(body, c, p, n, q)
        /\ Len(createDispatchFunction(c)) = Len(body)
    BY DEF Laid
  <1>2. /\ p = PreLen(c) /\ n = Len(DispatchCode(c)) /\ q = PostLen(c)
        /\ p \in Nat /\ n \in Nat /\ q \in Nat
        /\ (c.pre => p = 3) /\ (~c.pre => p = 1) /\ (c.post => q = 1) /\ (~c.post => q = 0)
        /\ Len(body) = p + n + q + (IF c.pre THEN 4 ELSE 2)
    BY <1>1 DEF Layout
  <1>3. HooksEnd(c) = p + n + q + 1
    BY <1>2 DEF HooksEnd
  <1>4. /\ p >= 1 /\ Len(body) \in Nat /\ Len(body) >= p + n + q + 2
        /\ (c.pre => Len(body) = p + n + q + 4) /\ (~c.pre => Len(body) = p + n + q + 2)
    <2>1. CASE c.pre
      BY <1>2, <2>1
    <2>2. CASE ~c.pre
      <3>1. p = 1 /\ Len(body) = p + n + q + 2
        BY <1>2, <2>2
      <3> QED
        BY <1>2, <2>2, <3>1
    <2> QED
      BY <2>1, <2>2
  <1> QED
    BY <1>1, <1>2, <1>3, <1>4

(* The constructors run first. *)
LEMMA FromStart ==
    ASSUME Next, NEW c, NEW p, NEW n, NEW q, Laid(c, p, n, q), pc = 1, trace = <<>>
    PROVE  Reach(c, Given, RightEnds, pc', result', trace', status')
  <1>1. /\ c.pre \in BOOLEAN /\ Len(body) \in Nat /\ pc \in 1 .. Len(body) /\ PreLen(c) = p
        /\ (c.pre => p = 3) /\ (~c.pre => p = 1)
    BY LaidFacts
  <1>2. body[pc] = Call("ctors")
    BY DEF Laid, Layout
  <1>3. PICK f : f = "ctors"
    OBVIOUS
  <1>4. /\ trace' = Append(trace, f)
        /\ (pc' = pc + 1 /\ status' = "running") \/ status' = "check_failed"
    BY <1>1, <1>2, <1>3, StepCall
  <1>5. trace' = <<"ctors">>
    BY <1>3, <1>4, BegunFacts
  <1>6. CASE status' = "check_failed"
    BY <1>5, <1>6 DEF Reach, Halted
  <1>7. CASE status' = "running" /\ pc' = pc + 1 /\ c.pre
    <2>1. pc' = 2
      BY <1>7
    <2> QED
      BY <1>5, <1>7, <2>1 DEF Reach, Running
  <1>8. CASE status' = "running" /\ pc' = pc + 1 /\ ~c.pre
    <2>1. pc' = PreLen(c) + 1 /\ trace' = Begun(c)
      BY <1>1, <1>5, <1>8 DEF Begun
    <2>2. Does(DispatchCode(c), Given, RightEnds)
      BY DEF Laid
    <2>3. InDispatch(c, Given, RightEnds, PreLen(c) + 1, result', Begun(c))
      <3>1. Agreed(c, result')
        BY <1>8 DEF Agreed
      <3> QED
        BY <1>1, <2>2, <3>1, DispatchStarts
    <2> QED
      BY <1>8, <2>1, <2>3 DEF Reach, Running
  <1> QED
    BY <1>4, <1>6, <1>7, <1>8

(* Then pre_dispatch. *)
LEMMA FromCtors ==
    ASSUME Next, NEW c, NEW p, NEW n, NEW q, Laid(c, p, n, q), c.pre, pc = 2, trace = <<"ctors">>
    PROVE  Reach(c, Given, RightEnds, pc', result', trace', status')
  <1>1. Len(body) \in Nat /\ pc \in 1 .. Len(body)
    BY LaidFacts
  <1>2. body[pc] = Call("pre_dispatch")
    BY DEF Laid, Layout
  <1>3. PICK f : f = "pre_dispatch"
    OBVIOUS
  <1>4. /\ trace' = Append(trace, f)
        /\ (pc' = pc + 1 /\ status' = "running") \/ status' = "check_failed"
    BY <1>1, <1>2, <1>3, StepCall
  <1>5. Refused(c, trace')
    BY <1>3, <1>4, BegunFacts DEF Refused
  <1>6. CASE status' = "check_failed"
    BY <1>5, <1>6 DEF Reach, Halted
  <1>7. CASE status' = "running" /\ pc' = pc + 1
    <2>1. pc' = 3
      BY <1>7
    <2> QED
      BY <1>5, <1>7, <2>1 DEF Reach, Running
  <1> QED
    BY <1>4, <1>6, <1>7

(* What it returned decides. *)
LEMMA FromTest ==
    ASSUME Next, NEW c, NEW p, NEW n, NEW q, Laid(c, p, n, q), pc = 3, Refused(c, trace)
    PROVE  Reach(c, Given, RightEnds, pc', result', trace', status')
  <1>1. /\ c.pre /\ c.pre \in BOOLEAN /\ c.post \in BOOLEAN /\ Len(body) \in Nat /\ pc \in 1 .. Len(body)
        /\ PreLen(c) = p /\ p = 3 /\ HooksEnd(c) = p + n + q + 1 /\ n \in Nat /\ q \in Nat
    BY LaidFacts DEF Refused
  <1>2. body[pc] = If(<<"pre_dispatch">>)
    BY <1>1 DEF Laid, Layout
  <1>3. body[pc].op = "if" /\ body[pc].arg = <<"pre_dispatch">>
    BY <1>2 DEF If
  <1>4. /\ pc' = IF Holds(body[pc].arg) THEN pc + 1 ELSE NextBranch(pc, {"else", "end"}) + 1
        /\ trace' = trace /\ result' = result /\ status' = "running"
    BY <1>1, <1>3, StepIf
  <1>5. Holds(<<"pre_dispatch">>) = result
    BY DEF Holds
  <1>6. CASE result
    <2>1. pc' = PreLen(c) + 1 /\ trace' = Begun(c)
      BY <1>1, <1>3, <1>4, <1>5, <1>6 DEF Begun, Refused
    <2>2. Does(DispatchCode(c), Given, RightEnds)
      BY DEF Laid
    <2>3. InDispatch(c, Given, RightEnds, PreLen(c) + 1, result, Begun(c))
      <3>1. Agreed(c, result)
        BY <1>6 DEF Agreed
      <3>2. PICK r : r = result
        OBVIOUS
      <3>3. c.pre \in BOOLEAN /\ Agreed(c, r)
        BY <1>1, <3>1, <3>2
      <3>4. InDispatch(c, Given, RightEnds, PreLen(c) + 1, r, Begun(c))
        BY <2>2, <3>3, DispatchStarts
      <3> QED
        BY <3>2, <3>4
    <2> QED
      BY <1>4, <2>1, <2>3 DEF Reach, Running
  <1>7. CASE ~result
    <2>1. pc' = NextBranch(pc, {"else", "end"}) + 1
      BY <1>3, <1>4, <1>5, <1>7
    <2>2. /\ IsBlock(DispatchCode(c)) /\ Placed(DispatchCode(c), body, PreLen(c))
          /\ Layout(body, c, p, n, q)
      BY DEF Laid, Does
    <2>3. Matches(body, 3, p + n + q + 2, {"else", "end"})
      BY <1>1, <2>2, RefusalFound
    <2>4. NextBranch(pc, {"else", "end"}) = p + n + q + 2
      BY <1>1, <2>3, MatchIsNext
    <2>5. pc' = HooksEnd(c) + 2
      BY <1>1, <2>1, <2>4
    <2>6. Refused(c, trace')
      BY <1>4
    <2> QED
      BY <1>4, <2>5, <2>6 DEF Reach, Running
  <1> QED
    BY <1>6, <1>7

(* A list of members of S is one of members of a larger set. *)
LEMMA OverMore ==
    ASSUME NEW S, NEW T, NEW a, Over(a, S), \A x : x \in S => x \in T
    PROVE  Over(a, T)
  BY DEF Over

(* finalize is called last. *)
LEMMA FromPosted ==
    ASSUME Next, NEW c, NEW p, NEW n, NEW q, Laid(c, p, n, q), pc = HooksEnd(c),
           Going(c, result, trace), NEW t, <<"returned", t>> \in RightEnds, trace = Posted(c, t)
    PROVE  Reach(c, Given, RightEnds, pc', result', trace', status')
  <1>1. /\ c.pre \in BOOLEAN /\ Len(body) \in Nat /\ pc \in 1 .. Len(body)
        /\ pc = p + n + q + 1
    BY LaidFacts
  <1>2. body[pc] = Call("finalize")
    BY <1>1 DEF Laid, Layout
  <1>3. PICK f \in Names : f = "finalize" /\ f # "pre_dispatch"
    BY DEF Names, Hooks
  <1>4. /\ trace' = Append(trace, f)
        /\ \/ /\ pc' = pc + 1 /\ status' = "running"
              /\ result' \in IF f = "pre_dispatch" THEN BOOLEAN ELSE {result}
           \/ status' = "check_failed" /\ result' = result
    BY <1>1, <1>2, <1>3, StepCall
  <1>5. result' = result /\ ((pc' = pc + 1 /\ status' = "running") \/ status' = "check_failed")
    BY <1>3, <1>4
  <1>6. Going(c, result', trace') /\ trace' = Full(c, t)
    BY <1>1, <1>3, <1>4, <1>5, GoingOn DEF Full
  <1>7. CASE status' = "check_failed"
    BY <1>6, <1>7 DEF Reach, Halted
  <1>8. CASE status' = "running" /\ pc' = pc + 1
    BY <1>6, <1>8 DEF Reach, Running
  <1> QED
    BY <1>5, <1>7, <1>8

(* The dispatch goes on, ends, or stops the call; then comes post_dispatch. *)
LEMMA FromDispatch ==
    ASSUME Next, NEW c, NEW p, NEW n, NEW q, Laid(c, p, n, q),
           InDispatch(c, Given, RightEnds, pc, result, trace)
    PROVE  Reach(c, Given, RightEnds, pc', result', trace', status')
  <1>1. /\ c.pre \in BOOLEAN /\ c.post \in BOOLEAN /\ Len(body) \in Nat /\ p \in Nat /\ n \in Nat
        /\ Len(body) >= p + n + q + 2 /\ HooksEnd(c) = p + n + q + 1
        /\ PreLen(c) = p /\ Len(DispatchCode(c)) = n /\ (c.post => q = 1) /\ (~c.post => q = 0)
    BY LaidFacts
  <1>2. PICK D : D = DispatchCode(c) /\ Len(D) = n /\ Placed(D, body, p)
    BY <1>1 DEF Laid
  <1>3. Going(c, result, trace)
    BY DEF InDispatch
  <1>4. PICK R : /\ Runs(R, D, Given, RightEnds)
                 /\ \E i \in 1 .. n + 1 : \E t \in R[i] : pc = p + i /\ trace = Cat(Begun(c), t)
    BY <1>1, <1>2 DEF InDispatch
  <1>5. PICK i \in 1 .. n + 1 : \E t \in R[i] : pc = p + i /\ trace = Cat(Begun(c), t)
    BY <1>4
  <1>6. PICK t \in R[i] : pc = p + i /\ trace = Cat(Begun(c), t)
    BY <1>5
  <1>7. CASE i \in 1 .. n
    <2>1. \/ /\ status' = "running" /\ result' = result
             /\ \E j \in 1 .. n + 1 :
                   /\ pc' = p + j
                   /\ \/ t \in R[j] /\ trace' = trace
                      \/ \E f \in STRING \ Hooks : Append(t, f) \in R[j] /\ trace' = Append(trace, f)
          \/ /\ status' = "check_failed" /\ result' = result
             /\ \E f \in STRING \ Hooks : trace' = Append(trace, f)
          \/ /\ status' = "no_action" /\ result' = result /\ trace' = trace
             /\ <<"no_action", t>> \in RightEnds
      BY <1>1, <1>2, <1>4, <1>6, <1>7, StepInside
    <2>2. ASSUME NEW f \in STRING \ Hooks, trace' = Append(trace, f), result' = result
          PROVE  Going(c, result', trace')
      <3>1. f \in Names
        BY DEF Names
      <3> QED
        BY <1>1, <1>3, <2>2, <3>1, GoingOn
    <2>3. CASE status' = "check_failed"
      BY <2>1, <2>2, <2>3 DEF Reach, Halted
    <2>4. CASE status' = "no_action"
      BY <1>3, <2>1, <2>4 DEF Reach, Halted
    <2>5. CASE status' = "running"
      <3>1. PICK j \in 1 .. n + 1 :
                   /\ pc' = p + j
                   /\ \/ t \in R[j] /\ trace' = trace
                      \/ \E f \in STRING \ Hooks : Append(t, f) \in R[j] /\ trace' = Append(trace, f)
        BY <2>1, <2>5
      <3>2. result' = result
        BY <2>1, <2>5
      <3>3. \E v \in R[j] : trace' = Cat(Begun(c), v) /\ Going(c, result', trace')
        <4>1. CASE t \in R[j] /\ trace' = trace
          BY <1>3, <1>6, <3>2, <4>1
        <4>2. CASE \E f \in STRING \ Hooks : Append(t, f) \in R[j] /\ trace' = Append(trace, f)
          <5>1. PICK f \in STRING \ Hooks : Append(t, f) \in R[j] /\ trace' = Append(trace, f)
            BY <4>2
          <5>2. Going(c, result', trace')
            BY <2>2, <3>2, <5>1
          <5>3. f \in Names /\ Over(Begun(c), Names)
            BY <1>1, BegunFacts DEF Names, Begun
          <5>4. Over(t, Names)
            <6>1. t \in Seq(STRING)
              BY <1>2, <1>4 DEF Runs
            <6>2. \A x : x \in STRING => x \in Names
              BY DEF Names
            <6>3. Over(t, STRING)
              BY <6>1 DEF Over
            <6> QED
              BY <6>2, <6>3, OverMore
          <5>5. trace' = Cat(Begun(c), Append(t, f))
            <6>1. PICK b : b = Begun(c) /\ Over(b, Names)
              BY <5>3
            <6>2. PICK g \in Names : g = f
              BY <5>3
            <6>3. Append(Cat(b, t), g) = Cat(b, Append(t, g))
              BY <5>4, <6>1, CatAppend
            <6> QED
              BY <1>6, <5>1, <6>1, <6>2, <6>3
          <5> QED
            BY <5>1, <5>2, <5>5
        <4> QED
          BY <3>1, <4>1, <4>2
      <3>4. InDispatch(c, Given, RightEnds, pc', result', trace')
        <4>1. PICK v \in R[j] : trace' = Cat(Begun(c), v) /\ Going(c, result', trace')
          BY <3>3
        <4>2. j \in 1 .. Len(DispatchCode(c)) + 1 /\ pc' = PreLen(c) + j
          BY <1>1, <3>1
        <4> QED
          BY <1>2, <1>4, <4>1, <4>2 DEF InDispatch
      <3> QED
        BY <2>5, <3>4 DEF Reach, Running
    <2> QED
      BY <2>1, <2>3, <2>4, <2>5
  <1>8. CASE i = n + 1
    <2>1. <<"returned", t>> \in RightEnds
      BY <1>2, <1>4, <1>6, <1>8 DEF Runs
    <2>2. CASE ~c.post
      <3>1. pc = HooksEnd(c)
        BY <1>1, <1>6, <1>8, <2>2
      <3>2. trace = Posted(c, t)
        BY <1>6, <2>2 DEF Posted
      <3> QED
        BY <1>3, <2>1, <3>1, <3>2, FromPosted
    <2>3. CASE c.post
      <3>1. q = 1 /\ pc = p + n + 1 /\ pc \in 1 .. Len(body) /\ pc + 1 = HooksEnd(c)
        BY <1>1, <1>6, <1>8, <2>3
      <3>2. body[pc] = Call("post_dispatch")
        BY <2>3, <3>1 DEF Laid, Layout
      <3>3. PICK f \in Names : f = "post_dispatch" /\ f # "pre_dispatch"
        BY DEF Names, Hooks
      <3>4. /\ trace' = Append(trace, f)
            /\ \/ /\ pc' = pc + 1 /\ status' = "running"
                  /\ result' \in IF f = "pre_dispatch" THEN BOOLEAN ELSE {result}
               \/ status' = "check_failed" /\ result' = result
        BY <1>1, <3>1, <3>2, <3>3, StepCall
      <3>5. result' = result /\ ((pc' = pc + 1 /\ status' = "running") \/ status' = "check_failed")
        BY <3>3, <3>4
      <3>6. Going(c, result', trace') /\ trace' = Posted(c, t)
        BY <1>1, <1>3, <1>6, <2>3, <3>3, <3>4, <3>5, GoingOn DEF Posted
      <3>7. CASE status' = "check_failed"
        BY <3>6, <3>7 DEF Reach, Halted
      <3>8. CASE status' = "running" /\ pc' = pc + 1
        BY <2>1, <3>1, <3>6, <3>8 DEF Reach, Running
      <3> QED
        BY <3>5, <3>7, <3>8
    <2> QED
      BY <1>1, <2>2, <2>3
  <1> QED
    BY <1>1, <1>7, <1>8

(* After finalize nothing but ends is left. *)
LEMMA FromFull ==
    ASSUME Next, NEW c, NEW p, NEW n, NEW q, Laid(c, p, n, q),
           pc \in {HooksEnd(c) + 1, Len(createDispatchFunction(c)) + 1},
           Going(c, result, trace), NEW t, <<"returned", t>> \in RightEnds, trace = Full(c, t)
    PROVE  Reach(c, Given, RightEnds, pc', result', trace', status')
  <1>1. /\ c.pre \in BOOLEAN /\ Len(body) \in Nat /\ p \in Nat /\ n \in Nat /\ q \in Nat
        /\ HooksEnd(c) = p + n + q + 1 /\ Len(createDispatchFunction(c)) = Len(body)
        /\ (c.pre => Len(body) = p + n + q + 4) /\ (~c.pre => Len(body) = p + n + q + 2)
    BY LaidFacts
  <1>2. CASE pc = Len(body) + 1
    <2>1. status' = "returned" /\ trace' = trace /\ result' = result
      BY <1>1, <1>2, StepReturn
    <2> QED
      BY <2>1 DEF Reach, Halted
  <1>3. CASE pc = HooksEnd(c) + 1 /\ c.pre
    <2>1. pc = p + n + q + 2 /\ pc \in 1 .. Len(body) /\ pc \in Nat
      BY <1>1, <1>3
    <2>2. body[pc].op = "else"
      BY <1>3, <2>1 DEF Laid, Layout, Else
    <2>3. pc' = NextBranch(pc, {"end"}) + 1 /\ trace' = trace /\ result' = result /\ status' = "running"
      BY <1>1, <2>1, <2>2, StepElse
    <2>4. Layout(body, c, p, n, q)
      BY DEF Laid
    <2>5. Matches(body, p + n + q + 2, Len(body), {"end"})
      BY <1>3, <2>4, RefusalSkipped
    <2>6. Matches(body, pc, Len(body), {"end"})
      BY <2>1, <2>5
    <2>7. NextBranch(pc, {"end"}) = Len(body)
      BY <1>1, <2>1, <2>6, MatchIsNext
    <2>8. pc' = Len(createDispatchFunction(c)) + 1
      BY <1>1, <2>3, <2>7
    <2> QED
      BY <2>3, <2>8 DEF Reach, Running
  <1>4. CASE pc = HooksEnd(c) + 1 /\ ~c.pre
    <2>1. pc = Len(body) /\ pc \in 1 .. Len(body)
      BY <1>1, <1>4
    <2>2. body[Len(body)] = End
      BY DEF Laid, Layout
    <2>3. body[pc].op = "end"
      BY <2>1, <2>2 DEF End
    <2>4. pc' = pc + 1 /\ trace' = trace /\ result' = result /\ status' = "running"
      BY <1>1, <2>1, <2>3, StepEnd
    <2>5. pc' = Len(createDispatchFunction(c)) + 1
      BY <1>1, <2>1, <2>4
    <2> QED
      BY <2>4, <2>5 DEF Reach, Running
  <1> QED
    BY <1>1, <1>2, <1>3, <1>4

(* A call that pre_dispatch refused is stopped. *)
LEMMA FromRefusal ==
    ASSUME Next, NEW c, NEW p, NEW n, NEW q, Laid(c, p, n, q), pc = HooksEnd(c) + 2, Refused(c, trace)
    PROVE  Reach(c, Given, RightEnds, pc', result', trace', status')
  <1>1. /\ c.pre /\ Len(body) \in Nat /\ p \in Nat /\ n \in Nat /\ q \in Nat
        /\ HooksEnd(c) = p + n + q + 1 /\ Len(body) = p + n + q + 4
    BY LaidFacts DEF Refused
  <1>2. pc = p + n + q + 3 /\ pc \in 1 .. Len(body)
    BY <1>1
  <1>3. body[pc] = AssertCode("pre_dispatch_failed")
    BY <1>1, <1>2 DEF Laid, Layout
  <1>4. body[pc].op = "assert" /\ body[pc].arg[1] = "pre_dispatch_failed"
    BY <1>3 DEF AssertCode
  <1>5. status' = "pre_dispatch_failed" /\ trace' = trace
    BY <1>1, <1>2, <1>4, StepAssert
  <1> QED
    BY <1>5 DEF Reach, Halted

(* A step leads from a place to a place. *)
LEMMA ReachNext ==
    ASSUME CodesApart, HandlersApart, contract \in Contracts, body = createDispatchFunction(contract),
           Reach(contract, Given, RightEnds, pc, result, trace, status), Next
    PROVE  Reach(contract, Given, RightEnds, pc', result', trace', status')
  <1>1. PICK c : c = contract
    OBVIOUS
  <1>2. PICK p, n, q : Laid(c, p, n, q)
    BY <1>1, ApplyLayout DEF Laid
  <1>3. Running(c, Given, RightEnds, pc, result, trace)
    BY <1>1, StepOnlyRunning DEF Reach
  <1> HIDE DEF Running
  <1>4. Reach(c, Given, RightEnds, pc', result', trace', status')
    <2>1. CASE pc = 1 /\ trace = <<>>
      BY <1>2, <2>1, FromStart
    <2>2. CASE pc = 2 /\ trace = <<"ctors">> /\ c.pre
      BY <1>2, <2>2, FromCtors
    <2>3. CASE pc = 3 /\ Refused(c, trace)
      BY <1>2, <2>3, FromTest
    <2>4. CASE InDispatch(c, Given, RightEnds, pc, result, trace)
      BY <1>2, <2>4, FromDispatch
    <2>5. CASE /\ pc = HooksEnd(c) /\ Going(c, result, trace)
               /\ \E t : <<"returned", t>> \in RightEnds /\ trace = Posted(c, t)
      BY <1>2, <2>5, FromPosted
    <2>6. CASE /\ pc \in {HooksEnd(c) + 1, Len(createDispatchFunction(c)) + 1}
               /\ Going(c, result, trace)
               /\ \E t : <<"returned", t>> \in RightEnds /\ trace = Full(c, t)
      BY <1>2, <2>6, FromFull
    <2>7. CASE pc = HooksEnd(c) + 2 /\ Refused(c, trace)
      BY <1>2, <2>7, FromRefusal
    <2> QED
      BY <1>3, <2>1, <2>2, <2>3, <2>4, <2>5, <2>6, <2>7 DEF Running
  <1> QED
    BY <1>1, <1>4

(* Where the linked apply of a call is; the other routes leave it alone. *)
ApplyInv ==
    IF linked THEN /\ contract \in Contracts /\ body = createDispatchFunction(contract)
                   /\ Reach(contract, Given, RightEnds, pc, result, trace, status)
    ELSE status = "running" /\ trace = <<>>

(* The invariant holds at first. *)
LEMMA InitApplyInv == CallInit => ApplyInv
  <1> SUFFICES ASSUME CallInit PROVE ApplyInv
    OBVIOUS
  <1>1. CASE linked
    <2>1. Init
      BY <1>1 DEF CallInit, linked
    <2>2. /\ contract \in Contracts /\ body = createDispatchFunction(contract)
          /\ pc = 1 /\ trace = <<>> /\ status = "running"
      BY <2>1 DEF Init
    <2>3. Reach(contract, Given, RightEnds, pc, result, trace, status)
      BY <2>2 DEF Reach, Running
    <2> QED
      BY <1>1, <2>2, <2>3 DEF ApplyInv
  <1>2. CASE ~linked
    BY <1>2 DEF CallInit, linked, ApplyInv
  <1> QED
    BY <1>1, <1>2

(* The route of a call does not change. *)
LEMMA RouteStays == [CallNext]_allVars => linked' = linked
  BY DEF CallNext, allVars, linked, Linked, apply, Receive, Unpack, pre_action, post_action, Run, Body,
         StubBody, Release

(* Without a linked apply nothing is called through it. *)
LEMMA OthersRest == ~linked /\ [CallNext]_allVars => status' = status /\ trace' = trace
  BY DEF CallNext, allVars, call, linked, Linked, apply, Receive, Unpack, pre_action, post_action, Run,
         Body, StubBody, Release, Proceed, Stop

(* Every step keeps the invariant. *)
LEMMA NextApplyInv ==
    ASSUME CodesApart, HandlersApart, ApplyInv, [CallNext]_allVars, [linked => Next]_call
    PROVE  ApplyInv'
  <1>1. linked' = linked
    BY RouteStays
  <1>2. CASE ~linked
    <2>1. status' = status /\ trace' = trace
      BY <1>2, OthersRest
    <2> QED
      BY <1>1, <1>2, <2>1 DEF ApplyInv
  <1>3. CASE linked
    <2>1. /\ contract \in Contracts /\ body = createDispatchFunction(contract)
          /\ Reach(contract, Given, RightEnds, pc, result, trace, status)
      BY <1>3 DEF ApplyInv
    <2>2. contract' = contract /\ body' = body /\ code' = code /\ action' = action
      BY <1>3, StepOnlyRunning DEF call
    <2>3. Reach(contract, Given, RightEnds, pc', result', trace', status')
      <3>1. CASE Next
        BY <2>1, <3>1, ReachNext
      <3>2. CASE UNCHANGED call
        BY <2>1, <3>2 DEF call
      <3> QED
        BY <1>3, <3>1, <3>2
    <2>4. Given' = Given
      BY <2>2 DEF Given
    <2>5. RightEnds' = RightEnds
      BY <2>2 DEF RightEnds, Ends, Meant, HandlersFor, AllActions, AllNotify, Addressed, Declared
    <2> QED
      BY <1>1, <1>3, <2>1, <2>2, <2>3, <2>4, <2>5 DEF ApplyInv
  <1> QED
    BY <1>2, <1>3

(* The linked apply of a call is always at one of the places of Reach, and has *)
(* made the calls that lead there, whatever the files declare: the ifs, elses *)
(* and ends that Writer.cpp:1019-1319 writes are nested as it means.         *)
THEOREM ApplyInvariance ==
    ASSUME CodesApart, HandlersApart
    PROVE  CallSpec => []ApplyInv
  <1>1. ApplyInv /\ [CallNext]_allVars /\ [linked => Next]_call => ApplyInv'
    BY NextApplyInv
  <1>2. CallSpec => [][linked => Next]_call
    BY Stubs DEF StubsAreCalls
  <1> QED
    BY <1>1, <1>2, InitApplyInv, PTL DEF CallSpec

(* Called is what is kept of the calls. *)
LEMMA CalledIsKept == Called = Kept(trace)
  BY DEF Called, Kept

(* Calls before pre_dispatch has agreed are no handlers. *)
LEMMA ApplyCalls ==
    ASSUME CodesApart, HandlersApart, ApplyInv, contract.pre, Called # <<>>, linked
    PROVE  trace[2] = "pre_dispatch" /\ result
  <1>0. PICK c : c = contract /\ c.pre /\ c.pre \in BOOLEAN
    BY DEF ApplyInv, Contract, ContractAssumption
  <1>1. trace # <<>> /\ trace # <<"ctors">> /\ ~Refused(c, trace)
    BY CalledIsKept, BegunFacts DEF Refused
  <1>2. Reach(c, Given, RightEnds, pc, result, trace, status)
    BY <1>0 DEF ApplyInv
  <1>3. Going(c, result, trace)
    BY <1>1, <1>2 DEF Reach, Running, Halted, InDispatch
  <1>4. PICK u : Over(u, Names) /\ trace = Cat(Begun(c), u)
    BY <1>3 DEF Going
  <1>5. result
    BY <1>0, <1>3 DEF Going, Agreed
  <1>6. PICK b : b = <<"ctors", "pre_dispatch">> /\ Over(b, Names) /\ trace = Cat(b, u)
    BY <1>0, <1>4, BegunFacts DEF Begun
  <1>7. Spliced(trace, b, u)
    BY <1>4, <1>6, CatFacts
  <1>8. Len(b) = 2 /\ b[2] = "pre_dispatch"
    BY <1>6
  <1>9. trace[2] = b[2]
    BY <1>7, <1>8 DEF Spliced
  <1> QED
    BY <1>5, <1>8, <1>9

(* A call that returned *)
LEMMA ApplyReturned ==
    ASSUME CodesApart, HandlersApart, ApplyInv, status = "returned"
    PROVE  /\ contract \in Contracts
           /\ trace = Full(contract, Called) /\ <<"returned", Called>> \in RightEnds
           /\ Over(Called, Names)
  <1>1. contract \in Contracts /\ Halted(contract, RightEnds, result, trace, status)
    BY DEF ApplyInv, Reach
  <1>2. PICK t : <<"returned", t>> \in RightEnds /\ trace = Full(contract, t)
    BY <1>1 DEF Halted
  <1>3. contract.pre \in BOOLEAN /\ contract.post \in BOOLEAN
    BY <1>1, ContractAssumption DEF Contract
  <1>4. t = <<>> \/ \E f \in STRING \ Hooks : t = <<f>>
    BY <1>1, <1>2, EndsMean
  <1>5. Kept(Full(contract, t)) = t
    BY <1>3, <1>4, KeptFull
  <1>6. Called = t
    BY <1>2, <1>5, CalledIsKept
  <1>7. Over(t, Names)
    <2>1. CASE t = <<>>
      BY <2>1, BegunFacts
    <2>2. ASSUME NEW f \in STRING \ Hooks, t = <<f>> PROVE Over(t, Names)
      <3>1. f \in Names
        BY DEF Names
      <3> QED
        BY <2>2, <3>1, UnitOver
    <2> QED
      BY <1>4, <2>1, <2>2
  <1> QED
    BY <1>1, <1>2, <1>6, <1>7

(* At every place of Reach RightHandler holds. *)
LEMMA ApplyRight ==
    ASSUME CodesApart, HandlersApart, ApplyInv
    PROVE  RightHandler
  <1>1. ASSUME status = "returned"
        PROVE  /\ IF Meant = {} THEN Called = <<>> ELSE \E h \in Meant : Called = <<h.func>>
               /\ code = Receiver => Called # <<>>
    <2>1. contract \in Contracts /\ <<"returned", Called>> \in RightEnds
      BY <1>1, ApplyReturned
    <2>2. \/ \E h \in Meant : Called = <<h.func>>
          \/ Called = <<>> /\ Meant = {} /\ "returned" = IF code = Receiver THEN "no_action" ELSE "returned"
      BY <2>1, EndsMean
    <2> QED
      BY <2>2
  <1>2. ASSUME status = "no_action" PROVE code = Receiver /\ Meant = {}
    <2>1. contract \in Contracts /\ Halted(contract, RightEnds, result, trace, status)
      BY <1>2 DEF ApplyInv, Reach
    <2>2. PICK t : <<"no_action", t>> \in RightEnds
      BY <1>2, <2>1 DEF Halted
    <2>3. Meant = {} /\ "no_action" = IF code = Receiver THEN "no_action" ELSE "returned"
      BY <2>1, <2>2, EndsMean
    <2> QED
      BY <2>3
  <1> QED
    BY <1>1, <1>2 DEF RightHandler, Meant

(* At every place of Reach HooksAround holds. *)
LEMMA ApplyAround ==
    ASSUME CodesApart, HandlersApart, ApplyInv
    PROVE  HooksAround
  <1>1. contract.pre /\ Called # <<>> => trace[2] = "pre_dispatch" /\ result
    <2>1. CASE linked
      BY <2>1, ApplyCalls
    <2>2. CASE ~linked
      <3>1. Called = <<>>
        BY <2>2, CalledIsKept, KeptNone DEF ApplyInv
      <3> QED
        BY <3>1
    <2> QED
      BY <2>1, <2>2
  <1>2. status = "pre_dispatch_failed" => trace = <<"ctors", "pre_dispatch">>
    BY DEF ApplyInv, Reach, Halted, Refused
  <1>3. ASSUME status = "returned"
        PROVE  trace = <<"ctors">> \o When(contract.pre, <<"pre_dispatch">>) \o Called
                       \o When(contract.post, <<"post_dispatch">>) \o <<"finalize">>
    <2>1. contract \in Contracts /\ trace = Full(contract, Called) /\ Over(Called, Names)
      BY <1>3, ApplyReturned
    <2>2. contract.pre \in BOOLEAN /\ contract.post \in BOOLEAN
      BY <2>1, ContractAssumption DEF Contract
    <2>3. Full(contract, Called) = Around(contract, Called)
      BY <2>1, <2>2, FullParts
    <2> QED
      BY <2>1, <2>3 DEF Around
  <1> QED
    BY <1>1, <1>2, <1>3 DEF HooksAround

(* For every contract, however many files and handlers it has and however often *)
(* they declare the same: a call that returns has run exactly one handler meant *)
(* for its sender and action if there is one, and is refused as unknown only if *)
(* no file declares the action (Writer.cpp:1019-1208).  string_to_regid adds *)
(* the index to a shifted height, so that the codes of two accounts can be equal *)
(* when an index has more than 20 bits: CodesApart excludes that, and        *)
(* HandlersApart says what the prefixes of codegen.hpp:283 and 288 give, that no *)
(* handler has the name of a hook.                                           *)
THEOREM RightHandlerCalled ==
    ASSUME CodesApart, HandlersApart
    PROVE  CallSpec => []RightHandler
  <1>1. ApplyInv => RightHandler
    BY ApplyRight
  <1> QED
    BY <1>1, ApplyInvariance, PTL

(* For every contract that may be linked: nothing but constructors runs before *)
(* pre_dispatch has agreed, and a call that returns has run the hooks the    *)
(* contract defines around its handler, each once and in order               *)
(* (Writer.cpp:1226-1301).                                                   *)
THEOREM HooksCalledAround ==
    ASSUME CodesApart, HandlersApart
    PROVE  CallSpec => []HooksAround
  <1>1. ApplyInv => HooksAround
    BY ApplyAround
  <1> QED
    BY <1>1, ApplyInvariance, PTL
=============================================================================

----------------------------- MODULE ContractCall -----------------------------
(***************************************************************************)
(* One call of a contract, from apply to the handler with its arguments,   *)
(* in a fresh instance.  apply is the linker's (DispatchFunction), which   *)
(* calls the stubs that create_dispatch of codegen.hpp writes, or it is    *)
(* one of contracts/dispatcher.hpp: WASM_DISPATCH, WASM_DISPATCH_ANY, or   *)
(* the contract's own, around execute_action_with_return.  How   *)
(* arguments are packed into the action data and come out of it is a       *)
(* parameter, which Datastream gives its value.                            *)
(*                                                                         *)
(* Anything the contract runs may fail a check, which stops the instance.  *)
(***************************************************************************)
EXTENDS DispatchFunction

CONSTANTS
    Members,                \* actions the macros and the contract's own apply list
    Params,                 \* Params[f]: types of the parameters of function f
    Arguments,              \* Arguments[f]: some arguments f may be sent
    Data,                   \* the data a call may come with
    max_stack_buffer_size,  \* 512, also max_stack_size of create_dispatch
    Results,                \* what handlers return
    pack_args(_, _),        \* pack_args(types, args): the data of arguments
    unpack_args(_, _)       \* unpack_args(types, data): what may be read as the
                            \* arguments; empty if the read fails

ASSUME CallAssumption ==
    /\ Members \subseteq Actions /\ Members \subseteq DOMAIN Params
    /\ Data \subseteq Seq(Nat)
    /\ max_stack_buffer_size \in Nat
    /\ DOMAIN Arguments = DOMAIN Params

Routes == {"linked", "dispatch", "any", "return"}

VARIABLES
    route,    \* whose apply it is
    step,     \* "apply", the next part of the code around the handler, "done",
              \* or why the instance was stopped
    data,     \* what read_action_data gave
    buffer,   \* where it is: "none", "stack", "heap", or "null"
    heap,     \* bytes malloc gave and free was not given
    args,     \* what the handler is called with
    log,      \* "pre_action", "post_action" and "handler" in the macros, as they end
    value,    \* execute_action_return
    returned  \* history: what the handler has returned to execute_action_with_return

call == <<contract, body, code, action, pc, result, trace, status>>
frame == <<data, buffer, args>>
outcome == <<value, returned>>
allVars == <<call, route, step, frame, heap, log, outcome>>

(* without a linked apply, the variables of DispatchFunction rest *)
NoContract == [files |-> <<>>, pre |-> FALSE, post |-> FALSE]

CallInit ==
    /\ route \in Routes
    /\ IF route = "linked" THEN Init
       ELSE /\ contract = NoContract /\ body = <<>>
            /\ code \in Codes
            /\ action \in IF route = "return" THEN Members ELSE Actions
            /\ pc = 1 /\ result = FALSE /\ trace = <<>> /\ status = "running"
    /\ step = "apply" /\ data = <<>> /\ buffer = "none" /\ heap = 0
    /\ args = <<>> /\ log = <<>> /\ value = -1 /\ returned = <<>>

linked == route = "linked"

Hook == linked /\ pc <= Len(body) /\ body[pc].arg # <<>> /\ body[pc].arg[1] \in Hooks

(* the function that handles the call *)
func == IF linked THEN body[pc].arg[1] ELSE action

(* The instructions of the linker's apply, but for calls of handlers. *)
Linked ==
    /\ linked /\ step = "apply"
    /\ \/ ExecIf \/ ExecElse \/ ExecEnd \/ ExecAssert \/ Return
       \/ Hook /\ ExecCall
    /\ UNCHANGED <<route, step, frame, heap, log, outcome>>

(* the test in front of the switch of WASM_DISPATCH *)
Accepts == route = "dispatch" => code = Receiver

(* apply comes to a handler, or to its end *)
apply ==
    /\ step = "apply"
    /\ \/ linked /\ Executing("call") /\ ~Hook /\ step' = "receive"
       \/ ~linked /\ step' = IF Accepts /\ action \in Members THEN "receive" ELSE "done"
    /\ UNCHANGED <<call, route, frame, heap, log, outcome>>

(* Mutant of Stop: a failed check returns to the caller. *)
StopReturns(reason) ==
    /\ IF linked THEN pc' = pc + 1 /\ step' = "apply" /\ UNCHANGED <<status, trace>>
       ELSE step' = "done" /\ UNCHANGED <<pc, status, trace>>
    /\ UNCHANGED <<contract, body, code, action, result>>

(* wasm_assert ends the instance, in the middle of whatever is on the stack *)
Stop(reason) ==
    /\ step' = reason
    /\ IF linked THEN status' = "check_failed" /\ trace' = Append(trace, func)
       ELSE UNCHANGED <<status, trace>>
    /\ UNCHANGED <<contract, body, code, action, pc, result>>

Proceed(to) == step' = to /\ UNCHANGED call

(* Mutant of TooLarge: every route uses the test of the stub. *)
TooLargeInclusive(n) == n >= max_stack_buffer_size

(* which sizes are too large for the stack *)
TooLarge(n) ==
    IF linked THEN n >= max_stack_buffer_size ELSE max_stack_buffer_size < n

(* The buffer and read_action_data.  malloc may find no memory: dsmalloc     *)
(* then stops the contract, the freeing malloc returns nullptr, which is     *)
(* not tested: the data goes to address 0.                                   *)
Receive ==
    /\ step = "receive"
    /\ data' \in Data
    /\ LET size == Len(data') IN
       \/ size = 0 /\ Proceed("unpack") /\ UNCHANGED <<buffer, heap>>
       \/ /\ size > 0 /\ ~TooLarge(size)
          /\ Proceed("unpack") /\ buffer' = "stack" /\ UNCHANGED heap
       \/ /\ size > 0 /\ TooLarge(size)
          /\ \/ Proceed("unpack") /\ buffer' = "heap" /\ heap' = heap + size
             \/ Proceed("unpack") /\ buffer' = "null" /\ UNCHANGED heap
             \/ Stop("no_memory") /\ UNCHANGED <<buffer, heap>>
    /\ UNCHANGED <<route, args, log, outcome>>

(* ds >> args, one after the other; what containers need is allocated *)
Unpack ==
    /\ step = "unpack"
    /\ LET outcomes == unpack_args(Params[func], data) IN
       \/ /\ args' \in outcomes
          /\ Proceed(IF route \in {"dispatch", "any"} THEN "pre" ELSE "body")
       \/ outcomes = {} /\ Stop("data_unread") /\ UNCHANGED args
       \/ /\ \E i \in DOMAIN Params[func] : Params[func][i].kind = "vector"
          /\ Stop("no_memory") /\ UNCHANGED args
    /\ UNCHANGED <<route, data, buffer, heap, log, outcome>>

(* contract code around and in the handler of a macro *)
Run(what, to) ==
    /\ \/ log' = Append(log, what) /\ Proceed(to)
       \/ Stop("check_failed") /\ UNCHANGED log
    /\ UNCHANGED <<route, frame, heap>>

pre_action == step = "pre" /\ Run("pre_action", "post") /\ UNCHANGED outcome

post_action == step = "post" /\ Run("post_action", "body") /\ UNCHANGED outcome

(* only handlers that execute_action_with_return calls return a value *)
Returns ==
    IF route = "return" /\ step' = "release" THEN {<<r>> : r \in Results} ELSE {returned}

(* Mutant of Body: the lambda assigns to a copy. *)
BodyResultLost ==
    /\ step = "body" /\ ~linked
    /\ Run("handler", "release")
    /\ returned' \in Returns
    /\ UNCHANGED value

(* boost::mp11::tuple_apply(f2, args) *)
Body ==
    /\ step = "body" /\ ~linked
    /\ Run("handler", "release")
    /\ returned' \in Returns
    /\ value' = IF returned' = <<>> THEN value ELSE returned'[1]

(* The call at the end of the stub, which then returns to apply: what alloca *)
(* gave is gone, what malloc gave is not given back.                         *)
StubBody ==
    /\ step = "body" /\ linked
    /\ \/ /\ step' = "apply" /\ pc' = pc + 1 /\ trace' = Append(trace, func)
          /\ data' = <<>> /\ buffer' = "none" /\ args' = <<>>
          /\ UNCHANGED <<contract, body, code, action, result, status>>
       \/ Stop("check_failed") /\ UNCHANGED frame
    /\ UNCHANGED <<route, heap, log, outcome>>

(* free(buffer), for the sizes that went to malloc *)
Release ==
    /\ step = "release"
    /\ heap' = IF max_stack_buffer_size < Len(data) /\ buffer = "heap"
               THEN heap - Len(data) ELSE heap
    /\ Proceed("done")
    /\ UNCHANGED <<route, frame, log, outcome>>

CallNext ==
    \/ Linked \/ apply \/ Receive \/ Unpack
    \/ pre_action \/ post_action \/ Body \/ StubBody \/ Release

CallSpec == CallInit /\ [][CallNext]_allVars

-----------------------------------------------------------------------------
(* Properties *)

(* What the stubs do is, to the linker's apply, a call that returns or stops *)
(* the instance: with them, it behaves as DispatchFunction says, and a       *)
(* failed read never comes back into it (codegen.hpp:243-274,                *)
(* Writer.cpp:1034-1044).                                                    *)
StubsAreCalls == [][linked => Next]_call

(* A call of a macro that is not stopped runs the handler exactly when it is *)
(* addressed to it, and once.  The value of execute_action_with_return is    *)
(* what that handler returned, -1 or not, and -1 while none has; the other   *)
(* routes have no value (dispatcher.hpp:45, 67, 85, 100-103, 126-128).       *)
HandlerRunsIffAddressed ==
    LET runs == {i \in DOMAIN log : log[i] = "handler"} IN
    /\ step = "done" =>
           IF action \in Members /\ (code = Receiver \/ route # "dispatch")
           THEN \E i \in DOMAIN log : runs = {i}
           ELSE runs = {}
    /\ IF route = "return" /\ runs # {} THEN returned = <<value>> ELSE value = -1

(* Whatever follows them in the data, arguments that were packed for a       *)
(* handler arrive as they were, and are never refused; and no handler is     *)
(* given arguments that take more data than there is, however the counts and *)
(* indices in it are written (datastream.hpp:71, 720-742; varint.hpp:226).   *)
ArgumentsArrive ==
    LET packed(x) == pack_args(Params[func], x) IN
    /\ step = "body" =>
           /\ \A x \in Arguments[func] : IsPrefix(packed(x), data) => args = x
           /\ Len(packed(args)) <= Len(data)
    /\ step = "data_unread" =>
           \A x \in Arguments[func] : ~IsPrefix(packed(x), data)

(* execute_action gives back the buffer it took from malloc and passes to    *)
(* free nothing that alloca gave, and no route takes more than 512 bytes of  *)
(* the stack: the tests on the size agree (dispatcher.hpp:30, 46-48, 74,     *)
(* 89-91; codegen.hpp:250).                                                  *)
BufferReturned ==
    /\ step = "done" => heap = 0
    /\ step = "release" /\ max_stack_buffer_size < Len(data) => buffer \in {"heap", "null"}
    /\ buffer = "stack" => Len(data) <= max_stack_buffer_size

(* "post action execution for application contract extension"                *)
(* (contract.hpp:46): post_action follows the action it is named after.      *)
PostAfterAction ==
    \A i \in DOMAIN log :
        log[i] = "post_action" => \E j \in 1..(i - 1) : log[j] = "handler"
=============================================================================

-------------------------- MODULE DispatchFunction --------------------------
(***************************************************************************)
(* The apply function the linker writes into a contract that has none:     *)
(* Writer::createDispatchFunction, wasm_llvm/tools/lld/wasm/Writer.cpp.    *)
(* The first part builds the body instruction by instruction from the      *)
(* handlers that the object files declare; the second runs it, the way a   *)
(* wasm machine does, on one call apply(receiver, code, action).           *)
(*                                                                         *)
(* The comparisons that feed an "if" and the arguments of calls are part   *)
(* of the instruction that uses them.  Calls of functions outside the body *)
(* may stop the contract instead of returning.                             *)
(***************************************************************************)
EXTENDS Integers, Sequences, FiniteSets, SequencesExt

CONSTANTS
    Contracts,   \* contracts to link: [files, pre, post], see Contract
    Star,        \* the code "*" of a handler that answers to any account
    CodeOrder,   \* the codes of notify handlers, in the order of their strings
    Receiver,    \* regid of the account the contract is deployed on
    Codes,       \* regids apply may be called with
    Actions,     \* action names apply may be called with
    IndexRange   \* 2^20: the indices below it leave the height alone

(* A declared handler: function func, for action name; a notify handler also *)
(* has a code, which is Star or a regid written as height-index.             *)
Handler == [code : {Star} \union [height : Nat, index : Nat],
            name : Actions, func : STRING]

File == [actions : Seq(Handler), notify : Seq(Handler)]

(* pre, post: the contract defines pre_dispatch, post_dispatch               *)
Contract == [files : Seq(File), pre : BOOLEAN, post : BOOLEAN]

ASSUME ContractAssumption == Contracts \subseteq Contract

ASSUME CodeOrderAssumption ==
    /\ CodeOrder \in Seq([height : Nat, index : Nat])
    /\ \A c \in Contracts : \A i \in DOMAIN c.files :
          \A h \in ToSet(c.files[i].notify) : h.code \in {Star} \union ToSet(CodeOrder)

-----------------------------------------------------------------------------
(* Writing the body *)

If(cond) == [op |-> "if", arg |-> cond]
Else == [op |-> "else", arg |-> <<>>]
End == [op |-> "end", arg |-> <<>>]
Call(f) == [op |-> "call", arg |-> <<f>>]
AssertCode(error) == [op |-> "assert", arg |-> <<error>>]

When(p, code) == IF p THEN code ELSE <<>>

(* utils.hpp: (height << 20) + index *)
string_to_regid(code) == code.height * IndexRange + code.index

(* has_dispatched.insert(s).second: each string once, where it is met first *)
Dispatched(strings) ==
    FlattenSeq([k \in DOMAIN strings |->
        When(\A j \in 1..(k - 1) : strings[j] # strings[k], <<strings[k]>>)])

ActionsOf(c) == Dispatched(FlattenSeq([i \in DOMAIN c.files |-> c.files[i].actions]))

(* notify_handlers[code] *)
notify_handlers(c, code) ==
    LET all == Dispatched(FlattenSeq([i \in DOMAIN c.files |-> c.files[i].notify]))
    IN  FlattenSeq([k \in DOMAIN all |-> When(all[k].code = code, <<all[k]>>)])

(* Mutant of create_if: the ifs are not joined by else. *)
create_if_nested(handlers) ==
    FlattenSeq([k \in DOMAIN handlers |->
        <<If(<<"action", handlers[k].name>>), Call(handlers[k].func)>>])

(* one create_if per handler, joined by else; each if is still open *)
create_if(handlers) ==
    FlattenSeq([k \in DOMAIN handlers |->
        When(k > 1, <<Else>>)
        \o <<If(<<"action", handlers[k].name>>), Call(handlers[k].func)>>])

Close(n) == [k \in 1..n |-> End]

create_action_dispatch(c) ==
    LET acts == ActionsOf(c) IN
    create_if(acts)
    \o When(Len(acts) > 0, <<Else>>)
    \o <<AssertCode("no_action")>>
    \o Close(Len(acts))

create_notify_dispatch(c) ==
    LET groups == FlattenSeq([k \in DOMAIN CodeOrder |->
                      When(notify_handlers(c, CodeOrder[k]) # <<>>, <<CodeOrder[k]>>)])
        stars == notify_handlers(c, Star)
        group(code) ==
            <<If(<<"code", string_to_regid(code)>>)>>
            \o create_if(notify_handlers(c, code))
            \o Close(Len(notify_handlers(c, code)))
    IN  FlattenSeq([k \in DOMAIN groups |-> When(k > 1, <<Else>>) \o group(groups[k])])
        \o When(stars # <<>> /\ groups # <<>>, <<Else>>)
        \o create_if(stars)
        \o Close(Len(stars))
        \o Close(Len(groups))

(* Mutant of createDispatchFunction: what pre_dispatch returns is not used. *)
dispatchRegardless(c) ==
    <<Call("ctors")>>
    \o When(c.pre, <<Call("pre_dispatch")>>)
    \o <<If(<<"code", Receiver>>)>>
    \o create_action_dispatch(c)
    \o <<Else>>
    \o create_notify_dispatch(c)
    \o <<End>>
    \o When(c.post, <<Call("post_dispatch")>>)
    \o <<Call("finalize"), End>>

createDispatchFunction(c) ==
    <<Call("ctors")>>
    \o When(c.pre, <<Call("pre_dispatch"), If(<<"pre_dispatch">>)>>)
    \o <<If(<<"code", Receiver>>)>>
    \o create_action_dispatch(c)
    \o <<Else>>
    \o create_notify_dispatch(c)
    \o <<End>>
    \o When(c.post, <<Call("post_dispatch")>>)
    \o <<Call("finalize")>>
    \o When(c.pre, <<Else, AssertCode("pre_dispatch_failed")>>)
    \o <<End>>

-----------------------------------------------------------------------------
(* Running it *)

VARIABLES
    contract,   \* the contract that was linked
    body,       \* the instructions of its apply
    code, action,
    pc,         \* the next instruction
    result,     \* what pre_dispatch returned
    trace,      \* functions called so far
    status      \* "running", "returned", or the reason it was stopped

vars == <<contract, body, code, action, pc, result, trace, status>>

Init ==
    /\ contract \in Contracts
    /\ body = createDispatchFunction(contract)
    /\ code \in Codes /\ action \in Actions
    /\ pc = 1 /\ result = FALSE /\ trace = <<>> /\ status = "running"

Executing(op) == status = "running" /\ pc <= Len(body) /\ body[pc].op = op

(* Ifs opened and not closed again between two instructions, both excluded. *)
Count(op, from, to) ==
    LET hits == {q \in from..to : body[q].op = op} IN Cardinality(hits)

SameLevel(p, q) == Count("if", p + 1, q - 1) = Count("end", p + 1, q - 1)

(* where control goes when the branch that starts at p is not taken, or ends *)
NextBranch(p, ops) ==
    CHOOSE q \in (p + 1)..Len(body) :
        /\ body[q].op \in ops /\ SameLevel(p, q)
        /\ \A r \in (p + 1)..(q - 1) : ~(body[r].op \in ops /\ SameLevel(p, r))

Holds(cond) ==
    CASE cond[1] = "action" -> cond[2] = action
      [] cond[1] = "code" -> cond[2] = code
      [] cond[1] = "pre_dispatch" -> result

ExecIf ==
    /\ Executing("if")
    /\ pc' = IF Holds(body[pc].arg) THEN pc + 1
             ELSE NextBranch(pc, {"else", "end"}) + 1
    /\ UNCHANGED <<contract, body, code, action, result, trace, status>>

ExecElse ==
    /\ Executing("else")
    /\ pc' = NextBranch(pc, {"end"}) + 1
    /\ UNCHANGED <<contract, body, code, action, result, trace, status>>

ExecEnd ==
    /\ Executing("end")
    /\ pc' = pc + 1
    /\ UNCHANGED <<contract, body, code, action, result, trace, status>>

(* The function called returns, or fails a check and stops the contract. *)
ExecCall ==
    /\ Executing("call")
    /\ trace' = Append(trace, body[pc].arg[1])
    /\ \/ /\ pc' = pc + 1
          /\ result' \in IF body[pc].arg[1] = "pre_dispatch" THEN BOOLEAN ELSE {result}
          /\ UNCHANGED status
       \/ status' = "check_failed" /\ UNCHANGED <<pc, result>>
    /\ UNCHANGED <<contract, body, code, action>>

(* wasm_assert_code(false, error) *)
ExecAssert ==
    /\ Executing("assert")
    /\ status' = body[pc].arg[1]
    /\ UNCHANGED <<contract, body, code, action, pc, result, trace>>

Return ==
    /\ status = "running" /\ pc > Len(body)
    /\ status' = "returned"
    /\ UNCHANGED <<contract, body, code, action, pc, result, trace>>

Next == ExecIf \/ ExecElse \/ ExecEnd \/ ExecCall \/ ExecAssert \/ Return

Spec == Init /\ [][Next]_vars

-----------------------------------------------------------------------------
(* Properties *)

Hooks == {"ctors", "pre_dispatch", "post_dispatch", "finalize"}

Called == FlattenSeq([i \in DOMAIN trace |-> When(trace[i] \notin Hooks, <<trace[i]>>)])

Declared(field) ==
    {contract.files[i][field] : i \in DOMAIN contract.files}

HandlersFor(handlers) == {h \in handlers : h.name = action}

AllActions == UNION {ToSet(s) : s \in Declared("actions")}
AllNotify == UNION {ToSet(s) : s \in Declared("notify")}

(* What tells handlers apart: different codes are different accounts, and    *)
(* the functions of handlers, whose names codegen prefixes, are not hooks.   *)
CodesApart ==
    /\ Star \notin ToSet(CodeOrder)
    /\ \A a, b \in ToSet(CodeOrder) : string_to_regid(a) = string_to_regid(b) => a = b

HandlersApart ==
    \A c \in Contracts : \A i \in DOMAIN c.files :
        \A h \in ToSet(c.files[i].actions) \union ToSet(c.files[i].notify) : h.func \notin Hooks

(* the notify handlers that answer to the account the call comes from: those *)
(* declared for it, or those for any account if there are none               *)
Addressed ==
    LET named == {h \in AllNotify : h.code # Star /\ string_to_regid(h.code) = code}
    IN  IF named # {} THEN named ELSE {h \in AllNotify : h.code = Star}

(* A call that returns has run exactly one handler declared for its sender   *)
(* and its action, if there is one; a call of the contract itself never      *)
(* returns without having run one, and is refused as unknown only if no file *)
(* declares the action.  The nesting of if, else and end that create_if and  *)
(* the two create_..._dispatch write (Writer.cpp:1019-1208) selects one      *)
(* branch whatever the files declare, duplicates included.                   *)
RightHandler ==
    LET meant == HandlersFor(IF code = Receiver THEN AllActions ELSE Addressed) IN
    /\ status = "returned" =>
           /\ IF meant = {} THEN Called = <<>>
              ELSE \E h \in meant : Called = <<h.func>>
           /\ code = Receiver => Called # <<>>
    /\ status = "no_action" => code = Receiver /\ meant = {}

(* Nothing but constructors runs before pre_dispatch has agreed, and a call  *)
(* that returns has run the hooks the contract defines around its handler,   *)
(* each once and in order (Writer.cpp:1226-1301).                            *)
HooksAround ==
    /\ (contract.pre /\ Called # <<>>) => trace[2] = "pre_dispatch" /\ result
    /\ status = "pre_dispatch_failed" => trace = <<"ctors", "pre_dispatch">>
    /\ status = "returned" =>
           trace = <<"ctors">>
                   \o When(contract.pre, <<"pre_dispatch">>)
                   \o Called
                   \o When(contract.post, <<"post_dispatch">>)
                   \o <<"finalize">>

(* The last instruction is the end that closes the function:                 *)
(* writeU8(OS, OPCODE_END, "END");//close body (Writer.cpp:1319).            *)
BodyClosed ==
    status = "returned" =>
        Count("end", 1, Len(body)) = Count("if", 1, Len(body)) + 1
=============================================================================

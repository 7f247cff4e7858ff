# A TLA+ model of the WaykiChain contract development kit

The repository builds a C++ toolchain for WaykiChain smart contracts: a library
(`libraries/wasmlib`) that is linked into every contract, and tools
(`tools/`, and what is added to LLVM's linker in `wasm_llvm/tools/lld/wasm`) that
turn annotated C++ into a wasm module with an ABI. This directory models the
parts that keep state or decide what runs, checks them with TLC and proves the
central results with TLAPS.

## The system

| Part | State | Operations | Interacts with | What makes it correct |
|---|---|---|---|---|
| dsmalloc (`simple_malloc.cpp`) | heap, last_ptr, next_page | malloc, calloc, realloc, free | host's grow_memory; all library code allocates through it | regions apart, inside granted pages; its page count is the host's |
| memory_manager (`malloc.cpp`) | headers in memory, 16 heaps, active and free heap indices, sbrk's break | malloc, calloc, realloc, free, sbrk | grow_memory; other callers of sbrk | client data untouched; headers tile each heap; freed memory is found again; calls end |
| index_table and db (`contracts/db.hpp`) | rows and index entries in the host's store | set, del, get | db_store, db_remove, db_get | an entry leads to a row with its key; every row has its entries |
| table (`contracts/table.hpp`) | rows | emplace, modify, erase, get | same store | a row is where its primary key says |
| generated apply (`lld/wasm/Writer.cpp`, createDispatchFunction) | the body being written; at run time the call | written once per contract; one run per action or notification | object files' handler lists, pre_dispatch, post_dispatch | exactly the right handler, between the hooks |
| dispatcher macros, stubs (`contracts/dispatcher.hpp`, `codegen.hpp`) | data buffer, arguments, hooks run | apply, execute_action, execute_action_with_return, stub | allocator, datastream, contract class | handler on the arguments that were packed; buffer returned; hooks in order |
| datastream, varint | position in a buffer | read, write, pack, unpack | all packing | no read past the end; what was packed is unpacked |
| asset, symbol | values | checked arithmetic, text | token and other contracts | checks see no wrapped value; text reads back |
| inline transactions, notifications | messages under way | send, notify_recipient, require_auth | host | all of a transaction is done or none |
| token contract (`examples/V3/token`) | stats, accounts | create, issue, retire, transfer, open, close | table, asset, inline transactions | balances add up to the supply; only signers lose tokens |
| abigen, ABI merger (`abigen.hpp`, `abimerge.hpp`) | sets of structs, types, actions, tables, variants | one visit per declaration; to_json; merge | syntax tree; object files | the ABI describes what the contract has, is closed, and joins no contradictions |
| codegen, compiler drivers (`wasm-cpp`, `wasm-cc`, `wasm-lld`) | temporary copies and objects, one abigen and one codegen object per process | abigen pass, codegen pass, compile, link, clean up | file system, child processes, other drivers | exit 0 means built from the inputs; nothing left behind |

A contract runs single-threaded: each action is one call of `apply` in a fresh
instance, calls of the library run to their end, and a failed `wasm::check`
stops the instance and undoes the transaction. What is hard there is not
threads but long sequences of legal calls (allocators, indices, a token), limits and
wrap-around (pages, slots, 32-bit sizes, 512 bytes, 2^62), one step of several
failing (grow_memory, sbrk, malloc, an inline transaction), other callers of a shared
static (sbrk), data that comes from outside (arguments), and code that writes code
(the linker's apply). The compiler drivers are processes: they share a temporary
directory, run programs whose result they do not look at, and may be killed between
two steps. `PROJECT.json` lists these hazards at their lines.

## Modules

`Allocator` - what an allocator promises, apart from how: it holds a set of
regions; a call adds one that touches no other, drops one, exchanges one, or
stops the contract. `SimpleMalloc` and `MemoryManager` both implement it
(property `AllocatorSpec`; the refinement maps the client's regions to `live`
and a stopped contract to `down`).

`SimpleMalloc` - dsmalloc, one action per C function. Addresses are bytes modulo
`AddrSpace`. `live` is the client's view. A refused `grow_memory` leaves `last_ptr`
and `next_page` moved, as in the code, and sets `aborted`.

`MemoryManager` - memory_manager and sbrk. Memory is an array of words of
`_size_marker` bytes: each word is a header, or the mark of whoever wrote it. The
client fills each region it gets with its own handle, so any stray write shows as
a word that changed (`DataIntact`). `malloc` begins a call (`BeginMalloc`); each
iteration of its two loops is one step (`BumpHit`, `ExpandHeap`, `SbrkFails`,
`NextHeap`; `ReuseFreed`, `ScanOn`, `ScanNextHeap`), `realloc` either ends in place
or begins a malloc. `ForeignSbrk` is a caller of sbrk outside the file. `status`
records how the contract stopped: a failed check, a store to an unmapped address,
calloc clearing at address 0, or a heap too many (the code writes beyond its array).
`SeesSbrkFailure` says whether `reinterpret_cast<int64_t>(p) == -1` can hold: with
32-bit pointers the conversion zero-extends and it cannot.

`IndexTable` - db::set, db::del and db::get over index_table. An object is the tuple
of its secondary keys. `ChecksKeys` says whether the contract looks a key up before
it uses it (as `examples/V3/uniswap` does), `DeletesStored` whether it deletes objects
as it read them, `Stem` what of a table's name survives in the names of its indices.

`Table` - the four operations of table.hpp on the rows of one table, as operators.

`Asset` - asset.hpp and the parts of symbol.hpp it rests on, as operators. Each
operation that can fail has a second operator with its checks, `x_ok`. The arithmetic
wraps at the width of int64_t, which is a parameter; the text form is a number with a
decimal point, and `from_string` reads it with `atoi`'s limit.

`Token` - the token contract of `examples/V3/token` over `Table` and `Asset`, one
action per action of the contract, and the host around it: inline transfers run in any
order with the authority of their sender (`RunInline`), contracts that were notified
send transfers of their own (`Answer`), and the host commits or undoes everything.

`DispatchFunction` - the linker's apply. Operators named after the functions of
`createDispatchFunction` give the sequence of instructions; the actions `ExecIf`,
`ExecElse`, `ExecEnd`, `ExecCall`, `ExecAssert` run it with wasm's rules for
nesting. A body that ends without its last `end` returns when its instructions are
used up.

`Datastream` - the packed form of values: varints digit by digit with the width of the
shift, primitives, optionals, vectors, variants, tuples. A read gives the set of its
outcomes: none if a check fails, several where the C++ is undefined.

`ContractCall` - `DispatchFunction` and `Datastream` composed: one call of a contract
from apply to the handler. Packing and unpacking are parameters, which `MCContractCall`
gives the definitions of `Datastream`. `route` selects the linker's apply with codegen's stubs, one
of the macros, or execute_action_with_return; the buffer on stack or heap, the
arguments unpacked from the data, hooks and handler, and free follow. What a handler
returned is kept in the history variable `returned`, apart from the `value` the function
gives back; the runs have handlers that return -1. In the linked
route every step is a step of `DispatchFunction` or invisible to it (`StubsAreCalls`).

`AbiMerge` - ABIMerger: comparison, merge, and the fold of writeABI over all objects.

`Abigen` - what the matchers add to the one abigen object of a process and what
`to_json` makes of it. A C++ type is a record with its kind, its name and the types it
uses.

`WasmCpp` - the drivers as processes on one file system, over `Abigen` and `AbiMerge`.
A step is what happens between two uses of a shared file; clang-7, wasm-ld and wasm-pp
may fail or not be found; a process in `Killable` may end between any two steps. clang-7
removes the object when it fails (`Compile`), unless it is killed itself or `std::system`
cannot start it: an older object then stays (`KeepObject`). The history variable `alone`
says that no other process used the same files at the same time, that none of its outputs
was there before, and that no older object was taken for its own. `FullName` is the
concatenation codegen tells actions apart by, and `Stubs` goes through the declarations of
an input in order (`FirstOfName`). An abigen pass that an exception aborts has exit status
"-1" as well: the files are the same.

`MC*` modules give the constants their values. The theorems on a module are in the
`...Proofs` module that extends it; `Induction` holds the lemmas on induction, sums,
arithmetic and loops that several of them use. Definitions marked "Mutant of" are
plausible mistakes in the definition they stand before; each property of each passing
run fails when one of them takes its place.

## Runs

Passing:

* `simple_malloc` - 8 pages of 16 bytes, host limit 6, requests from 0 to 125 bytes, so
  that requests cross one page, several pages, and the end of the address space. The
  heap base is unaligned in one case and at the very end of memory in the other.
* `manager_reuse` - native layout, malloc, calloc and free with three handles and sizes
  0, 1, 3 and 5, pages of four words of which the host grants two more, three heap slots,
  and sbrk called from outside at any time: several heaps, each cleaned up before the
  next, exhausted soon, so that most of the 160134 states are in the search of freed buffers.
  `NullMeansNoRoom` compares each nullptr with the true gaps between the client's
  regions; `CallsReturn` is the termination of the loops; `SlotsSuffice` takes the
  comment on the 16 slots at its word, as long as nobody else has called sbrk.
* `manager_realloc` - wasm32 layout (`_mem_block` is two words), three handles, no free,
  sbrk called from outside: in place at the end, in place at the rest of a heap, moved,
  shrunk.
* `index_table` - two tables, two indices, two rows, three keys each.
* `contract_call` - 576 linked contracts (two object files with any of three action lists
  and four notify lists, with duplicates between and within files, wildcards and several
  accounts, with and without hooks) and a contract with macros, called by itself, by both
  accounts and by a third, for three action names. The data is packed for some function,
  cut short by a byte, longer by a byte, or has counts and indices with digits beyond the
  value's width and beyond the width of the shift. 656855 states.
* `wasm_cpp` - three driver processes and eight commands: two builds of the same contract
  in different order of inputs to the same output, single compilations with -c that
  wasm-lld then links although their ABIs conflict, a library source with the file name
  of another source, a C file, and a source with method `pay` of class `roll` and method
  `payr` of class `oll`, the second of which gets no stub. Any program may fail, the first
  process may be killed. 92528 states.
* `token` - an issuer, an account and a contract that answers, two precisions of one
  code, an invalid symbol, amounts around 0, 2^62 and the smallest int64_t. 333593 states.

Violations, each of what a comment in the code says:

* `manager_grow_after_free` - a growing realloc merges across `_offset`; the next malloc
  writes into the grown region.
* `manager_shrink` - the excess of a shrinking realloc is never found again.
* `manager_wasm32_exhausted` - a failed sbrk is not noticed on wasm32.
* `dispatch_function_pre` - with pre_dispatch the function body is not closed.
* `contract_call_post` - execute_action runs post_action before the action.

`manager_realloc` leaves free out and `manager_reuse` leaves resizing out because of
the first two: with both, `DataIntact` is the violated run.

Also seen while modelling, and not promised otherwise anywhere:

* allocators: `heap_adj` takes less than 1KiB in pages with an odd number
  (`malloc.cpp:94` against the comment at 88-89); free does not notice a pointer that was
  freed before (`malloc.cpp:447`); calloc clears at nullptr when malloc failed
  (`malloc.cpp:534`); dsmalloc's realloc does not copy (`simple_malloc.cpp:78`); its
  rounding of `last_ptr` wraps to 0 with pages granted if the host allows all but one page
  of the address space (`HostLimitAssumption` excludes exactly that);
* dispatch: a notification from an account that has handlers of its own never reaches a
  wildcard handler; the stub never frees its buffer (`codegen.hpp:250`); a null buffer is
  used (`dispatcher.hpp:30`); regids with an index of 2^20 or more have two spellings
  (`utils.hpp:32`);
* asset: amounts between -1 and 0 lose their sign in text (`asset.hpp:369`), and a text
  without a decimal point is read with the number of its digits as precision
  (`asset.hpp:414`); a ratio of the smallest amount by -1 traps (`asset.hpp:233`);
* drivers: a failed build returns 0 if an output of an earlier build is in place
  (`utils.hpp:188`); of two actions whose method and class names, one after the other, are
  the same text the second gets no stub, although the ABI lists it (`codegen.hpp:305`); two inputs of one file name, or two drivers at once, use each other's
  temporary files (`wasm-cpp.cpp.in:220`); after a conflict of ABIs the new .wasm stands
  beside no or an old .abi (`Writer.cpp:1437`); an alias used only as an alternative of a
  variant is left out of the ABI (`abigen.hpp:426`).

### Bounds

Memory sizes are small but every comparison in the code has both outcomes in the runs: a
request that fits, fits exactly, misses by one, needs a page, needs more than the host
has. Numbers are scaled so that their edges are met: in `contract_call` a byte has a
digit below 4 (`Group`) and a 32-bit value is below 8 (`Word`), so two digits already lose
bits and a third is beyond the shift; 512 bytes are 4 (`max_stack_buffer_size`). In
`token` 2^62 is 4 (`Quarter`), texts are in base 2 (`Radix`) and an int ends at 3
(`IntMax`), so sums leave the valid range, wrap, and meet atoi's limit. `MaxMessages`
= 2 bounds the inline transfers of a transaction: the one that issue sends and one that
a notified contract sends, or two of the latter, which is where orders differ. `Killable` bounds the
crashes to one process. `HeapSlots` is 3 in place of 16. Nothing else is capped: the other
runs end because memory, rows, commands or the body are finite. Deadlock is not checked
where the system stops by itself (memory given out, a contract stopped, apply returned,
drivers ended); `index_table` and `token` check it.

### Fairness

`MemoryManager` assumes weak fairness of `CallStep`: a call that has begun goes on, since
nothing else runs in the contract. Nothing is assumed of clients. No other module states
fairness: the drivers' loops run over finite lists and no driver waits for another, so
nothing is claimed of their end.

## Proofs

All theorems are about the same definitions the runs use, with the constants
unrestricted but for the named assumptions of the modules, which TLC evaluates in the
runs.

The prover cannot instantiate the library's induction theorems. `Induction` therefore
states induction in first-order form, that a set of natural numbers (or of subsets of a
finite set) that is not empty has a least member, and derives from it what is needed:
that `SumFunction` changes by the change of one value, that `%` and `\div` are determined
by their range, and that what each round of a loop keeps holds after the loop. Loops are
recursive functions on the number of rounds for this reason (`possible_size`,
`HeadersTile`, the powers in `Asset`).

### SimpleMallocProofs

For every page size (a multiple of 8), address space, host limit, heap base and set of
requests allowed by the assumptions of `SimpleMalloc`: `TypeCorrect`,
`RegionsNeverOverlap`, `RegionsAreBacked`, `PagesTracked`, `GrowthIsExact`, `Refinement`.

The inductive invariant `IInv` adds to the properties that while the contract runs
`last_ptr` is aligned, lies between the heap base and the end of granted memory, and is
above every region; that `next_page` equals `pages`; and a bound on how much lies above
`last_ptr`. It is needed because disjointness is not inductive: a new region starts at
`last_ptr`, and only its place above all others keeps it apart. The heart of the proof
is that whenever `last_ptr + sz` wraps, the pages asked for exceed the host's limit
(lemmas on `align`, `div` and `OneShort`), so the step only aborts.

### MemoryManagerProofs

For every block size, number of slots, page size, host limit, set of requests, pointer
width (`SeesSbrkFailure` or not) and with any other callers of sbrk:

* `Types` (`TypeOK`), `DataKept` (`DataIntact`), `CompleteHeaps`
  (`OnlyCompleteHeapsSearched`), `Tiling` (`HeadersTile`) and `ImplementsAllocator`
  (`AllocatorSpec`), assuming `NoGrow`: clients call malloc, calloc, free and shrink with
  realloc, but do not grow a region. The assumption cannot be dropped: a growing realloc
  after a free overwrites other regions (run `manager_grow_after_free`). What TLC checks
  beyond it is growing without free (`manager_realloc`);
* `TwoSlots` (`SlotsSuffice`), for every client, assuming `SeesSbrkFailure` and two slots.

The properties speak of walks from header to header, which are not inductive: a merge in
the middle changes every walk that passes it. `IInv` instead says that a set S of
addresses exists, the places of the headers, such that each heap's base is in S, each
header leads to another member of S or to the heap's offset, and no two overlap
(`Tiled`); that each region is in the allocated buffer of a header in S, of its own, is
no larger than the buffer and holds its data (`Owned`); that words of other callers of sbrk
are outside all heaps; that heaps lie one after the other below the break (`HeapsOK`) and
are filled in that order, all but the active one up to their end (`Stage`); and that the
header the search stands at is in S (`Scanned`). A split adds a member to S, a merge
removes the ones between (`Joining`), a bump adds the old offset (`AddBlock`). `Stage` has
one odd part: on wasm32 a slot may have the base that a failed sbrk returned, but only the
active one, unused, until the store that traps. `HeadersTile` and `possible_size` follow
from S by induction over the rounds of their loops.

For `TwoSlots` the invariant `TwoHeaps` says that the active heap is the initial one, or
ends exactly at the break, and that the break is a multiple of the block size. The latter
is what makes the rounding in sbrk add nothing, so that the next memory starts where the
heap ends and `next_active_heap` extends it.

### IndexTableProofs

For any tables, indices, rows and keys:

* `TypeCorrect`;
* `LookupsAreSound`, assuming `StemsApart` and `DeletesStored`, for contracts that check
  keys and for those that do not;
* `LookupsAreComplete`, assuming also `ChecksKeys`. Completeness alone is not inductive:
  that the entry removed is the row's own follows from soundness, which is therefore
  part of the invariant;
* `OthersStayFound` (`OtherLookupsKept`), from both and the same assumptions.

### AssetProofs and TokenProofs

`ArithmeticExact`, for every width of the integer: on amounts within 2^62 sums,
differences, negations and the products that pass the check are the exact ones; the checks
that come after the operation (`asset.hpp:118`) are sound for such operands. It rests on
`WrapExact`: a value in range is not changed by wrapping, and a sum of two amounts within
2^62 is in range.

For any accounts, codes, quantities (valid or not), width and number of messages:
`TypeCorrect`; `SuppliesValid` (`StatsValid`); `RowsValid` (`BalancesValid`); `Authority`
(`OnlyAuthorised`); `TokensKept` (`SupplyIsBalances`); `TextKept` (`BalancesReadBack`).

The invariant `IInv` says of the copy kept for undoing what it says of the rows, since
`Undo` brings it back; that every transfer under way is of an account among the signers,
without which `RunInline` could take tokens from anyone; and that at rest the rows equal
the copy and nothing is under way. Validity of the rows is needed for authority as well:
only because balances and quantities are within 2^62 does a transfer not wrap a balance
of the receiver down. `Balanced` adds that supply and sum of balances agree, in the
rows and in the copy; each action shifts one or two terms of the sum (`ShiftedSum`), by
exactly the quantity because `IInv` excludes wrapping. `TextKept` follows from `IInv` with
the facts that a power of the radix is positive and that an amount is its whole part times
that power plus the rest.

### ContractCallProofs

For every set of contracts, functions, arguments, data, packing and stack limit:
`HandlerOnce` (`HandlerRunsIffAddressed`), `Returned` (`BufferReturned`), `Stubs`
(`StubsAreCalls`).

`CallInv` relates the place a call is at to what has run by then (`Progress`: before
"release" no handler, at "release" exactly one), to the buffer and the bytes malloc has
given (`Memory`: they equal the size of the data exactly while the buffer is on the heap),
and says that the parts only the macros have are never entered from the linker's apply
(`InStub`). Without the second, that free gives everything back is not inductive: the test
on the size is made again, on data read in between.

For any number of files and handlers, with repetitions, any codes and any combination of
the hooks: `RightHandlerCalled` (`RightHandler`), `HooksCalledAround` (`HooksAround`). The
apply is a tree of ifs written as a flat list of instructions, and the machine finds the
`else` or `end` that belongs to an `if` by counting. The argument goes from the code to
the calls:

* `IsBlock`: code whose elses and ends belong to its own ifs. Such code is skipped as a
  whole (`BlockSkipped`), and what matches in it matches wherever it is placed
  (`MatchPlaced`, `MatchIsNext`);
* `Does(b, H, W)`: code b, run while the conditions H hold, ends in one of the outcomes W.
  Its witness gives for every instruction the calls that can have been made before it. An
  if does what its branches do (`OnlyIf`, `Branch`), a chain of ifs joined by else what the
  first branch whose condition holds does (`Chain`, by induction on its length), so the
  dispatch of actions and that of notifications call a handler that is meant, or none if
  there is none (`DispatchDoes`);
* `ApplyInv`: a call is at one of seven places of the apply or stopped (`Reach`), with the
  hooks called by then, pre_dispatch in agreement from the dispatch on, and within the
  dispatch at an instruction with calls that the witness allows. By `Stubs` the stubs in
  between change nothing.

Their two hypotheses are evaluated by TLC for the contracts of `MCDispatchFunction`.
`CodesApart`: different codes of notify handlers are different regids. `string_to_regid`
(`utils.hpp:20`, "should validate height and index") adds an index to a shifted height, so
an index of more than 20 bits can be the regid of another account, and then only the group
of the first code is searched. `HandlersApart`: no handler is called like a hook, which
the prefixes of codegen (`codegen.hpp:283`, `288`) see to.

### WasmCppProofs

For any processes, commands, inputs and file names: `ZeroMeansBuilt`
(`SuccessMeansBuilt`), `NothingLeft` (`TempsRemoved`). For any declarations and types as
well: `ContradictionsRefused` (`ConflictsRefused`), `AbisClosed` (`AbiClosed`),
`StubsForActions` (`ActionsHaveStubs`), `ActionsDescribed` (`AbiDescribes`).

`IInv` says which part a process is at (`Places`); that a file which carries the
mark of a process is among those that a process at that part may have left (`Marks`); that
while a process is `alone` no other running process touches its files (`Undisturbed`); and
what an undisturbed build has made so far (`Builds`: no output before the link, objects of
the inputs done so far each from their own source, a copy that is whole when it is
compiled). `Builds` needs that inputs have different file names and that temporary files,
objects and outputs never coincide, which follows from how the names are formed (`Apart`).

The theorems about ABIs rest on two more invariants. `GenInv`: what the abigen and the
codegen of a process hold is what the inputs visited so far declare (`Carries`), and every
ABI in a file was made by `to_json` from sources that exist. `Assembles`: the copy, the
objects and the output of a linking driver that is alone have the ABIs and the stubs of
its own inputs (`Translated`), the output those of all objects, the last input first
(`LinkedFrom`). Neither is about what ABIs say. That is in the lemmas about the operators:

* `Insert` keeps what is there and adds one object per new name (`Grown`), so the abigen
  `Collects` what its inputs add, whatever they repeat;
* `writeABI` keeps an object for each name of each ABI, invents none, and has compared
  each with the one that stands for it (`MergedFacts`);
* `struct_is_same` compares the number of fields and looks up those of one struct in the
  other. That makes them the same fields only if none occurs twice (`SameFields`);
* all types a declaration reaches are collected (`ReachedKnown`), and what `to_json` drops
  nothing that stays refers to (`JsonClosed`), nor does the merge change this;
* the first object with an ABI is the last of the list, which `writeABI` starts from; its
  clauses are those of the file once, and a merge then adds no clause (`FirstClauses`,
  `WithinAll`).

The theorems have hypotheses on the sources, which TLC evaluates for the sources of `MCWasmCpp`:

* `FieldsDistinct`: no two fields of a struct, or parameters of an action, are the same.
  C++ sees to it for fields; parameters may be unnamed, and two of one type are then the
  same field of the ABI;
* `NamesResolve`: an alias has a target, bases and records of tables are structs, a
  container goes by the name of a type it holds;
* `NamesUsable`: clauses of one id have one text (the merge throws otherwise), and no
  action is called like a built-in type: `validate_struct` would drop its parameters;
* `AbsentIsNoContent`: the content of a file that does not exist is no content of a file.
  TLC has a model value for it.

`ActionsHaveStubs` itself is about builds from sources that agree (`ActionsAgree`):
declarations whose method and class, written one after the other, are the same text are of
one action and of one contract, and the library declares no actions of a contract.
`full_action_name` (`codegen.hpp:305`) has neither a separator nor the parameters in it, so
two pairs of names with one concatenation, or overloads, break it. TLC evaluates it for
every build of the run: it fails for the source with `pay` and `payr`, where without it the
property does not hold, and is true of all others.

### Only model-checked

* `NullMeansNoRoom`: that a failed search has passed every gap needs an invariant on the
  merges made earlier in the same search, on top of `IInv`;
* `DataIntact`, `HeadersTile` and `AllocatorSpec` for clients that grow and do not free;
* `ArgumentsArrive`: `Datastream` is recursive in the types, and its operators are
  RECURSIVE, which the prover does not take;
* liveness (`CallsReturn`), which is out of the prover's reach.

## Not modelled

* Vendored code: LLVM, Clang, lld but for what the kit adds to `Writer.cpp`, libc++, musl,
  Boost, jsoncons. It is nearly all of the repository's lines and not this program.
* Host wrappers (`crypto.cpp`, `system.hpp`, `privileged.hpp`, `wasmlib.cpp`,
  `producer_schedule.hpp`): one host call each, with no state of their own.
* Formatting (`print.hpp`, `rope.hpp`, `strings.hpp`, logs), `memory.cpp` (byte loops).
* The translation of command-line options (`compiler_options.hpp.in`): text in, text out.
* The packing of characters in `name`, `symbol` and `regid`: names are model values. Value
  types without state (`uint128`, `fixed_bytes`, `hash256`, `time`).
* `call`, `call_with_return`, `set_return`: what the host's calls return is not determined
  by the sources; `transaction::call_with_return` calls `call` (`inline_transaction.hpp:275`),
  which the code marks as support for a later version.
* Of datastream: maps, arrays, skip (which does not check, `datastream.hpp:61`) and seekp,
  `binary_extension`, `ignore`: no stub or macro depends on the order of their steps.
* Requests of 2^31 bytes and more in `MemoryManager`; counts whose product wraps in
  dsmalloc's calloc are modelled, but nothing promises their size.

Smaller simplifications inside the modelled parts:

* the linker calls constructors and `finalize` only if their symbols exist
  (`Writer.cpp:1217`, `1290`), and ends with `fatal()` when a function it needs is missing
  (`1083`, `1315`): `DispatchFunction` always has the calls and the functions;
* sbrk of `malloc.cpp` adds `__get_heap_base()` on the native side (line 50), and
  `realloc_in_place` writes several headers in an order (337-339) that nothing sees:
  `MemoryManager` has the break itself and one write;
* the comparison of actions also compares their `ricardian_contract`
  (`abimerge.hpp:70`), so the code refuses more merges than `AbiMerge`;
* abigen visits types by recursion without a set of those it has visited
  (`abigen.hpp:158-188`) and does not come back from one that refers to itself: `Abigen`
  collects the closure, and its runs have no such type;
* contracts that are notified answer with transfers only (`Token`), not with other inline
  actions.

## Plan

1. Proofs: `NullMeansNoRoom` on top of `IInv` of `MemoryManager`.
2. `NoGrow` weakened to clients that never free or never grow.
3. The packing of `name`, `symbol` and `regid` against reference definitions.
4. Several contracts with call and return values, once the host's side is part of the
   repository.

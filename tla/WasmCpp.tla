------------------------------ MODULE WasmCpp ------------------------------
(***************************************************************************)
(* The compiler drivers tools/wasm-cc/wasm-cpp.cpp.in, wasm-cc.cpp.in and  *)
(* tools/wasm-lld/wasm-lld.cpp.in, as processes that share one file        *)
(* system.  wasm-cpp visits each input twice (abigen, then codegen, which  *)
(* writes a copy with stubs and ABI into the temporary directory), runs    *)
(* clang-7 on the copy, and at the end the linker on all objects.          *)
(* exec_subprogram does not look at what became of the program it runs.    *)
(*                                                                         *)
(* Contents of files: the sources that went in, the ABIs and stubs that    *)
(* came with them, the process that wrote it, and whether it is complete.  *)
(* Sources never change and the temporary directory can be written to.     *)
(* Commands name their output (-o).                                        *)
(***************************************************************************)
EXTENDS Abigen

CONSTANTS
    Procs,      \* processes
    Commands,   \* Commands[p]: the commands process p may be started with
    Killable,   \* processes that may be killed, to bound the crashes
    FileName,   \* FileName[s]: the last component of the path of source s
    Library,    \* sources whose path has "libc++" or "wasmlib" in it
    Absent      \* content of a file that does not exist

ASSUME SourcesAssumption == DOMAIN FileName = DOMAIN Decls

(* wasm-lld links the objects that wasm-cpp -c left at the given outputs *)
ASSUME CommandsAssumption ==
    \A c \in UNION {Commands[p] : p \in Procs} :
        /\ c.tool \in {"wasm-cpp", "wasm-cc", "wasm-lld"} /\ c.link \in BOOLEAN
        /\ c.inputs \in Seq(IF c.tool = "wasm-lld" THEN STRING ELSE DOMAIN FileName)
        /\ c.inputs # <<>>
        /\ c.output \in STRING /\ c.abigen \in BOOLEAN

VARIABLES
    files,      \* path -> content
    cmd, pc,    \* of each process: its command, the next part of the code
    at,         \* the input being compiled
    ag,         \* get_abigen_ref()
    cg,         \* codegen::get(): abi and the names of actions visited
    exit,       \* "0", "-1" (or aborted by an exception), or "killed"; "none"
                \* while the process runs
    alone       \* history: nothing stood in its way, see Start, KeepObject

procVars == <<cmd, pc, at, ag, cg, exit, alone>>
vars == <<files, procVars>>

TmpSource(s) == <<"tmp", FileName[s]>>
Output(c) == <<"out", c.output>>
AbiFile(c) == <<"abi", c.output>>
AbigenOutput(c) == <<"abigen_output", c.output>>

(* where the object of input s goes *)
Object(c, s) ==
    CASE ~c.link -> Output(c)
      [] c.link /\ c.tool = "wasm-cpp" -> <<"tmp.o", FileName[s]>>
      [] c.link /\ c.tool = "wasm-cc" -> <<"tmp.c.o", s>>

Inputs(c) == ToSet(c.inputs)

Outputs(c) ==
    CASE c.tool = "wasm-lld" -> {<<"out", o>> : o \in Inputs(c)}
      [] OTHER -> {Object(c, s) : s \in Inputs(c)}

Temporaries(c) ==
    IF c.tool = "wasm-cpp" THEN {TmpSource(s) : s \in Inputs(c)} ELSE {}

(* the files a command writes or reads besides its sources *)
Touches(c) ==
    Outputs(c) \union Temporaries(c) \union {Output(c), AbiFile(c), AbigenOutput(c)}

Paths == UNION {UNION {Touches(c) : c \in Commands[p]} : p \in Procs}

Content(sources, abis, stubs, p, whole) ==
    [sources |-> sources, abis |-> abis, stubs |-> stubs, by |-> p, whole |-> whole]

NoCommand == [tool |-> "none", inputs |-> <<>>, output |-> "none", link |-> FALSE,
              abigen |-> FALSE]

Init ==
    /\ files = [f \in Paths |-> Absent]
    /\ cmd = [p \in Procs |-> NoCommand]
    /\ pc = [p \in Procs |-> "idle"] /\ at = [p \in Procs |-> 1]
    /\ ag = [p \in Procs |-> NewAbigen]
    /\ cg = [p \in Procs |-> [abis |-> <<>>, names |-> {}]]
    /\ exit = [p \in Procs |-> "none"] /\ alone = [p \in Procs |-> FALSE]

Running(p) == pc[p] \notin {"idle", "ended"}
Input(p) == cmd[p].inputs[at[p]]

-----------------------------------------------------------------------------
(* Starting and ending *)

Sharing(c) ==
    {q \in Procs : cmd[q] # NoCommand /\ Touches(cmd[q]) \cap Touches(c) # {}}

(* Two inputs with one file name, an output that was there before, or the    *)
(* copy another source of that name left behind by a process that failed.    *)
Hindered(c) ==
    \/ \E i, j \in DOMAIN c.inputs : i # j /\ c.tool # "wasm-lld"
                                     /\ FileName[c.inputs[i]] = FileName[c.inputs[j]]
    \/ files[Output(c)] # Absent \/ files[AbiFile(c)] # Absent
    \/ c.tool = "wasm-cpp"
       /\ \E s \in Inputs(c) \cap Library : files[TmpSource(s)] # Absent

Start(p, c) ==
    /\ pc[p] = "idle"
    /\ cmd' = [cmd EXCEPT ![p] = c]
    /\ pc' = [pc EXCEPT ![p] = CASE c.tool = "wasm-cpp" -> "abigen"
                                 [] c.tool = "wasm-cc" -> "compile"
                                 [] c.tool = "wasm-lld" -> "link"]
    /\ alone' = [q \in Procs |->
                    CASE q = p -> ~Hindered(c) /\ \A r \in Sharing(c) : ~Running(r)
                      [] q # p -> alone[q] /\ q \notin Sharing(c)]
    /\ UNCHANGED <<files, at, ag, cg, exit>>

Goto(p, label) == pc' = [pc EXCEPT ![p] = label]

Return(p, value) == exit' = [exit EXCEPT ![p] = value] /\ Goto(p, "ended")

(* the user or the system ends the process between two steps *)
Kill(p) ==
    /\ Running(p) /\ p \in Killable
    /\ Return(p, "killed")
    /\ UNCHANGED <<files, cmd, at, ag, cg, alone>>

-----------------------------------------------------------------------------
(* generate *)

Actions(s) == {d \in ToSet(Decls[s]) : d.kind = "action"}

(* the abigen pass, and set_abi *)
GenerateAbi(p) ==
    /\ pc[p] = "abigen"
    /\ \/ Return(p, "-1") /\ UNCHANGED <<ag, cg>>
       \/ \E visited \in {VisitAll(ag[p], Input(p))} :
              /\ ag' = [ag EXCEPT ![p] = visited]
              /\ cg' = IF is_empty(visited) THEN cg
                       ELSE [cg EXCEPT ![p].abis = <<to_json(visited)>>]
              /\ Goto(p, "codegen")
              /\ UNCHANGED exit
    /\ UNCHANGED <<files, cmd, at, alone>>

(* Mutant of FullName: the class is forgotten. *)
MethodName(d) == d.method

(* full_action_name: the two names, with nothing between them *)
FullName(d) == d.method \o d.class

(* the i-th declaration of s is the first action of its full name in s *)
FirstOfName(s, i) ==
    /\ Decls[s][i].kind = "action"
    /\ \A j \in 1 .. i - 1 :
          Decls[s][j].kind = "action" => FullName(Decls[s][j]) # FullName(Decls[s][i])

(* VisitCXXMethodDecl: a stub for each action of a full name not visited     *)
(* before, in this input or an earlier one; the names of actions of other    *)
(* contracts count too                                                       *)
Stubs(p, s) ==
    {Decls[s][i].name : i \in {j \in DOMAIN Decls[s] :
        FirstOfName(s, j) /\ Decls[s][j].mine /\ FullName(Decls[s][j]) \notin cg[p].names}}

(* the codegen pass opens the copy, if the source is to have one *)
OpenCopy(p) ==
    LET s == Input(p) IN
    /\ pc[p] = "codegen"
    /\ \/ /\ s \notin Library
          /\ files' = [files EXCEPT ![TmpSource(s)] = Content({s}, <<>>, {}, p, FALSE)]
          /\ Goto(p, "write")
          /\ UNCHANGED exit
       \/ s \in Library /\ Goto(p, "compile") /\ UNCHANGED <<files, exit>>
       \/ Return(p, "-1") /\ UNCHANGED files
    /\ UNCHANGED <<cmd, at, ag, cg, alone>>

(* ... and writes it; an error reported by a visitor still ends the run *)
WriteCopy(p) ==
    LET s == Input(p) IN
    /\ pc[p] = "write"
    /\ files' = [files EXCEPT ![TmpSource(s)] = Content({s}, cg[p].abis, Stubs(p, s), p, TRUE)]
    /\ cg' = [cg EXCEPT ![p].names = @ \union {FullName(d) : d \in Actions(s)}]
    /\ \/ Goto(p, "compile") /\ UNCHANGED exit
       \/ Return(p, "-1")
    /\ UNCHANGED <<cmd, at, ag, alone>>

-----------------------------------------------------------------------------
(* main *)

(* the copy in the temporary directory, if there is one *)
Source(p) ==
    LET s == Input(p) IN
    IF cmd[p].tool = "wasm-cpp" /\ files[TmpSource(s)] # Absent
    THEN files[TmpSource(s)]
    ELSE Content({s}, <<>>, {}, p, TRUE)

(* what comes after input at[p] was compiled *)
NextInput(p) ==
    IF at[p] < Len(cmd[p].inputs)
    THEN /\ at' = [at EXCEPT ![p] = @ + 1]
         /\ Goto(p, IF cmd[p].tool = "wasm-cpp" THEN "abigen" ELSE "compile")
         /\ UNCHANGED exit
    ELSE /\ UNCHANGED at
         /\ CASE cmd[p].abigen /\ cmd[p].tool = "wasm-cpp" ->
                     Goto(p, "abi") /\ UNCHANGED exit
              [] ~(cmd[p].abigen /\ cmd[p].tool = "wasm-cpp") /\ cmd[p].link ->
                     Goto(p, "link") /\ UNCHANGED exit
              [] OTHER -> Return(p, "0")

(* clang-7 writes the object, or removes it when it fails.  If it cannot be  *)
(* found at all, the copy is removed and the driver ends.                    *)
Compile(p) ==
    LET object == Object(cmd[p], Input(p))
        s == Source(p)
    IN
    /\ pc[p] = "compile"
    /\ \/ /\ files' = [files EXCEPT ![object] =
                          Content(s.sources, s.abis, s.stubs, p, s.whole)]
          /\ Goto(p, "compiled") /\ UNCHANGED exit
       \/ /\ files' = [files EXCEPT ![object] = Absent]
          /\ Goto(p, "compiled") /\ UNCHANGED exit
       \/ /\ files' = [f \in Paths |->
                          IF f \in {TmpSource(Input(p))} /\ cmd[p].tool = "wasm-cpp"
                          THEN Absent ELSE files[f]]
          /\ Return(p, "-1")
    /\ UNCHANGED <<cmd, at, ag, cg, alone>>

(* clang-7 is killed, or std::system cannot start it, and an older object    *)
(* stays in its place.                                                       *)
KeepObject(p) ==
    /\ pc[p] = "compile"
    /\ files[Object(cmd[p], Input(p))] # Absent
    /\ Goto(p, "compiled")
    /\ alone' = [alone EXCEPT ![p] = FALSE]
    /\ UNCHANGED <<files, cmd, at, ag, cg, exit>>

(* Mutant of RemoveCopy: the copy stays. *)
KeepCopy(p) ==
    /\ pc[p] = "compiled"
    /\ NextInput(p)
    /\ UNCHANGED <<files, cmd, ag, cg, alone>>

RemoveCopy(p) ==
    /\ pc[p] = "compiled"
    /\ files' = [f \in Paths |->
                    IF cmd[p].tool = "wasm-cpp" /\ f = TmpSource(Input(p))
                    THEN Absent ELSE files[f]]
    /\ NextInput(p)
    /\ UNCHANGED <<cmd, ag, cg, alone>>

(* --abigen: the ABI of everything visited, not what the linker merges *)
WriteAbigenOutput(p) ==
    /\ pc[p] = "abi"
    /\ files' = [files EXCEPT ![AbigenOutput(cmd[p])] =
                     Content(Inputs(cmd[p]), <<to_json(ag[p])>>, {}, p, TRUE)]
    /\ IF cmd[p].link THEN Goto(p, "link") /\ UNCHANGED exit ELSE Return(p, "0")
    /\ UNCHANGED <<cmd, at, ag, cg, alone>>

(* Mutant of Objects: in the order of the inputs. *)
ObjectsForward(p) ==
    IF cmd[p].tool = "wasm-lld"
    THEN [i \in DOMAIN cmd[p].inputs |-> files[<<"out", cmd[p].inputs[i]>>]]
    ELSE [i \in DOMAIN cmd[p].inputs |-> files[Object(cmd[p], cmd[p].inputs[i])]]

(* the objects, in the order the linker gets them: the drivers put each in   *)
(* front of the others                                                       *)
Objects(p) ==
    IF cmd[p].tool = "wasm-lld"
    THEN [i \in DOMAIN cmd[p].inputs |-> files[<<"out", cmd[p].inputs[i]>>]]
    ELSE Reverse([i \in DOMAIN cmd[p].inputs |-> files[Object(cmd[p], cmd[p].inputs[i])]])

(* wasm-ld has all its objects: the output is written, then the ABI unless   *)
(* merging it throws.                                                        *)
Linked(p, objects) ==
    LET all == ToSet(objects)
        abis == FlattenSeq([i \in DOMAIN objects |-> objects[i].abis])
        linked == Content(UNION {o.sources : o \in all}, abis,
                          UNION {o.stubs : o \in all}, p, \A o \in all : o.whole)
    IN  IF abis # <<>> /\ writeABI(abis).ok
        THEN [files EXCEPT ![Output(cmd[p])] = linked, ![AbiFile(cmd[p])] = linked]
        ELSE [files EXCEPT ![Output(cmd[p])] = linked]

(* wasm-lld: wasm-ld and wasm-pp, which rewrites the output in place.  An    *)
(* error in either leaves the output as it is; the drivers look for the      *)
(* output only.                                                              *)
Link(p) ==
    /\ pc[p] = "link"
    /\ Goto(p, "linked")
    /\ \/ UNCHANGED files
       \/ /\ Absent \notin ToSet(Objects(p))
          /\ files' = Linked(p, Objects(p))
    /\ UNCHANGED <<cmd, at, ag, cg, exit, alone>>

(* Mutant of Finish: the output is not looked for. *)
FinishUnchecked(p) ==
    /\ pc[p] = "linked"
    /\ files' = IF cmd[p].tool = "wasm-lld" THEN files
                ELSE [f \in Paths |-> IF f \in Outputs(cmd[p]) THEN Absent ELSE files[f]]
    /\ Return(p, "0")
    /\ UNCHANGED <<cmd, at, ag, cg, alone>>

(* the objects are removed; -1 if there is no output, or a program was not   *)
(* found                                                                     *)
Finish(p) ==
    /\ pc[p] = "linked"
    /\ files' = IF cmd[p].tool = "wasm-lld" THEN files
                ELSE [f \in Paths |-> IF f \in Outputs(cmd[p]) THEN Absent ELSE files[f]]
    /\ \/ Return(p, IF files'[Output(cmd[p])] = Absent THEN "-1" ELSE "0")
       \/ Return(p, "-1")
    /\ UNCHANGED <<cmd, at, ag, cg, alone>>

Step(p) ==
    \/ GenerateAbi(p) \/ OpenCopy(p) \/ WriteCopy(p) \/ Compile(p) \/ RemoveCopy(p)
    \/ WriteAbigenOutput(p) \/ Link(p) \/ Finish(p)

Next ==
    \E p \in Procs :
        \/ \E c \in Commands[p] : Start(p, c)
        \/ Step(p)
        \/ KeepObject(p)
        \/ Kill(p)

Spec == Init /\ [][Next]_vars

-----------------------------------------------------------------------------
(* Properties *)

Succeeded(p) == exit[p] = "0" /\ cmd[p].link /\ cmd[p].tool # "wasm-lld"

(* A driver that returns 0 after linking has an output with all of its own   *)
(* inputs in it, each complete, although it never learns whether clang or    *)
(* the linker failed (utils.hpp:186, wasm-cpp.cpp.in:246, 283): a missing    *)
(* object keeps the linker from writing.  What killed or failed processes    *)
(* left in the temporary directory does not matter, unless clang-7 dies      *)
(* without removing an old object; processes that use the same names at the  *)
(* same time, and an output that was there before, do.                       *)
SuccessMeansBuilt ==
    \A p \in Procs : Succeeded(p) /\ alone[p] =>
        LET built == files[Output(cmd[p])] IN
        /\ built # Absent
        /\ built.by = p /\ built.whole /\ built.sources = Inputs(cmd[p])

(* After exit 0 nothing of the process is left in the temporary directory,   *)
(* whatever other processes did to its files (wasm-cpp.cpp.in:250, 279-281). *)
TempsRemoved ==
    \A p \in Procs : exit[p] = "0" /\ cmd[p].tool # "wasm-lld" =>
        \A f \in Paths : files[f] # Absent /\ files[f].by = p =>
            f \in {Output(cmd[p]), AbiFile(cmd[p]), AbigenOutput(cmd[p])}

(* No two actions, tables or types the sources declare share a name. *)
Unambiguous(sources) ==
    LET actions == UNION {{d \in Actions(s) : d.mine} : s \in sources}
        tables == UNION {ToSet(Decls[s]) \ Actions(s) : s \in sources}
        types == {t \in Reach({d.type : d \in tables}
                               \union UNION {{u.type : u \in ToSet(d.params)} : d \in actions}) :
                     Types[t].kind \in {"struct", "variant", "alias"}}
    IN  /\ \A t, u \in types : Types[t].name = Types[u].name => t = u
        /\ \A d, e \in actions : d.method = e.method \/ d.name = e.name => d = e
        /\ \A d, e \in tables : d.name = e.name => d.type = e.type
        /\ \A d \in actions, t \in types : Types[t].name # d.method

(* Clauses of one id have one text, and no action is called like a type that *)
(* is built in.                                                              *)
NamesUsable ==
    /\ \A i, j \in DOMAIN Clauses : Clauses[i].id = Clauses[j].id => Clauses[i] = Clauses[j]
    /\ \A s \in DOMAIN Decls : \A d \in Actions(s) : d.mine => ~is_builtin_type(d.method)

AbiOf(content) == writeABI(content.abis)

Described(abi, d) ==
    /\ [name |-> d.name, def |-> d.method] \in abi.objects["actions"]
    /\ [name |-> d.method, def |-> [base |-> {}, fields |-> Fields(d.params)]]
           \in abi.objects["structs"]

(* If names are unambiguous, a build that succeeds has an ABI in which each  *)
(* action of each input has its own parameters, and each clause stands once, *)
(* although every input after the first adds all clauses again and the ABIs  *)
(* of the objects overlap (wasm-cpp.cpp.in:80-84, Writer.cpp:107-110).       *)
AbiDescribes ==
    \A p \in Procs :
        LET mine == UNION {{d \in Actions(s) : d.mine} : s \in Inputs(cmd[p]) \ Library} IN
        (Succeeded(p) /\ alone[p] /\ cmd[p].tool = "wasm-cpp" /\ mine # {}
         /\ Unambiguous(Inputs(cmd[p]))) =>
            /\ files[AbiFile(cmd[p])] # Absent
            /\ files[AbiFile(cmd[p])].by = p
            /\ LET abi == AbiOf(files[AbiFile(cmd[p])]) IN
               /\ \A d \in mine : Described(abi, d)
               /\ Inputs(cmd[p]) \cap Library = {} => abi.clauses = Clauses

(* names the parts of an ABI refer to, alternatives of variants left out     *)
References(objects) ==
    FieldNames(objects["structs"])
    \union (UNION {s.def.base : s \in objects["structs"]})
    \union {remove_suffix(td.def) : td \in objects["types"]}
    \union {o.def : o \in objects["actions"] \union objects["tables"]}

Defined(objects) ==
    {o.name : o \in objects["structs"] \union objects["types"] \union objects["variants"]}

(* Every ABI the linker writes, from whatever objects, defines the types its *)
(* structs, typedefs, actions and tables refer to: nothing to_json leaves    *)
(* out (abigen.hpp:392-439) is needed, and the merge keeps all of it.        *)
AbiClosed ==
    \A f \in Paths : f[1] \in {"abi", "abigen_output"} /\ files[f] # Absent =>
        LET objects == AbiOf(files[f]).objects IN
        \A n \in References(objects) : n \in Defined(objects) \/ is_builtin_type(n)

(* The linker does not join ABIs that contradict each other: an ABI that was *)
(* written agrees with each of those it was made from on every struct, up to *)
(* the order of fields, and every table and action (abimerge.hpp:108-128).   *)
ConflictsRefused ==
    \A f \in Paths : f[1] = "abi" /\ files[f] # Absent =>
        \A i, j \in DOMAIN files[f].abis :
            \A s \in Sections \ {"variants"} :
                \A x \in files[f].abis[i].objects[s], y \in files[f].abis[j].objects[s] :
                    x.name = y.name =>
                        IF s = "structs"
                        THEN /\ x.def.base = y.def.base
                             /\ ToSet(x.def.fields) = ToSet(y.def.fields)
                        ELSE x.def = y.def

(* Declarations in the sources whose method and class, written one after the *)
(* other, give the same text are of one action and of one contract, and the  *)
(* files of the library have no actions of a contract.  Method "pay" of      *)
(* class "roll" and method "payr" of class "oll" break it, as do overloads.  *)
ActionsAgree(sources) ==
    /\ \A s, t \in sources : \A d \in Actions(s), e \in Actions(t) :
          d.method \o d.class = e.method \o e.class => d.name = e.name /\ d.mine = e.mine
    /\ \A s \in sources \cap Library : \A d \in Actions(s) : ~d.mine

(* The linked contract has a stub for every action its ABI lists, if it was  *)
(* built in one run from sources that agree: abigen goes by the name of the  *)
(* action, codegen by that of the method and its class and by what it has    *)
(* visited since the process began (codegen.hpp:305-309).                    *)
ActionsHaveStubs ==
    \A p \in Procs :
        (/\ Succeeded(p) /\ alone[p] /\ files[AbiFile(cmd[p])] # Absent
         /\ ActionsAgree(Inputs(cmd[p]))) =>
            {a.name : a \in AbiOf(files[AbiFile(cmd[p])]).objects["actions"]}
                \subseteq files[Output(cmd[p])].stubs
=============================================================================

--------------------------- MODULE WasmCppProofs ---------------------------
(***************************************************************************)
(* Proofs about the compiler drivers, for any number of processes and      *)
(* commands, killed at any point, with any sources.  First what a driver   *)
(* builds (IInv); then what abigen collects and the linker merges, for any *)
(* declarations; then what is in the files of ABIs (GenInv), and what ends *)
(* up in the output of a driver that is alone (Assembles).                 *)
(***************************************************************************)
EXTENDS WasmCpp, Induction, TLAPS

AllCommands == UNION {Commands[p] : p \in Procs}

Labels == {"idle", "abigen", "codegen", "write", "compile", "compiled", "abi",
           "link", "linked", "ended"}

(* Where the processes are, and with which command *)
Shape ==
    /\ files = [f \in Paths |-> files[f]]
    /\ cmd \in [Procs -> AllCommands \union {NoCommand}]
    /\ pc \in [Procs -> Labels]
    /\ at \in [Procs -> Nat]
    /\ exit \in [Procs -> {"none", "0", "-1", "killed"}]
    /\ alone \in [Procs -> BOOLEAN]

(* A process that was started with command c, and is to run part l on input  *)
(* n, is in a part of the code its command has.                              *)
Busy(c, l, n) ==
    /\ n \in 1 .. Len(c.inputs)
    /\ c.tool = "wasm-lld" => l \in {"link", "linked", "ended"}
    /\ c.tool = "wasm-cc" => l \in {"compile", "compiled", "link", "linked", "ended"}
    /\ l = "write" => c.inputs[n] \notin Library

(* A process runs a command of its own, at a part that command has.         *)
Places ==
    \A p \in Procs :
        /\ pc[p] = "idle" => cmd[p] = NoCommand /\ ~alone[p] /\ at[p] = 1
        /\ pc[p] # "idle" => cmd[p] \in Commands[p] /\ Busy(cmd[p], pc[p], at[p])
        /\ exit[p] # "none" <=> pc[p] = "ended"

(* The files that may carry the mark of a process that has ended with e, or   *)
(* runs part l on input n *)
Kept(c) == {Output(c), AbiFile(c), AbigenOutput(c)}

(* They are what it keeps, and what it has not removed yet.                 *)
Left(c, l, e, n) ==
    Kept(c)
    \union (IF e = "0" THEN {} ELSE Outputs(c))
    \union (IF /\ c.tool = "wasm-cpp"
               /\ l \in {"write", "compile", "compiled"} \/ e \in {"-1", "killed"}
            THEN {TmpSource(c.inputs[n])} ELSE {})

(* A file carries the mark of the process that wrote it last.               *)
Marks ==
    \A p \in Procs, f \in Paths :
        files[f] # Absent /\ files[f].by = p =>
            /\ pc[p] # "idle"
            /\ cmd[p].tool # "wasm-lld" => f \in Left(cmd[p], pc[p], exit[p], at[p])

(* While a process is alone no other one that touches its files runs. *)
Undisturbed ==
    \A p, q \in Procs :
        (/\ alone[p] /\ p # q /\ pc[p] # "idle" /\ pc[q] # "idle"
         /\ Touches(cmd[q]) \cap Touches(cmd[p]) # {}) => ~Running(q)

(* x is what input s is compiled to by p, if it is compiled. *)
Own(x, p, s) == x = Absent \/ (x.by = p /\ x.whole /\ x.sources = {s})

(* What a process p that is alone finds in the files fs *)
Building(p, c, l, e, n, fs) ==
    LET before == l \notin {"linked", "ended"} IN
    /\ \A i, j \in DOMAIN c.inputs :
          i # j => FileName[c.inputs[i]] # FileName[c.inputs[j]]
    /\ before => fs[Output(c)] = Absent
    /\ before /\ c.tool = "wasm-cpp" =>
          \A s \in Inputs(c) \cap Library : fs[TmpSource(s)] = Absent
    /\ l = "compile" /\ c.tool = "wasm-cpp" =>
          LET copy == fs[TmpSource(c.inputs[n])] IN
          copy = Absent \/ (copy.whole /\ copy.sources = {c.inputs[n]})
    /\ before =>
          \A i \in DOMAIN c.inputs :
             i < n \/ l \in {"abi", "link"} \/ (i = n /\ l = "compiled") =>
                Own(fs[Object(c, c.inputs[i])], p, c.inputs[i])
    /\ l = "linked" \/ e = "0" =>
          LET built == fs[Output(c)] IN
          built = Absent \/ (built.by = p /\ built.whole /\ built.sources = Inputs(c))
    /\ e = "0" => fs[Output(c)] # Absent

(* What a link that nobody disturbs has built so far                        *)
Builds ==
    \A p \in Procs :
        alone[p] /\ pc[p] # "idle" /\ cmd[p].link /\ cmd[p].tool # "wasm-lld" =>
            Building(p, cmd[p], pc[p], exit[p], at[p], files)

(* The inductive invariant *)
IInv == Shape /\ Places /\ Marks /\ Undisturbed /\ Builds

-----------------------------------------------------------------------------
(* Commands and the files they touch *)

(* What a command is, and that its files exist. *)
LEMMA CommandFacts ==
    ASSUME NEW p \in Procs, NEW c \in Commands[p]
    PROVE  /\ c \in AllCommands /\ c # NoCommand
           /\ c.tool \in {"wasm-cpp", "wasm-cc", "wasm-lld"} /\ c.link \in BOOLEAN
           /\ Len(c.inputs) \in Nat \ {0} /\ DOMAIN c.inputs = 1 .. Len(c.inputs)
           /\ Inputs(c) = {c.inputs[i] : i \in DOMAIN c.inputs}
           /\ Touches(c) \subseteq Paths
  <1>1. c \in UNION {Commands[q] : q \in Procs}
    OBVIOUS
  <1>2. /\ c.tool \in {"wasm-cpp", "wasm-cc", "wasm-lld"} /\ c.link \in BOOLEAN
        /\ c.inputs \in Seq(IF c.tool = "wasm-lld" THEN STRING ELSE DOMAIN FileName)
        /\ c.inputs # <<>>
    BY <1>1, CommandsAssumption
  <1>3. c # NoCommand
    BY <1>2 DEF NoCommand
  <1>4. Len(c.inputs) \in Nat \ {0} /\ DOMAIN c.inputs = 1 .. Len(c.inputs)
    BY <1>2
  <1>5. Touches(c) \subseteq Paths
    BY DEF Paths
  <1> QED
    BY <1>1, <1>2, <1>3, <1>4, <1>5 DEF AllCommands, Inputs, ToSet

(* The files of a command are among those it touches. *)
LEMMA Touched ==
    ASSUME NEW c
    PROVE  /\ Kept(c) \subseteq Touches(c) /\ Outputs(c) \subseteq Touches(c)
           /\ Temporaries(c) \subseteq Touches(c)
           /\ c.tool # "wasm-lld" =>
                 \A s \in Inputs(c) : Object(c, s) \in Touches(c) /\ Object(c, s) \in Outputs(c)
           /\ c.tool = "wasm-cpp" => \A s \in Inputs(c) : TmpSource(s) \in Touches(c)
  BY DEF Touches, Kept, Outputs, Temporaries

(* Facts about a process that runs *)
LEMMA RunningFacts ==
    ASSUME Shape, Places, NEW p \in Procs, pc[p] # "idle"
    PROVE  /\ cmd[p] \in Commands[p] /\ cmd[p] # NoCommand
           /\ cmd[p].tool \in {"wasm-cpp", "wasm-cc", "wasm-lld"} /\ cmd[p].link \in BOOLEAN
           /\ at[p] \in 1 .. Len(cmd[p].inputs) /\ Len(cmd[p].inputs) \in Nat
           /\ DOMAIN cmd[p].inputs = 1 .. Len(cmd[p].inputs)
           /\ Inputs(cmd[p]) = {cmd[p].inputs[i] : i \in DOMAIN cmd[p].inputs}
           /\ Input(p) \in Inputs(cmd[p])
           /\ Touches(cmd[p]) \subseteq Paths
           /\ pc[p] \in {"abigen", "codegen", "write", "compile", "compiled", "abi"} =>
                 cmd[p].tool # "wasm-lld"
           /\ pc[p] \in {"abigen", "codegen", "write", "abi"} => cmd[p].tool = "wasm-cpp"
  <1>1. Busy(cmd[p], pc[p], at[p])
    BY DEF Places
  <1>2. cmd[p] \in Commands[p]
    BY DEF Places
  <1>3. /\ cmd[p] # NoCommand
        /\ cmd[p].tool \in {"wasm-cpp", "wasm-cc", "wasm-lld"} /\ cmd[p].link \in BOOLEAN
        /\ Len(cmd[p].inputs) \in Nat \ {0} /\ DOMAIN cmd[p].inputs = 1 .. Len(cmd[p].inputs)
        /\ Inputs(cmd[p]) = {cmd[p].inputs[i] : i \in DOMAIN cmd[p].inputs}
        /\ Touches(cmd[p]) \subseteq Paths
    BY <1>2, CommandFacts
  <1>4. at[p] \in 1 .. Len(cmd[p].inputs) /\ Input(p) \in Inputs(cmd[p])
    BY <1>1, <1>3 DEF Busy, Input
  <1> QED
    BY <1>1, <1>2, <1>3, <1>4 DEF Busy

-----------------------------------------------------------------------------
(* What a step of process p does to the files: it writes its own mark into    *)
(* files its command touches, or removes them.                                *)
Writes(p) ==
    /\ files' = [f \in Paths |-> files'[f]]
    /\ \A f \in Paths : files'[f] # files[f] =>
          /\ f \in Touches(cmd[p])
          /\ files'[f] = Absent \/ files'[f].by = p

(* files' is files with one file of p replaced by a content x of p. *)
LEMMA PutFile ==
    ASSUME Shape, NEW p \in Procs, NEW g \in Touches(cmd[p]), NEW x,
           Touches(cmd[p]) \subseteq Paths,
           x = Absent \/ x.by = p, files' = [files EXCEPT ![g] = x]
    PROVE  /\ Writes(p) /\ files'[g] = x
           /\ \A f \in Paths : f # g => files'[f] = files[f]
  <1>1. /\ files' = [f \in Paths |-> files'[f]] /\ files'[g] = x
        /\ \A f \in Paths : f # g => files'[f] = files[f]
    BY DEF Shape
  <1> QED
    BY <1>1 DEF Writes

(* files' is files without those in G. *)
LEMMA RemoveFiles ==
    ASSUME Shape, NEW p \in Procs, NEW G, G \subseteq Touches(cmd[p]),
           files' = [f \in Paths |-> IF f \in G THEN Absent ELSE files[f]]
    PROVE  /\ Writes(p)
           /\ \A f \in Paths : files'[f] = IF f \in G THEN Absent ELSE files[f]
  <1>1. \A f \in Paths : files'[f] = IF f \in G THEN Absent ELSE files[f]
    OBVIOUS
  <1>2. files' = [f \in Paths |-> files'[f]]
    OBVIOUS
  <1> QED
    BY <1>1, <1>2 DEF Writes

(* A step that changes no file writes none of another process. *)
LEMMA SameFiles ==
    ASSUME Shape, NEW p \in Procs, files' = files
    PROVE  Writes(p)
  BY DEF Shape, Writes

-----------------------------------------------------------------------------
(* A step of process p to part l, with exit status e, on input n, after which *)
(* no process is alone that was not before *)
Moved(p, l, e, n) ==
    /\ cmd' = cmd /\ Writes(p)
    /\ pc' = [pc EXCEPT ![p] = l]
    /\ exit' = [exit EXCEPT ![p] = e]
    /\ at' = [at EXCEPT ![p] = n]
    /\ alone' \in [Procs -> BOOLEAN]
    /\ \A q \in Procs : alone'[q] => alone[q]

(* Such a step keeps the invariant if p is then at a place its command has,   *)
(* its mark is in files where it may be, and p finds what it should.          *)
LEMMA MoveInv ==
    ASSUME IInv, NEW p \in Procs, Running(p),
           NEW l \in Labels \ {"idle"}, NEW e \in {"none", "0", "-1", "killed"}, NEW n,
           Moved(p, l, e, n), e # "none" <=> l = "ended", Busy(cmd[p], l, n),
           \A f \in Paths :
              cmd[p].tool # "wasm-lld" /\ files'[f] # Absent /\ files'[f].by = p =>
                 f \in Left(cmd[p], l, e, n),
           alone'[p] /\ cmd[p].link /\ cmd[p].tool # "wasm-lld" =>
              Building(p, cmd[p], l, e, n, files')
    PROVE  IInv'
  <1>1. /\ cmd' = cmd /\ \A q \in Procs : alone'[q] => alone[q]
        /\ alone' \in [Procs -> BOOLEAN] /\ pc'[p] = l /\ exit'[p] = e /\ at'[p] = n
        /\ pc' \in [Procs -> Labels] /\ exit' \in [Procs -> {"none", "0", "-1", "killed"}]
    BY DEF IInv, Shape, Moved
  <1>2. \A q \in Procs : q # p => pc'[q] = pc[q] /\ exit'[q] = exit[q] /\ at'[q] = at[q]
    BY DEF IInv, Shape, Moved
  <1>3. pc[p] \notin {"idle", "ended"} /\ Writes(p)
    BY DEF Running, Moved
  <1>4. cmd[p] \in Commands[p] /\ Len(cmd[p].inputs) \in Nat
    BY <1>3, RunningFacts DEF IInv
  <1>5. Shape'
    <2>1. n \in Nat
      BY <1>4 DEF Busy
    <2>2. at' \in [Procs -> Nat]
      BY <2>1 DEF IInv, Shape, Moved
    <2>3. files' = [f \in Paths |-> files'[f]]
      BY <1>3 DEF Writes
    <2> QED
      BY <1>1, <2>2, <2>3 DEF IInv, Shape
  <1>6. Places'
    <2> SUFFICES ASSUME NEW q \in Procs
                 PROVE  /\ pc'[q] = "idle" => cmd'[q] = NoCommand /\ ~alone'[q] /\ at'[q] = 1
                        /\ pc'[q] # "idle" => cmd'[q] \in Commands[q] /\ Busy(cmd'[q], pc'[q], at'[q])
                        /\ exit'[q] # "none" <=> pc'[q] = "ended"
      BY DEF Places, Busy
    <2>1. CASE q = p
      BY <1>1, <1>4, <2>1
    <2>2. CASE q # p
      BY <1>1, <1>2, <2>2 DEF IInv, Places
    <2> QED
      BY <2>1, <2>2
  <1>7. Marks'
    <2> SUFFICES ASSUME NEW q \in Procs, NEW f \in Paths,
                        files'[f] # Absent, files'[f].by = q
                 PROVE  /\ pc'[q] # "idle"
                        /\ cmd'[q].tool # "wasm-lld" =>
                              f \in Left(cmd'[q], pc'[q], exit'[q], at'[q])
      BY DEF Marks, Left, Kept, Outputs, TmpSource, Output, AbiFile, AbigenOutput, Object, Inputs
    <2>1. CASE q = p
      BY <1>1, <2>1
    <2>2. CASE q # p
      <3>1. files'[f] = files[f]
        BY <1>3, <2>2 DEF Writes
      <3> QED
        BY <1>1, <1>2, <2>2, <3>1 DEF IInv, Marks
    <2> QED
      BY <2>1, <2>2
  <1>8. Undisturbed'
    <2> SUFFICES ASSUME NEW r \in Procs, NEW q \in Procs,
                        alone'[r], r # q, pc'[r] # "idle", pc'[q] # "idle",
                        Touches(cmd'[q]) \cap Touches(cmd'[r]) # {}
                 PROVE  pc'[q] \in {"idle", "ended"}
      BY DEF Undisturbed, Running, Touches, Outputs, Temporaries, TmpSource, Output, AbiFile,
             AbigenOutput, Object, Inputs
    <2>1. pc[r] # "idle" /\ pc[q] # "idle"
      BY <1>2, <1>3
    <2>2. pc[q] \in {"idle", "ended"}
      BY <1>1, <2>1 DEF IInv, Undisturbed, Running
    <2> QED
      BY <1>2, <1>3, <2>2
  <1>9. Builds'
    <2> SUFFICES ASSUME NEW q \in Procs, alone'[q], pc'[q] # "idle", cmd'[q].link,
                        cmd'[q].tool # "wasm-lld"
                 PROVE  Building(q, cmd'[q], pc'[q], exit'[q], at'[q], files')
      BY DEF Builds, Building, Own, TmpSource, Output, Object, Inputs
    <2>1. CASE q = p
      BY <1>1, <2>1
    <2>2. CASE q # p
      <3>1. /\ pc[q] # "idle"
            /\ Building(q, cmd[q], pc[q], exit[q], at[q], files)
        BY <1>1, <1>2, <2>2 DEF IInv, Builds
      <3>2. Touches(cmd[q]) \cap Touches(cmd[p]) = {}
        BY <1>1, <1>3, <2>2, <3>1 DEF IInv, Undisturbed, Running
      <3>3. Touches(cmd[q]) \subseteq Paths
        BY <3>1, RunningFacts DEF IInv
      <3>4. \A f \in Touches(cmd[q]) : files'[f] = files[f]
        BY <1>3, <3>2, <3>3 DEF Writes
      <3>5. /\ Kept(cmd[q]) \subseteq Touches(cmd[q])
            /\ \A s \in Inputs(cmd[q]) : Object(cmd[q], s) \in Touches(cmd[q])
            /\ cmd[q].tool = "wasm-cpp" => \A s \in Inputs(cmd[q]) : TmpSource(s) \in Touches(cmd[q])
        BY <1>1, Touched
      <3>6. \A i \in DOMAIN cmd[q].inputs : cmd[q].inputs[i] \in Inputs(cmd[q])
        BY DEF Inputs, ToSet
      <3>7. at[q] \in DOMAIN cmd[q].inputs
        BY <3>1, RunningFacts DEF IInv
      <3>8. /\ files'[Output(cmd[q])] = files[Output(cmd[q])]
            /\ \A i \in DOMAIN cmd[q].inputs :
                  files'[Object(cmd[q], cmd[q].inputs[i])] = files[Object(cmd[q], cmd[q].inputs[i])]
            /\ cmd[q].tool = "wasm-cpp" =>
                  \A s \in Inputs(cmd[q]) : files'[TmpSource(s)] = files[TmpSource(s)]
        BY <3>4, <3>5, <3>6 DEF Kept
      <3>9. Building(q, cmd[q], pc[q], exit[q], at[q], files')
        BY <3>1, <3>6, <3>7, <3>8 DEF Building
      <3> QED
        BY <1>1, <1>2, <2>2, <3>9
    <2> QED
      BY <2>1, <2>2
  <1> QED
    BY <1>5, <1>6, <1>7, <1>8, <1>9 DEF IInv

(* A step of process p to part l, with exit status e, on input n *)
Stepped(p, l, e, n) ==
    /\ cmd' = cmd /\ alone' = alone /\ Writes(p)
    /\ pc' = [pc EXCEPT ![p] = l]
    /\ exit' = [exit EXCEPT ![p] = e]
    /\ at' = [at EXCEPT ![p] = n]

(* The same for a step that leaves alone as it is *)
LEMMA StepInv ==
    ASSUME IInv, NEW p \in Procs, Running(p),
           NEW l \in Labels \ {"idle"}, NEW e \in {"none", "0", "-1", "killed"}, NEW n,
           Stepped(p, l, e, n), e # "none" <=> l = "ended", Busy(cmd[p], l, n),
           \A f \in Paths :
              cmd[p].tool # "wasm-lld" /\ files'[f] # Absent /\ files'[f].by = p =>
                 f \in Left(cmd[p], l, e, n),
           alone[p] /\ cmd[p].link /\ cmd[p].tool # "wasm-lld" =>
              Building(p, cmd[p], l, e, n, files')
    PROVE  IInv'
  <1>1. Moved(p, l, e, n)
    BY DEF IInv, Shape, Stepped, Moved
  <1>2. alone'[p] => alone[p]
    BY DEF Stepped
  <1> QED
    BY <1>1, <1>2, MoveInv

-----------------------------------------------------------------------------
(* The steps of a process, part by part *)

(* What the invariant says of a process that runs. *)
LEMMA StillRunning ==
    ASSUME IInv, NEW p \in Procs, Running(p)
    PROVE  /\ pc[p] # "idle" /\ pc[p] # "ended" /\ exit[p] = "none"
           /\ exit = [exit EXCEPT ![p] = "none"] /\ at = [at EXCEPT ![p] = at[p]]
           /\ Busy(cmd[p], pc[p], at[p])
           /\ \A f \in Paths :
                 cmd[p].tool # "wasm-lld" /\ files[f] # Absent /\ files[f].by = p =>
                    f \in Left(cmd[p], pc[p], "none", at[p])
           /\ alone[p] /\ cmd[p].link /\ cmd[p].tool # "wasm-lld" =>
                 Building(p, cmd[p], pc[p], "none", at[p], files)
  <1>1. pc[p] # "idle" /\ pc[p] # "ended"
    BY DEF Running
  <1>2. exit[p] = "none" /\ Busy(cmd[p], pc[p], at[p])
    BY <1>1 DEF IInv, Places
  <1>3. exit = [exit EXCEPT ![p] = "none"] /\ at = [at EXCEPT ![p] = at[p]]
    BY <1>2 DEF IInv, Shape
  <1>4. \A f \in Paths :
           cmd[p].tool # "wasm-lld" /\ files[f] # Absent /\ files[f].by = p =>
              f \in Left(cmd[p], pc[p], "none", at[p])
    BY <1>2 DEF IInv, Marks
  <1>5. alone[p] /\ cmd[p].link /\ cmd[p].tool # "wasm-lld" =>
           Building(p, cmd[p], pc[p], "none", at[p], files)
    BY <1>1, <1>2 DEF IInv, Builds
  <1> QED
    BY <1>1, <1>2, <1>3, <1>4, <1>5

(* A process that ends with -1 or is killed may leave any of its files. *)
LEMMA EndInv ==
    ASSUME IInv, NEW p \in Procs, Running(p), NEW e \in {"-1", "killed"}, Return(p, e),
           cmd' = cmd, at' = at, alone' = alone, Writes(p),
           \A f \in Paths :
              \/ files'[f] = files[f] \/ files'[f] = Absent
              \/ cmd[p].tool = "wasm-cpp" /\ f = TmpSource(Input(p))
    PROVE  IInv'
  <1>1. Stepped(p, "ended", e, at[p])
    BY StillRunning DEF Stepped, Return, Goto
  <1>2. Busy(cmd[p], "ended", at[p])
    BY StillRunning DEF Busy
  <1>3. \A f \in Paths :
           cmd[p].tool # "wasm-lld" /\ files'[f] # Absent /\ files'[f].by = p =>
              f \in Left(cmd[p], "ended", e, at[p])
    BY StillRunning DEF Left, Input
  <1>4. alone[p] /\ cmd[p].link /\ cmd[p].tool # "wasm-lld" =>
           Building(p, cmd[p], "ended", e, at[p], files')
    BY StillRunning DEF Building
  <1> QED
    BY <1>1, <1>2, <1>3, <1>4, StepInv DEF Labels

(* One lemma for each action of the driver                                  *)
LEMMA KillInv ==
    ASSUME IInv, NEW p \in Procs, Kill(p)
    PROVE  IInv'
  BY SameFiles, EndInv DEF Kill, IInv

(* clang-7 leaves an older object in place (utils.hpp:186): the process is    *)
(* not alone any more.                                                        *)
LEMMA KeepObjectInv ==
    ASSUME IInv, NEW p \in Procs, KeepObject(p)
    PROVE  IInv'
  <1>1. pc[p] = "compile" /\ Running(p)
    BY DEF KeepObject, Running
  <1>2. files' = files /\ cmd' = cmd /\ at' = at /\ exit' = exit /\ Writes(p)
    BY SameFiles DEF KeepObject, IInv
  <1>3. alone' = [alone EXCEPT ![p] = FALSE] /\ pc' = [pc EXCEPT ![p] = "compiled"]
    BY DEF KeepObject, Goto
  <1>4. /\ alone' \in [Procs -> BOOLEAN] /\ ~alone'[p]
        /\ \A q \in Procs : alone'[q] => alone[q]
    BY <1>3 DEF IInv, Shape
  <1>5. Moved(p, "compiled", "none", at[p])
    BY <1>1, <1>2, <1>3, <1>4, StillRunning DEF Moved
  <1>6. Busy(cmd[p], "compiled", at[p])
    BY <1>1, StillRunning DEF Busy
  <1>7. \A f \in Paths :
           cmd[p].tool # "wasm-lld" /\ files'[f] # Absent /\ files'[f].by = p =>
              f \in Left(cmd[p], "compiled", "none", at[p])
    BY <1>1, <1>2, StillRunning DEF Left
  <1> QED
    BY <1>1, <1>4, <1>5, <1>6, <1>7, MoveInv DEF Labels

(* The abigen pass (wasm-cpp.cpp.in:130-188). *)
LEMMA GenerateAbiInv ==
    ASSUME IInv, NEW p \in Procs, GenerateAbi(p)
    PROVE  IInv'
  <1>1. pc[p] = "abigen" /\ Running(p)
    BY DEF GenerateAbi, Running
  <1>2. files' = files /\ cmd' = cmd /\ at' = at /\ alone' = alone /\ Writes(p)
    BY SameFiles DEF GenerateAbi, IInv
  <1>3. CASE Return(p, "-1")
    BY <1>1, <1>2, <1>3, EndInv
  <1>4. CASE Goto(p, "codegen") /\ exit' = exit
    <2>1. Stepped(p, "codegen", "none", at[p])
      BY <1>1, <1>2, <1>4, StillRunning DEF Stepped, Goto
    <2>2. Busy(cmd[p], "codegen", at[p])
      BY <1>1, StillRunning DEF Busy
    <2>3. \A f \in Paths :
             cmd[p].tool # "wasm-lld" /\ files'[f] # Absent /\ files'[f].by = p =>
                f \in Left(cmd[p], "codegen", "none", at[p])
      BY <1>1, <1>2, StillRunning DEF Left
    <2>4. alone[p] /\ cmd[p].link /\ cmd[p].tool # "wasm-lld" =>
             Building(p, cmd[p], "codegen", "none", at[p], files')
      BY <1>1, <1>2, StillRunning DEF Building
    <2> QED
      BY <1>1, <2>1, <2>2, <2>3, <2>4, StepInv DEF Labels
  <1> QED
    BY <1>3, <1>4 DEF GenerateAbi

(* The files of a linking driver are told apart by their directories. *)
LEMMA Apart ==
    ASSUME NEW c, c.link, c.tool \in {"wasm-cpp", "wasm-cc"}, NEW s, NEW t
    PROVE  /\ Object(c, s) \notin Kept(c) /\ Object(c, s) # TmpSource(t)
           /\ TmpSource(s) \notin Kept(c)
           /\ TmpSource(s) = TmpSource(t) => FileName[s] = FileName[t]
           /\ Object(c, s) = Object(c, t) => FileName[s] = FileName[t]
  BY DEF Object, TmpSource, Kept, Output, AbiFile, AbigenOutput

(* The files of a running driver *)
LEMMA OwnFiles ==
    ASSUME IInv, NEW p \in Procs, Running(p), cmd[p].tool # "wasm-lld"
    PROVE  /\ Input(p) = cmd[p].inputs[at[p]] /\ Input(p) \in Inputs(cmd[p])
           /\ at[p] \in DOMAIN cmd[p].inputs /\ at[p] \in Nat
           /\ Len(cmd[p].inputs) \in Nat /\ DOMAIN cmd[p].inputs = 1 .. Len(cmd[p].inputs)
           /\ Touches(cmd[p]) \subseteq Paths /\ Kept(cmd[p]) \subseteq Touches(cmd[p])
           /\ Outputs(cmd[p]) \subseteq Touches(cmd[p])
           /\ \A i \in DOMAIN cmd[p].inputs : cmd[p].inputs[i] \in Inputs(cmd[p])
           /\ \A s \in Inputs(cmd[p]) :
                 /\ Object(cmd[p], s) \in Touches(cmd[p]) /\ Object(cmd[p], s) \in Outputs(cmd[p])
                 /\ cmd[p].tool = "wasm-cpp" => TmpSource(s) \in Touches(cmd[p])
           /\ cmd[p].tool \in {"wasm-cpp", "wasm-cc"}
  <1>1. pc[p] # "idle" /\ Shape /\ Places
    BY DEF Running, IInv
  <1>2. /\ at[p] \in 1 .. Len(cmd[p].inputs) /\ Len(cmd[p].inputs) \in Nat
        /\ DOMAIN cmd[p].inputs = 1 .. Len(cmd[p].inputs) /\ Touches(cmd[p]) \subseteq Paths
        /\ cmd[p].tool \in {"wasm-cpp", "wasm-cc", "wasm-lld"} /\ cmd[p].link \in BOOLEAN
        /\ Input(p) \in Inputs(cmd[p])
    BY <1>1, RunningFacts
  <1>3. Input(p) = cmd[p].inputs[at[p]] /\ at[p] \in DOMAIN cmd[p].inputs /\ at[p] \in Nat
    BY <1>2 DEF Input
  <1>4. \A i \in DOMAIN cmd[p].inputs : cmd[p].inputs[i] \in Inputs(cmd[p])
    BY DEF Inputs, ToSet
  <1>5. /\ Kept(cmd[p]) \subseteq Touches(cmd[p]) /\ Outputs(cmd[p]) \subseteq Touches(cmd[p])
        /\ \A s \in Inputs(cmd[p]) :
              /\ Object(cmd[p], s) \in Touches(cmd[p]) /\ Object(cmd[p], s) \in Outputs(cmd[p])
              /\ cmd[p].tool = "wasm-cpp" => TmpSource(s) \in Touches(cmd[p])
    BY Touched
  <1> QED
    BY <1>2, <1>3, <1>4, <1>5

(* The tools that have the parts of the loop over the inputs. *)
LEMMA CompilingFacts ==
    ASSUME IInv, NEW p \in Procs
    PROVE  /\ pc[p] \in {"abigen", "codegen", "write", "compile", "compiled", "abi"} =>
                 cmd[p].tool # "wasm-lld"
           /\ pc[p] \in {"abigen", "codegen", "write", "abi"} => cmd[p].tool = "wasm-cpp"
  BY RunningFacts DEF IInv

(* If process p alone uses its files, a step that changes g only leaves the   *)
(* others as they were. *)
LEMMA OthersStay ==
    ASSUME IInv, NEW p \in Procs, Running(p), cmd[p].tool # "wasm-lld", cmd[p].link, alone[p],
           NEW i \in DOMAIN cmd[p].inputs,
           NEW g \in {TmpSource(cmd[p].inputs[i]), Object(cmd[p], cmd[p].inputs[i])},
           \A f \in Paths : f # g => files'[f] = files[f]
    PROVE  /\ files'[Output(cmd[p])] = files[Output(cmd[p])]
           /\ \A j \in DOMAIN cmd[p].inputs :
                 i # j \/ g = TmpSource(cmd[p].inputs[i]) =>
                    files'[Object(cmd[p], cmd[p].inputs[j])] = files[Object(cmd[p], cmd[p].inputs[j])]
           /\ cmd[p].tool = "wasm-cpp" =>
                 \A j \in DOMAIN cmd[p].inputs :
                    i # j \/ g # TmpSource(cmd[p].inputs[i]) =>
                       files'[TmpSource(cmd[p].inputs[j])] = files[TmpSource(cmd[p].inputs[j])]
  <1> DEFINE c == cmd[p]
  <1>1. /\ Touches(c) \subseteq Paths /\ Output(c) \in Touches(c)
        /\ \A j \in DOMAIN c.inputs :
              /\ Object(c, c.inputs[j]) \in Touches(c)
              /\ c.tool = "wasm-cpp" => TmpSource(c.inputs[j]) \in Touches(c)
        /\ c.link /\ c.tool \in {"wasm-cpp", "wasm-cc"}
    BY OwnFiles DEF Kept
  <1>2. \A j \in DOMAIN c.inputs : i # j => FileName[c.inputs[i]] # FileName[c.inputs[j]]
    BY StillRunning DEF Building
  <1>3. Output(c) # TmpSource(c.inputs[i]) /\ Output(c) # Object(c, c.inputs[i])
    <2>1. Output(c) \in Kept(c)
      BY DEF Kept
    <2>2. TmpSource(c.inputs[i]) \notin Kept(c) /\ Object(c, c.inputs[i]) \notin Kept(c)
      BY <1>1, Apart
    <2> QED
      BY <2>1, <2>2
  <1>4. \A j \in DOMAIN c.inputs : i # j => Object(c, c.inputs[j]) # Object(c, c.inputs[i])
                                            /\ TmpSource(c.inputs[j]) # TmpSource(c.inputs[i])
    <2> TAKE j \in DOMAIN c.inputs
    <2>1. PICK s, t : s = c.inputs[i] /\ t = c.inputs[j]
      OBVIOUS
    <2>2. /\ TmpSource(t) = TmpSource(s) => FileName[t] = FileName[s]
          /\ Object(c, t) = Object(c, s) => FileName[t] = FileName[s]
      BY <1>1, Apart
    <2> QED
      BY <1>2, <2>1, <2>2
  <1>5. \A j \in DOMAIN c.inputs :
           /\ Object(c, c.inputs[j]) # TmpSource(c.inputs[i])
           /\ Object(c, c.inputs[i]) # TmpSource(c.inputs[j])
    <2> SUFFICES ASSUME NEW j \in DOMAIN c.inputs
                 PROVE  /\ Object(c, c.inputs[j]) # TmpSource(c.inputs[i])
                        /\ Object(c, c.inputs[i]) # TmpSource(c.inputs[j])
      OBVIOUS
    <2>1. Object(c, c.inputs[j]) # TmpSource(c.inputs[i])
      BY <1>1, Apart
    <2>2. Object(c, c.inputs[i]) # TmpSource(c.inputs[j])
      BY <1>1, Apart
    <2> QED
      BY <2>1, <2>2
  <1> HIDE DEF c
  <1>6. /\ files'[Output(c)] = files[Output(c)]
        /\ \A j \in DOMAIN c.inputs :
              i # j \/ g = TmpSource(c.inputs[i]) =>
                 files'[Object(c, c.inputs[j])] = files[Object(c, c.inputs[j])]
        /\ c.tool = "wasm-cpp" =>
              \A j \in DOMAIN c.inputs :
                 i # j \/ g # TmpSource(c.inputs[i]) =>
                    files'[TmpSource(c.inputs[j])] = files[TmpSource(c.inputs[j])]
    <2>1. g \in {TmpSource(c.inputs[i]), Object(c, c.inputs[i])}
      BY DEF c
    <2> QED
      BY <1>1, <1>3, <1>4, <1>5, <2>1
  <1> QED
    BY <1>6 DEF c

(* The codegen pass opens the copy (codegen.hpp:386-411). *)
LEMMA OpenCopyInv ==
    ASSUME IInv, NEW p \in Procs, OpenCopy(p)
    PROVE  IInv'
  <1> DEFINE c == cmd[p]
  <1> DEFINE n == at[p]
  <1> DEFINE s == Input(p)
  <1>1. pc[p] = "codegen" /\ Running(p)
    BY DEF OpenCopy, Running
  <1>2. cmd' = cmd /\ at' = at /\ alone' = alone
    BY DEF OpenCopy
  <1>3. /\ c.tool = "wasm-cpp" /\ s \in Inputs(c) /\ s = c.inputs[n] /\ n \in DOMAIN c.inputs
        /\ TmpSource(s) \in Touches(c) /\ Touches(c) \subseteq Paths
    BY <1>1, CompilingFacts, OwnFiles
  <1>4. CASE s \notin Library /\ Goto(p, "write") /\ exit' = exit
             /\ files' = [files EXCEPT ![TmpSource(s)] = Content({s}, <<>>, {}, p, FALSE)]
    <2>1. /\ Writes(p) /\ \A f \in Paths : f # TmpSource(s) => files'[f] = files[f]
      BY <1>3, <1>4, PutFile DEF Content, IInv
    <2>2. Stepped(p, "write", "none", n)
      BY <1>1, <1>2, <1>4, <2>1, StillRunning DEF Stepped, Goto
    <2>3. Busy(c, "write", n)
      BY <1>1, <1>3, <1>4, StillRunning DEF Busy
    <2>4. \A f \in Paths :
             c.tool # "wasm-lld" /\ files'[f] # Absent /\ files'[f].by = p =>
                f \in Left(c, "write", "none", n)
      BY <1>1, <1>3, <2>1, StillRunning DEF Left
    <2>5. alone[p] /\ c.link /\ c.tool # "wasm-lld" => Building(p, c, "write", "none", n, files')
      <3> SUFFICES ASSUME alone[p], c.link
                   PROVE  Building(p, c, "write", "none", n, files')
        OBVIOUS
      <3>1. Building(p, c, "codegen", "none", n, files)
        BY <1>1, <1>3, StillRunning
      <3>3. /\ files'[Output(c)] = files[Output(c)]
            /\ \A i \in DOMAIN c.inputs : files'[Object(c, c.inputs[i])] = files[Object(c, c.inputs[i])]
            /\ \A i \in DOMAIN c.inputs : i # n =>
                  files'[TmpSource(c.inputs[i])] = files[TmpSource(c.inputs[i])]
        BY <1>1, <1>3, <2>1, OthersStay
      <3>4. \A t \in Inputs(c) \cap Library : files'[TmpSource(t)] = files[TmpSource(t)]
        BY <1>3, <1>4, <3>3 DEF Inputs, ToSet
      <3> QED
        BY <3>1, <3>3, <3>4 DEF Building
    <2> QED
      BY <1>1, <2>2, <2>3, <2>4, <2>5, StepInv DEF Labels
  <1>5. CASE s \in Library /\ Goto(p, "compile") /\ exit' = exit /\ files' = files
    <2>1. Stepped(p, "compile", "none", n)
      BY <1>1, <1>2, <1>5, StillRunning, SameFiles DEF Stepped, Goto, IInv
    <2>2. Busy(c, "compile", n)
      BY <1>1, StillRunning DEF Busy
    <2>3. \A f \in Paths :
             c.tool # "wasm-lld" /\ files'[f] # Absent /\ files'[f].by = p =>
                f \in Left(c, "compile", "none", n)
      BY <1>1, <1>5, StillRunning DEF Left
    <2>4. alone[p] /\ c.link /\ c.tool # "wasm-lld" => Building(p, c, "compile", "none", n, files')
      BY <1>1, <1>3, <1>5, StillRunning DEF Building
    <2> QED
      BY <1>1, <2>1, <2>2, <2>3, <2>4, StepInv DEF Labels
  <1>6. CASE Return(p, "-1") /\ files' = files
    BY <1>1, <1>2, <1>6, EndInv, SameFiles DEF IInv
  <1> QED
    BY <1>4, <1>5, <1>6 DEF OpenCopy

(* ... and writes it (codegen.hpp:412-438). *)
LEMMA WriteCopyInv ==
    ASSUME IInv, NEW p \in Procs, WriteCopy(p)
    PROVE  IInv'
  <1> DEFINE c == cmd[p]
  <1> DEFINE n == at[p]
  <1> DEFINE s == Input(p)
  <1>1. pc[p] = "write" /\ Running(p)
    BY DEF WriteCopy, Running
  <1>2. cmd' = cmd /\ at' = at /\ alone' = alone
    BY DEF WriteCopy
  <1>3. /\ c.tool = "wasm-cpp" /\ s \in Inputs(c) /\ s = c.inputs[n] /\ n \in DOMAIN c.inputs
        /\ TmpSource(s) \in Touches(c) /\ Touches(c) \subseteq Paths
    BY <1>1, CompilingFacts, OwnFiles
  <1>31. s \notin Library
    BY <1>1, <1>3, StillRunning DEF Busy
  <1> DEFINE copy == Content({s}, cg[p].abis, Stubs(p, s), p, TRUE)
  <1>4. copy.by = p /\ copy.whole = TRUE /\ copy.sources = {s}
    BY DEF Content
  <1>5. /\ Writes(p) /\ files'[TmpSource(s)] = copy
        /\ \A f \in Paths : f # TmpSource(s) => files'[f] = files[f]
    <2>1. files' = [files EXCEPT ![TmpSource(s)] = copy]
      BY DEF WriteCopy
    <2>2. Shape
      BY DEF IInv
    <2>3. PICK x : x = copy
      OBVIOUS
    <2>4. x.by = p /\ files' = [files EXCEPT ![TmpSource(s)] = x]
      BY <1>4, <2>1, <2>3
    <2>5. /\ Writes(p) /\ files'[TmpSource(s)] = x
          /\ \A f \in Paths : f # TmpSource(s) => files'[f] = files[f]
      BY <1>3, <2>2, <2>4, PutFile
    <2> QED
      BY <2>3, <2>5
  <1> HIDE DEF copy
  <1>6. CASE Goto(p, "compile") /\ exit' = exit
    <2>2. Stepped(p, "compile", "none", n)
      BY <1>1, <1>2, <1>5, <1>6, StillRunning DEF Stepped, Goto
    <2>3. Busy(c, "compile", n)
      BY <1>1, <1>3, StillRunning DEF Busy
    <2>4. \A f \in Paths :
             c.tool # "wasm-lld" /\ files'[f] # Absent /\ files'[f].by = p =>
                f \in Left(c, "compile", "none", n)
      BY <1>1, <1>3, <1>5, StillRunning DEF Left
    <2>5. alone[p] /\ c.link /\ c.tool # "wasm-lld" => Building(p, c, "compile", "none", n, files')
      <3> SUFFICES ASSUME alone[p], c.link
                   PROVE  Building(p, c, "compile", "none", n, files')
        OBVIOUS
      <3>1. Building(p, c, "write", "none", n, files)
        BY <1>1, <1>3, StillRunning
      <3>3. /\ files'[Output(c)] = files[Output(c)]
            /\ \A i \in DOMAIN c.inputs : files'[Object(c, c.inputs[i])] = files[Object(c, c.inputs[i])]
            /\ \A i \in DOMAIN c.inputs : i # n =>
                  files'[TmpSource(c.inputs[i])] = files[TmpSource(c.inputs[i])]
        BY <1>1, <1>3, <1>5, OthersStay
      <3>4. \A t \in Inputs(c) \cap Library : files'[TmpSource(t)] = files[TmpSource(t)]
        BY <1>3, <1>31, <3>3 DEF Inputs, ToSet
      <3> QED
        BY <1>3, <1>4, <1>5, <3>1, <3>3, <3>4 DEF Building
    <2> QED
      BY <1>1, <2>2, <2>3, <2>4, <2>5, StepInv DEF Labels
  <1>7. CASE Return(p, "-1")
    BY <1>1, <1>2, <1>3, <1>5, <1>7, EndInv
  <1> QED
    BY <1>6, <1>7 DEF WriteCopy

(* An object put together from the copy that p made, or from the source *)
LEMMA CompileInv ==
    ASSUME IInv, NEW p \in Procs, Compile(p)
    PROVE  IInv'
  <1> DEFINE c == cmd[p]
  <1> DEFINE n == at[p]
  <1> DEFINE object == Object(c, Input(p))
  <1>1. pc[p] = "compile" /\ Running(p)
    BY DEF Compile, Running
  <1>2. cmd' = cmd /\ at' = at /\ alone' = alone /\ Shape
    BY DEF Compile, IInv
  <1>3. /\ c.tool \in {"wasm-cpp", "wasm-cc"} /\ Input(p) = c.inputs[n] /\ n \in DOMAIN c.inputs
        /\ object \in Touches(c) /\ object \in Outputs(c) /\ Touches(c) \subseteq Paths
        /\ c.tool = "wasm-cpp" => TmpSource(Input(p)) \in Touches(c)
        /\ DOMAIN c.inputs = 1 .. Len(c.inputs)
        /\ \A i \in DOMAIN c.inputs : c.inputs[i] \in Inputs(c)
    BY <1>1, CompilingFacts, OwnFiles
  <1>4. ASSUME NEW x, files' = [files EXCEPT ![object] = x], Goto(p, "compiled"), exit' = exit,
               x = Absent \/ x.by = p,
               alone[p] /\ c.link => Own(x, p, c.inputs[n])
        PROVE  IInv'
    <2>1. /\ Writes(p) /\ files'[object] = x
          /\ \A f \in Paths : f # object => files'[f] = files[f]
      <3>1. PICK g : g = object
        OBVIOUS
      <3>2. files' = [files EXCEPT ![g] = x] /\ g \in Touches(c) /\ Touches(c) \subseteq Paths
        BY <1>3, <1>4, <3>1
      <3>3. Shape /\ (x = Absent \/ x.by = p)
        BY <1>2, <1>4
      <3>4. /\ Writes(p) /\ files'[g] = x
            /\ \A f \in Paths : f # g => files'[f] = files[f]
        BY <3>2, <3>3, PutFile
      <3> QED
        BY <3>1, <3>4
    <2>2. Stepped(p, "compiled", "none", n)
      BY <1>1, <1>2, <1>4, <2>1, StillRunning DEF Stepped, Goto
    <2>3. Busy(c, "compiled", n)
      BY <1>1, <1>3, StillRunning DEF Busy
    <2>4. \A f \in Paths :
             c.tool # "wasm-lld" /\ files'[f] # Absent /\ files'[f].by = p =>
                f \in Left(c, "compiled", "none", n)
      BY <1>1, <1>3, <2>1, StillRunning DEF Left
    <2>5. alone[p] /\ c.link /\ c.tool # "wasm-lld" => Building(p, c, "compiled", "none", n, files')
      <3> SUFFICES ASSUME alone[p], c.link
                   PROVE  Building(p, c, "compiled", "none", n, files')
        OBVIOUS
      <3>1. Building(p, c, "compile", "none", n, files)
        BY <1>1, <1>3, StillRunning
      <3>2. object # TmpSource(c.inputs[n])
        BY <1>3, Apart
      <3>3. /\ files'[Output(c)] = files[Output(c)]
            /\ \A i \in DOMAIN c.inputs : i # n =>
                  files'[Object(c, c.inputs[i])] = files[Object(c, c.inputs[i])]
            /\ c.tool = "wasm-cpp" =>
                  \A i \in DOMAIN c.inputs : files'[TmpSource(c.inputs[i])] = files[TmpSource(c.inputs[i])]
        BY <1>1, <1>3, <2>1, <3>2, OthersStay
      <3>4. c.tool = "wasm-cpp" =>
               \A t \in Inputs(c) \cap Library : files'[TmpSource(t)] = files[TmpSource(t)]
        BY <3>3 DEF Inputs, ToSet
      <3>5. \A i \in DOMAIN c.inputs : i < n \/ i = n => Own(files'[Object(c, c.inputs[i])], p, c.inputs[i])
        BY <1>3, <1>4, <2>1, <3>1, <3>3, SMTT(40) DEF Building
      <3> QED
        BY <3>1, <3>3, <3>4, <3>5 DEF Building
    <2> QED
      BY <1>1, <2>2, <2>3, <2>4, <2>5, StepInv DEF Labels
  <1>5. CASE /\ files' = [files EXCEPT ![object] = Content(Source(p).sources, Source(p).abis,
                                             Source(p).stubs, p, Source(p).whole)]
             /\ Goto(p, "compiled") /\ exit' = exit
    <2>1. PICK x : x = Content(Source(p).sources, Source(p).abis, Source(p).stubs, p, Source(p).whole)
      OBVIOUS
    <2>2. x.by = p /\ x.sources = Source(p).sources /\ x.whole = Source(p).whole
      BY <2>1 DEF Content
    <2>3. alone[p] /\ c.link => Own(x, p, c.inputs[n])
      <3> SUFFICES ASSUME alone[p], c.link
                   PROVE  x.whole /\ x.sources = {c.inputs[n]}
        BY <2>2 DEF Own
      <3>1. Building(p, c, "compile", "none", n, files)
        BY <1>1, <1>3, StillRunning
      <3>2. CASE c.tool = "wasm-cpp" /\ files[TmpSource(Input(p))] # Absent
        <4>1. PICK copy : copy = files[TmpSource(c.inputs[n])]
          OBVIOUS
        <4>2. copy = Absent \/ (copy.whole /\ copy.sources = {c.inputs[n]})
          BY <3>1, <3>2, <4>1 DEF Building
        <4>3. Source(p) = copy /\ copy # Absent
          BY <1>3, <3>2, <4>1 DEF Source
        <4> QED
          BY <2>2, <4>2, <4>3
      <3>3. CASE ~(c.tool = "wasm-cpp" /\ files[TmpSource(Input(p))] # Absent)
        <4>1. Source(p) = Content({c.inputs[n]}, <<>>, {}, p, TRUE)
          BY <1>3, <3>3 DEF Source
        <4> QED
          BY <2>2, <4>1 DEF Content
      <3> QED
        BY <3>2, <3>3
    <2> QED
      BY <1>4, <1>5, <2>1, <2>2, <2>3
  <1>6. CASE files' = [files EXCEPT ![object] = Absent] /\ Goto(p, "compiled") /\ exit' = exit
    BY <1>4, <1>6 DEF Own
  <1>7. CASE /\ files' = [f \in Paths |->
                             IF f \in {TmpSource(Input(p))} /\ c.tool = "wasm-cpp"
                             THEN Absent ELSE files[f]]
             /\ Return(p, "-1")
    <2> DEFINE G == IF c.tool = "wasm-cpp" THEN {TmpSource(Input(p))} ELSE {}
    <2>1. files' = [f \in Paths |-> IF f \in G THEN Absent ELSE files[f]]
      BY <1>7
    <2>2. G \subseteq Touches(c)
      BY <1>3
    <2> HIDE DEF G
    <2>3. Writes(p) /\ \A f \in Paths : files'[f] = IF f \in G THEN Absent ELSE files[f]
      BY <1>2, <2>1, <2>2, RemoveFiles
    <2> QED
      BY <1>1, <1>2, <1>7, <2>3, EndInv
  <1> QED
    BY <1>5, <1>6, <1>7 DEF Compile

(* What follows the last part of an input *)
LEMMA NextInputCases ==
    ASSUME IInv, NEW p \in Procs, pc[p] = "compiled", NextInput(p)
    PROVE  \/ /\ at[p] < Len(cmd[p].inputs) /\ at' = [at EXCEPT ![p] = at[p] + 1] /\ exit' = exit
              /\ \/ cmd[p].tool = "wasm-cpp" /\ Goto(p, "abigen")
                 \/ cmd[p].tool # "wasm-cpp" /\ Goto(p, "compile")
           \/ /\ ~(at[p] < Len(cmd[p].inputs)) /\ at' = at /\ exit' = exit
              /\ \/ cmd[p].tool = "wasm-cpp" /\ Goto(p, "abi")
                 \/ Goto(p, "link")
           \/ at' = at /\ ~cmd[p].link /\ Return(p, "0")
  <1>1. cmd[p] \in AllCommands
    BY CommandFacts DEF IInv, Places
  <1>2. cmd[p].abigen \in BOOLEAN
    BY <1>1, CommandsAssumption DEF AllCommands
  <1>3. CASE at[p] < Len(cmd[p].inputs)
    BY <1>3 DEF NextInput
  <1>4. CASE ~(at[p] < Len(cmd[p].inputs))
    <2>1. at' = at
      BY <1>4 DEF NextInput
    <2>2. CASE cmd[p].abigen /\ cmd[p].tool = "wasm-cpp"
      <3>1. Goto(p, "abi") /\ exit' = exit
        BY <1>4, <2>2 DEF NextInput
      <3> QED
        BY <1>4, <2>1, <2>2, <3>1
    <2>3. CASE ~(cmd[p].abigen /\ cmd[p].tool = "wasm-cpp") /\ cmd[p].link
      <3>1. Goto(p, "link") /\ exit' = exit
        BY <1>4, <2>3 DEF NextInput
      <3> QED
        BY <1>4, <2>1, <3>1
    <2>4. CASE ~(cmd[p].abigen /\ cmd[p].tool = "wasm-cpp") /\ ~cmd[p].link
      <3>1. Return(p, "0")
        BY <1>4, <2>4 DEF NextInput
      <3> QED
        BY <2>1, <2>4, <3>1
    <2> QED
      BY <2>2, <2>3, <2>4
  <1> QED
    BY <1>3, <1>4

(* A driver that does not link has no file but the ones it keeps. *)
LEMMA NoObjects ==
    ASSUME NEW c, c.tool # "wasm-lld", ~c.link
    PROVE  Outputs(c) \subseteq Kept(c)
  BY DEF Outputs, Object, Kept

(* The copy is removed (wasm-cpp.cpp.in:246-251). *)
LEMMA RemoveCopyInv ==
    ASSUME IInv, NEW p \in Procs, RemoveCopy(p)
    PROVE  IInv'
  <1> DEFINE c == cmd[p]
  <1> DEFINE n == at[p]
  <1> DEFINE G == IF c.tool = "wasm-cpp" THEN {TmpSource(Input(p))} ELSE {}
  <1>1. pc[p] = "compiled" /\ Running(p)
    BY DEF RemoveCopy, Running
  <1>2. cmd' = cmd /\ alone' = alone /\ Shape /\ NextInput(p)
    BY DEF RemoveCopy, IInv
  <1>3. /\ c.tool \in {"wasm-cpp", "wasm-cc"} /\ Input(p) = c.inputs[n]
        /\ n \in DOMAIN c.inputs /\ n \in Nat /\ Len(c.inputs) \in Nat
        /\ Touches(c) \subseteq Paths /\ Kept(c) \subseteq Touches(c) /\ Outputs(c) \subseteq Touches(c)
        /\ c.tool = "wasm-cpp" => TmpSource(Input(p)) \in Touches(c)
        /\ DOMAIN c.inputs = 1 .. Len(c.inputs)
    BY <1>1, CompilingFacts, OwnFiles
  <1>4. \A s \in Inputs(c) : /\ Object(c, s) \in Touches(c)
                             /\ c.tool = "wasm-cpp" => TmpSource(s) \in Touches(c)
    BY <1>1, <1>3, OwnFiles
  <1>5. Writes(p) /\ \A f \in Paths : files'[f] = IF f \in G THEN Absent ELSE files[f]
    <2>1. files' = [f \in Paths |-> IF f \in G THEN Absent ELSE files[f]]
      BY DEF RemoveCopy
    <2>2. G \subseteq Touches(c)
      BY <1>3
    <2> HIDE DEF G
    <2> QED
      BY <1>2, <2>1, <2>2, RemoveFiles
  <1>6. \A f \in Paths : c.tool # "wasm-lld" /\ files'[f] # Absent /\ files'[f].by = p =>
                            f \in Kept(c) \union Outputs(c)
    BY <1>1, <1>3, <1>5, StillRunning DEF Left
  <1>7. ASSUME alone[p], c.link
        PROVE  /\ \A i, j \in DOMAIN c.inputs :
                     i # j => FileName[c.inputs[i]] # FileName[c.inputs[j]]
               /\ files'[Output(c)] = Absent
               /\ c.tool = "wasm-cpp" =>
                     \A s \in Inputs(c) \cap Library : files'[TmpSource(s)] = Absent
               /\ \A i \in DOMAIN c.inputs : i < n + 1 =>
                     Own(files'[Object(c, c.inputs[i])], p, c.inputs[i])
    <2>1. Building(p, c, "compiled", "none", n, files)
      BY <1>1, <1>3, <1>7, StillRunning
    <2>2. Output(c) \in Paths
      BY <1>3 DEF Kept
    <2>3. \A i \in DOMAIN c.inputs : Object(c, c.inputs[i]) \in Paths
      BY <1>3, <1>4 DEF Inputs, ToSet
    <2>4. \A s \in Inputs(c) : c.tool = "wasm-cpp" => TmpSource(s) \in Paths
      BY <1>3, <1>4
    <2>5. files'[Output(c)] = Absent
      BY <1>5, <2>1, <2>2 DEF Building
    <2>6. c.tool = "wasm-cpp" => \A s \in Inputs(c) \cap Library : files'[TmpSource(s)] = Absent
      BY <1>5, <2>1, <2>4 DEF Building
    <2>7. \A i \in DOMAIN c.inputs : i < n + 1 => Own(files[Object(c, c.inputs[i])], p, c.inputs[i])
      <3>1. \A i \in DOMAIN c.inputs : i < n + 1 => i < n \/ i = n
        BY <1>3
      <3> QED
        BY <2>1, <3>1 DEF Building
    <2>8. \A i \in DOMAIN c.inputs : i < n + 1 => Own(files'[Object(c, c.inputs[i])], p, c.inputs[i])
      BY <1>5, <2>3, <2>7 DEF Own
    <2> QED
      BY <2>1, <2>5, <2>6, <2>8 DEF Building
  <1> HIDE DEF G
  <1>8. ASSUME NEW l \in {"abigen", "compile"}, Goto(p, l), exit' = exit,
               n < Len(c.inputs), at' = [at EXCEPT ![p] = n + 1],
               l = "abigen" <=> c.tool = "wasm-cpp"
        PROVE  IInv'
    <2>1. Stepped(p, l, "none", n + 1)
      BY <1>1, <1>2, <1>5, <1>8, StillRunning DEF Stepped, Goto
    <2>2. Busy(c, l, n + 1)
      <3>1. n + 1 \in 1 .. Len(c.inputs)
        BY <1>3, <1>8
      <3> QED
        BY <1>3, <1>8, <3>1 DEF Busy
    <2>3. \A f \in Paths :
             c.tool # "wasm-lld" /\ files'[f] # Absent /\ files'[f].by = p =>
                f \in Left(c, l, "none", n + 1)
      BY <1>6 DEF Left
    <2>4. alone[p] /\ c.link /\ c.tool # "wasm-lld" => Building(p, c, l, "none", n + 1, files')
      BY <1>7, <1>8 DEF Building
    <2>5. l \in Labels \ {"idle"} /\ l # "ended"
      BY <1>8 DEF Labels
    <2>6. PICK k : k = n + 1
      OBVIOUS
    <2> QED
      BY <1>1, <2>1, <2>2, <2>3, <2>4, <2>5, <2>6, StepInv
  <1>9. ASSUME NEW l \in {"abi", "link"}, Goto(p, l), exit' = exit, at' = at,
               ~(n < Len(c.inputs)), l = "abi" => c.tool = "wasm-cpp"
        PROVE  IInv'
    <2>1. Stepped(p, l, "none", n)
      BY <1>1, <1>2, <1>5, <1>9, StillRunning DEF Stepped, Goto
    <2>2. Busy(c, l, n)
      BY <1>3, <1>9 DEF Busy
    <2>3. \A f \in Paths :
             c.tool # "wasm-lld" /\ files'[f] # Absent /\ files'[f].by = p =>
                f \in Left(c, l, "none", n)
      BY <1>6 DEF Left
    <2>4. \A i \in DOMAIN c.inputs : i < n + 1
      BY <1>3, <1>9
    <2>5. alone[p] /\ c.link /\ c.tool # "wasm-lld" => Building(p, c, l, "none", n, files')
      BY <1>7, <1>9, <2>4 DEF Building
    <2> QED
      BY <1>1, <1>9, <2>1, <2>2, <2>3, <2>5, StepInv DEF Labels
  <1>10. CASE at' = at /\ ~c.link /\ Return(p, "0")
    <2>1. Stepped(p, "ended", "0", n)
      BY <1>1, <1>2, <1>5, <1>10, StillRunning DEF Stepped, Return, Goto
    <2>2. Busy(c, "ended", n)
      BY <1>3 DEF Busy
    <2>3. \A f \in Paths :
             c.tool # "wasm-lld" /\ files'[f] # Absent /\ files'[f].by = p =>
                f \in Left(c, "ended", "0", n)
      BY <1>6, <1>10, NoObjects DEF Left
    <2> QED
      BY <1>1, <1>10, <2>1, <2>2, <2>3, StepInv DEF Labels
  <1>11. \/ n < Len(c.inputs) /\ at' = [at EXCEPT ![p] = n + 1] /\ exit' = exit
            /\ \/ c.tool = "wasm-cpp" /\ Goto(p, "abigen")
               \/ c.tool # "wasm-cpp" /\ Goto(p, "compile")
         \/ ~(n < Len(c.inputs)) /\ at' = at /\ exit' = exit
            /\ \/ c.tool = "wasm-cpp" /\ Goto(p, "abi")
               \/ Goto(p, "link")
         \/ at' = at /\ ~c.link /\ Return(p, "0")
    BY <1>1, <1>2, NextInputCases
  <1>12. CASE /\ n < Len(c.inputs) /\ at' = [at EXCEPT ![p] = n + 1] /\ exit' = exit
              /\ c.tool = "wasm-cpp" /\ Goto(p, "abigen")
    BY <1>8, <1>12
  <1>13. CASE /\ n < Len(c.inputs) /\ at' = [at EXCEPT ![p] = n + 1] /\ exit' = exit
              /\ c.tool # "wasm-cpp" /\ Goto(p, "compile")
    BY <1>8, <1>13
  <1>14. CASE /\ ~(n < Len(c.inputs)) /\ at' = at /\ exit' = exit
              /\ c.tool = "wasm-cpp" /\ Goto(p, "abi")
    BY <1>9, <1>14
  <1>15. CASE ~(n < Len(c.inputs)) /\ at' = at /\ exit' = exit /\ Goto(p, "link")
    BY <1>9, <1>15
  <1> QED
    BY <1>10, <1>11, <1>12, <1>13, <1>14, <1>15

(* --abigen writes its file (wasm-cpp.cpp.in:257-266). *)
LEMMA WriteAbigenOutputInv ==
    ASSUME IInv, NEW p \in Procs, WriteAbigenOutput(p)
    PROVE  IInv'
  <1> DEFINE c == cmd[p]
  <1> DEFINE n == at[p]
  <1>1. pc[p] = "abi" /\ Running(p)
    BY DEF WriteAbigenOutput, Running
  <1>2. cmd' = cmd /\ at' = at /\ alone' = alone /\ Shape
    BY DEF WriteAbigenOutput, IInv
  <1>3. /\ c.tool = "wasm-cpp" /\ n \in DOMAIN c.inputs
        /\ Touches(c) \subseteq Paths /\ Kept(c) \subseteq Touches(c)
        /\ DOMAIN c.inputs = 1 .. Len(c.inputs)
    BY <1>1, CompilingFacts, OwnFiles
  <1>4. \A s \in Inputs(c) : Object(c, s) \in Touches(c) /\ TmpSource(s) \in Touches(c)
    BY <1>1, <1>3, OwnFiles
  <1>5. Writes(p) /\ \A f \in Paths : f # AbigenOutput(c) => files'[f] = files[f]
    <2>1. PICK x : x = Content(Inputs(c), <<to_json(ag[p])>>, {}, p, TRUE)
      OBVIOUS
    <2>2. PICK g : g = AbigenOutput(c)
      OBVIOUS
    <2>3. x.by = p
      BY <2>1 DEF Content
    <2>4. files' = [files EXCEPT ![g] = x]
      BY <2>1, <2>2 DEF WriteAbigenOutput
    <2>5. g \in Touches(c)
      BY <1>3, <2>2 DEF Kept
    <2>6. Writes(p) /\ \A f \in Paths : f # g => files'[f] = files[f]
      BY <1>2, <1>3, <2>3, <2>4, <2>5, PutFile
    <2> QED
      BY <2>2, <2>6
  <1>6. \A f \in Paths : files'[f] # Absent /\ files'[f].by = p => f \in Kept(c) \union Outputs(c)
    BY <1>1, <1>3, <1>5, StillRunning DEF Left, Kept
  <1>7. CASE c.link /\ Goto(p, "link") /\ exit' = exit
    <2>1. Stepped(p, "link", "none", n)
      BY <1>1, <1>2, <1>5, <1>7, StillRunning DEF Stepped, Goto
    <2>2. Busy(c, "link", n)
      BY <1>1, <1>3, StillRunning DEF Busy
    <2>3. \A f \in Paths :
             c.tool # "wasm-lld" /\ files'[f] # Absent /\ files'[f].by = p =>
                f \in Left(c, "link", "none", n)
      BY <1>6 DEF Left
    <2>4. alone[p] /\ c.link /\ c.tool # "wasm-lld" => Building(p, c, "link", "none", n, files')
      <3> SUFFICES ASSUME alone[p]
                   PROVE  Building(p, c, "link", "none", n, files')
        OBVIOUS
      <3>1. Building(p, c, "abi", "none", n, files)
        BY <1>1, <1>3, <1>7, StillRunning
      <3>2. \A s \in Inputs(c) : Object(c, s) # AbigenOutput(c) /\ TmpSource(s) # AbigenOutput(c)
        BY <1>3, <1>7, Apart DEF Kept
      <3>3. \A s \in Inputs(c) : files'[Object(c, s)] = files[Object(c, s)]
                                 /\ files'[TmpSource(s)] = files[TmpSource(s)]
        BY <1>3, <1>4, <1>5, <3>2
      <3>4. files'[Output(c)] = files[Output(c)]
        BY <1>3, <1>5 DEF Kept, Output, AbigenOutput
      <3>5. \A i \in DOMAIN c.inputs : files'[Object(c, c.inputs[i])] = files[Object(c, c.inputs[i])]
        BY <3>3 DEF Inputs, ToSet
      <3> QED
        BY <3>1, <3>3, <3>4, <3>5 DEF Building
    <2> QED
      BY <1>1, <2>1, <2>2, <2>3, <2>4, StepInv DEF Labels
  <1>8. CASE ~c.link /\ Return(p, "0")
    <2>1. Stepped(p, "ended", "0", n)
      BY <1>1, <1>2, <1>5, <1>8, StillRunning DEF Stepped, Return, Goto
    <2>2. Busy(c, "ended", n)
      BY <1>3 DEF Busy
    <2>3. \A f \in Paths :
             c.tool # "wasm-lld" /\ files'[f] # Absent /\ files'[f].by = p =>
                f \in Left(c, "ended", "0", n)
      BY <1>3, <1>6, <1>8, NoObjects DEF Left
    <2> QED
      BY <1>1, <1>8, <2>1, <2>2, <2>3, StepInv DEF Labels
  <1> QED
    BY <1>7, <1>8 DEF WriteAbigenOutput

(* The objects are removed and the output is looked for (wasm-               *)
(* cpp.cpp.in:274-285).                                                      *)
LEMMA FinishInv ==
    ASSUME IInv, NEW p \in Procs, Finish(p)
    PROVE  IInv'
  <1> DEFINE c == cmd[p]
  <1> DEFINE n == at[p]
  <1> DEFINE G == IF c.tool = "wasm-lld" THEN {} ELSE Outputs(c)
  <1>1. pc[p] = "linked" /\ Running(p)
    BY DEF Finish, Running
  <1>2. cmd' = cmd /\ at' = at /\ alone' = alone /\ Shape /\ Places
    BY DEF Finish, IInv
  <1>3. Touches(c) \subseteq Paths
    BY <1>1, <1>2, RunningFacts
  <1>4. Writes(p) /\ \A f \in Paths : files'[f] = IF f \in G THEN Absent ELSE files[f]
    <2>1. files' = [f \in Paths |-> IF f \in G THEN Absent ELSE files[f]]
      <3>1. CASE c.tool = "wasm-lld"
        BY <1>2, <3>1 DEF Finish, Shape
      <3>2. CASE c.tool # "wasm-lld"
        BY <3>2 DEF Finish
      <3> QED
        BY <3>1, <3>2
    <2>2. G \subseteq Touches(c)
      BY Touched
    <2> HIDE DEF G
    <2> QED
      BY <1>2, <2>1, <2>2, RemoveFiles
  <1>5. CASE Return(p, "-1")
    BY <1>1, <1>2, <1>4, <1>5, EndInv
  <1>6. CASE Return(p, "0") /\ files'[Output(c)] # Absent
    <2>1. Stepped(p, "ended", "0", n)
      BY <1>1, <1>2, <1>4, <1>6, StillRunning DEF Stepped, Return, Goto
    <2>2. Busy(c, "ended", n)
      BY <1>1, StillRunning DEF Busy
    <2>3. \A f \in Paths :
             c.tool # "wasm-lld" /\ files'[f] # Absent /\ files'[f].by = p =>
                f \in Left(c, "ended", "0", n)
      BY <1>1, <1>4, StillRunning DEF Left
    <2>4. alone[p] /\ c.link /\ c.tool # "wasm-lld" => Building(p, c, "ended", "0", n, files')
      <3> SUFFICES ASSUME alone[p], c.link, c.tool # "wasm-lld"
                   PROVE  Building(p, c, "ended", "0", n, files')
        OBVIOUS
      <3>1. Building(p, c, "linked", "none", n, files)
        BY <1>1, StillRunning
      <3>2. Output(c) \in Paths
        BY <1>3, Touched DEF Kept
      <3>3. files'[Output(c)] = files[Output(c)]
        BY <1>4, <1>6, <3>2
      <3> QED
        BY <1>6, <3>1, <3>3 DEF Building
    <2> QED
      BY <1>1, <2>1, <2>2, <2>3, <2>4, StepInv DEF Labels
  <1> QED
    BY <1>5, <1>6 DEF Finish

(* The contents the linker puts together, if it has all the objects *)
LEMMA LinkedContent ==
    ASSUME IInv, NEW p \in Procs, pc[p] = "link", Absent \notin ToSet(Objects(p)),
           files' = Linked(p, Objects(p))
    PROVE  /\ Writes(p)
           /\ \A f \in Paths : f \notin Kept(cmd[p]) => files'[f] = files[f]
           /\ files'[Output(cmd[p])].by = p
           /\ files'[Output(cmd[p])].sources = UNION {o.sources : o \in ToSet(Objects(p))}
           /\ files'[Output(cmd[p])].whole = (\A o \in ToSet(Objects(p)) : o.whole)
  <1> DEFINE all == ToSet(Objects(p))
  <1> DEFINE abis == FlattenSeq([i \in DOMAIN Objects(p) |-> Objects(p)[i].abis])
  <1> DEFINE a == Output(cmd[p])
  <1> DEFINE b == AbiFile(cmd[p])
  <1>1. PICK x : x = Content(UNION {o.sources : o \in all}, abis,
                             UNION {o.stubs : o \in all}, p, \A o \in all : o.whole)
    OBVIOUS
  <1>2. /\ x.by = p /\ x.sources = UNION {o.sources : o \in all}
        /\ x.whole = (\A o \in all : o.whole)
    BY <1>1 DEF Content
  <1>3. \/ files' = [files EXCEPT ![a] = x, ![b] = x]
        \/ files' = [files EXCEPT ![a] = x]
    BY <1>1 DEF Linked
  <1>4. a # b
    BY DEF Output, AbiFile
  <1>5. a \in Touches(cmd[p]) /\ b \in Touches(cmd[p]) /\ Touches(cmd[p]) \subseteq Paths
    BY RunningFacts, Touched DEF IInv, Kept
  <1>6. files = [f \in Paths |-> files[f]]
    BY DEF IInv, Shape
  <1>7. Kept(cmd[p]) = {a, b, AbigenOutput(cmd[p])}
    BY DEF Kept
  <1> HIDE DEF all, abis, a, b
  <1>8. /\ files' = [f \in Paths |-> files'[f]] /\ files'[a] = x
        /\ \A f \in Paths : f \notin {a, b} => files'[f] = files[f]
        /\ files'[b] = x \/ files'[b] = files[b]
    BY <1>3, <1>4, <1>5, <1>6
  <1>9. Writes(p)
    BY <1>2, <1>5, <1>8 DEF Writes
  <1> QED
    BY <1>2, <1>7, <1>8, <1>9 DEF a, all

(* The objects a driver gives to the linker are those of its inputs. *)
LEMMA ObjectsAre ==
    ASSUME NEW p \in Procs, cmd[p].tool # "wasm-lld", Len(cmd[p].inputs) \in Nat,
           DOMAIN cmd[p].inputs = 1 .. Len(cmd[p].inputs)
    PROVE  ToSet(Objects(p)) =
              {files[Object(cmd[p], cmd[p].inputs[i])] : i \in DOMAIN cmd[p].inputs}
  <1> DEFINE N == Len(cmd[p].inputs)
  <1> DEFINE forward == [i \in DOMAIN cmd[p].inputs |-> files[Object(cmd[p], cmd[p].inputs[i])]]
  <1>1. DOMAIN forward = 1 .. N /\ N \in Nat
    OBVIOUS
  <1>2. Objects(p) = Reverse(forward)
    BY DEF Objects
  <1>3. \A i \in 1 .. N : forward[i] = files[Object(cmd[p], cmd[p].inputs[i])]
    OBVIOUS
  <1>4. Len(forward) = N
    BY <1>1
  <1> HIDE DEF forward, N
  <1>5. Reverse(forward) = [i \in 1 .. N |-> forward[(N - i) + 1]]
    BY <1>4 DEF Reverse
  <1>6. ToSet(Reverse(forward)) = {forward[(N - i) + 1] : i \in 1 .. N}
    BY <1>5 DEF ToSet
  <1>7. {forward[(N - i) + 1] : i \in 1 .. N} = {forward[i] : i \in 1 .. N}
    <2>1. ASSUME NEW i \in 1 .. N
          PROVE  (N - i) + 1 \in 1 .. N /\ (N - ((N - i) + 1)) + 1 = i
      BY <1>1
    <2> QED
      BY <2>1
  <1>8. {forward[i] : i \in 1 .. N} = {files[Object(cmd[p], cmd[p].inputs[i])] : i \in 1 .. N}
    BY <1>3
  <1>9. ToSet(Objects(p)) = {files[Object(cmd[p], cmd[p].inputs[i])] : i \in 1 .. N}
    BY <1>2, <1>6, <1>7, <1>8
  <1> QED
    BY <1>9 DEF N

(* The linker writes the output if it has all objects (wasm-                 *)
(* lld.cpp.in:16-53).                                                        *)
LEMMA LinkInv ==
    ASSUME IInv, NEW p \in Procs, Link(p)
    PROVE  IInv'
  <1> DEFINE c == cmd[p]
  <1> DEFINE n == at[p]
  <1>1. pc[p] = "link" /\ Running(p)
    BY DEF Link, Running
  <1>2. /\ cmd' = cmd /\ at' = at /\ alone' = alone /\ exit' = exit /\ Goto(p, "linked")
        /\ Shape /\ Places
    BY DEF Link, IInv
  <1>3. Writes(p) /\ \A f \in Paths : f \notin Kept(c) => files'[f] = files[f]
    <2>1. CASE files' = files
      BY <1>2, <2>1, SameFiles
    <2>2. CASE Absent \notin ToSet(Objects(p)) /\ files' = Linked(p, Objects(p))
      BY <1>1, <2>2, LinkedContent
    <2> QED
      BY <2>1, <2>2 DEF Link
  <1>4. Stepped(p, "linked", "none", n)
    BY <1>1, <1>2, <1>3, StillRunning DEF Stepped, Goto
  <1>5. Busy(c, "linked", n)
    BY <1>1, StillRunning DEF Busy
  <1>6. \A f \in Paths :
           c.tool # "wasm-lld" /\ files'[f] # Absent /\ files'[f].by = p =>
              f \in Left(c, "linked", "none", n)
    BY <1>1, <1>3, StillRunning DEF Left
  <1>7. ASSUME alone[p], c.link, c.tool # "wasm-lld"
        PROVE  Building(p, c, "linked", "none", n, files')
    <2>1. Building(p, c, "link", "none", n, files)
      BY <1>1, <1>7, StillRunning
    <2>2. /\ \A i \in DOMAIN c.inputs : Own(files[Object(c, c.inputs[i])], p, c.inputs[i])
          /\ files[Output(c)] = Absent
          /\ \A i, j \in DOMAIN c.inputs :
                i # j => FileName[c.inputs[i]] # FileName[c.inputs[j]]
      BY <2>1 DEF Building
    <2>3. files'[Output(c)] = Absent
          \/ /\ files'[Output(c)].by = p /\ files'[Output(c)].whole
             /\ files'[Output(c)].sources = Inputs(c)
      <3>1. CASE files' = files
        BY <2>2, <3>1
      <3>2. CASE Absent \notin ToSet(Objects(p)) /\ files' = Linked(p, Objects(p))
        <4> DEFINE all == ToSet(Objects(p))
        <4>1. /\ files'[Output(c)].by = p
              /\ files'[Output(c)].sources = UNION {o.sources : o \in all}
              /\ files'[Output(c)].whole = (\A o \in all : o.whole)
          BY <1>1, <3>2, LinkedContent
        <4>2. all = {files[Object(c, c.inputs[i])] : i \in DOMAIN c.inputs}
          <5>1. Len(c.inputs) \in Nat /\ DOMAIN c.inputs = 1 .. Len(c.inputs)
            BY <1>1, <1>7, OwnFiles
          <5> QED
            BY <1>7, <5>1, ObjectsAre
        <4> HIDE DEF all
        <4>3. \A i \in DOMAIN c.inputs :
                 /\ files[Object(c, c.inputs[i])].whole
                 /\ files[Object(c, c.inputs[i])].sources = {c.inputs[i]}
          BY <2>2, <3>2, <4>2 DEF all, Own
        <4>4. \A o \in all : o.whole
          BY <4>2, <4>3
        <4>5. UNION {o.sources : o \in all} = {c.inputs[i] : i \in DOMAIN c.inputs}
          <5>1. ASSUME NEW i \in DOMAIN c.inputs
                PROVE  c.inputs[i] \in UNION {o.sources : o \in all}
            <6>1. files[Object(c, c.inputs[i])] \in all
              BY <4>2
            <6>2. c.inputs[i] \in files[Object(c, c.inputs[i])].sources
              BY <4>3
            <6> QED
              BY <6>1, <6>2
          <5>2. ASSUME NEW o \in all, NEW s \in o.sources
                PROVE  s \in {c.inputs[i] : i \in DOMAIN c.inputs}
            <6>1. PICK i \in DOMAIN c.inputs : o = files[Object(c, c.inputs[i])]
              BY <4>2
            <6> QED
              BY <4>3, <6>1
          <5> QED
            BY <5>1, <5>2
        <4>6. Inputs(c) = {c.inputs[i] : i \in DOMAIN c.inputs}
          BY DEF Inputs, ToSet
        <4> QED
          BY <4>1, <4>4, <4>5, <4>6
      <3> QED
        BY <3>1, <3>2 DEF Link
    <2> QED
      BY <2>2, <2>3 DEF Building
  <1> QED
    BY <1>1, <1>4, <1>5, <1>6, <1>7, StepInv DEF Labels

-----------------------------------------------------------------------------
(* Starting *)

(* A driver starts: it is alone if nothing is in its way. *)
LEMMA StartInv ==
    ASSUME IInv, NEW p \in Procs, NEW c \in Commands[p], Start(p, c)
    PROVE  IInv'
  <1>1. /\ pc[p] = "idle" /\ cmd[p] = NoCommand /\ at[p] = 1 /\ exit[p] = "none"
        /\ files' = files /\ at' = at /\ exit' = exit
    BY DEF Start, IInv, Places
  <1>2. /\ c \in AllCommands /\ c # NoCommand
        /\ c.tool \in {"wasm-cpp", "wasm-cc", "wasm-lld"}
        /\ Len(c.inputs) \in Nat \ {0} /\ DOMAIN c.inputs = 1 .. Len(c.inputs)
        /\ Touches(c) \subseteq Paths
    BY CommandFacts
  <1>3. /\ cmd'[p] = c /\ cmd' \in [Procs -> AllCommands \union {NoCommand}]
        /\ \A q \in Procs : q # p => cmd'[q] = cmd[q]
    BY <1>2 DEF Start, IInv, Shape
  <1>4. /\ pc'[p] \in {"abigen", "compile", "link"} /\ pc' \in [Procs -> Labels]
        /\ c.tool = "wasm-lld" => pc'[p] = "link"
        /\ c.tool = "wasm-cc" => pc'[p] = "compile"
        /\ c.tool = "wasm-cpp" => pc'[p] = "abigen"
        /\ \A q \in Procs : q # p => pc'[q] = pc[q]
    <2>1. PICK l : l = CASE c.tool = "wasm-cpp" -> "abigen"
                         [] c.tool = "wasm-cc" -> "compile"
                         [] c.tool = "wasm-lld" -> "link"
      OBVIOUS
    <2>2. /\ c.tool = "wasm-lld" => l = "link"
          /\ c.tool = "wasm-cc" => l = "compile"
          /\ c.tool = "wasm-cpp" => l = "abigen"
      BY <2>1
    <2>3. pc' = [pc EXCEPT ![p] = l]
      BY <2>1 DEF Start
    <2> QED
      BY <1>2, <2>2, <2>3 DEF IInv, Shape, Labels
  <1>5. /\ alone'[p] = (~Hindered(c) /\ \A r \in Sharing(c) : ~Running(r))
        /\ \A q \in Procs : q # p => alone'[q] = (alone[q] /\ q \notin Sharing(c))
    BY DEF Start
  <1>6. alone' \in [Procs -> BOOLEAN]
    <2>1. \A q \in Procs : alone'[q] \in BOOLEAN
      BY <1>5
    <2>2. alone' = [q \in Procs |-> alone'[q]]
      BY DEF Start
    <2> QED
      BY <2>1, <2>2
  <1>7. Shape'
    BY <1>1, <1>3, <1>4, <1>6 DEF IInv, Shape
  <1>8. Places'
    <2> SUFFICES ASSUME NEW q \in Procs
                 PROVE  /\ pc'[q] = "idle" => cmd'[q] = NoCommand /\ ~alone'[q] /\ at'[q] = 1
                        /\ pc'[q] # "idle" => cmd'[q] \in Commands[q] /\ Busy(cmd'[q], pc'[q], at'[q])
                        /\ exit'[q] # "none" <=> pc'[q] = "ended"
      BY DEF Places, Busy
    <2>1. CASE q = p
      <3>1. Busy(c, pc'[p], 1)
        BY <1>2, <1>4 DEF Busy
      <3> QED
        BY <1>1, <1>3, <1>4, <2>1, <3>1
    <2>2. CASE q # p
      BY <1>1, <1>3, <1>4, <1>5, <2>2 DEF IInv, Places
    <2> QED
      BY <2>1, <2>2
  <1>9. Marks'
    <2> SUFFICES ASSUME NEW q \in Procs, NEW f \in Paths,
                        files'[f] # Absent, files'[f].by = q
                 PROVE  /\ pc'[q] # "idle"
                        /\ cmd'[q].tool # "wasm-lld" =>
                              f \in Left(cmd'[q], pc'[q], exit'[q], at'[q])
      BY DEF Marks, Left, Kept, Outputs, TmpSource, Output, AbiFile, AbigenOutput, Object, Inputs
    <2>1. pc[q] # "idle" /\ (cmd[q].tool # "wasm-lld" => f \in Left(cmd[q], pc[q], exit[q], at[q]))
      BY <1>1 DEF IInv, Marks
    <2>2. q # p
      BY <1>1, <2>1
    <2> QED
      BY <1>1, <1>3, <1>4, <2>1, <2>2
  <1>10. Undisturbed'
    <2> SUFFICES ASSUME NEW r \in Procs, NEW q \in Procs,
                        alone'[r], r # q, pc'[r] # "idle", pc'[q] # "idle",
                        Touches(cmd'[q]) \cap Touches(cmd'[r]) # {}
                 PROVE  pc'[q] \in {"idle", "ended"}
      BY DEF Undisturbed, Running, Touches, Outputs, Temporaries, TmpSource, Output, AbiFile,
             AbigenOutput, Object, Inputs
    <2>1. \A o \in Procs : o # p /\ pc'[o] # "idle" => pc[o] # "idle" /\ cmd[o] # NoCommand
      <3> SUFFICES ASSUME NEW o \in Procs, o # p, pc'[o] # "idle"
                   PROVE  pc[o] # "idle" /\ cmd[o] # NoCommand
        OBVIOUS
      <3>1. pc[o] # "idle"
        BY <1>4
      <3> QED
        BY <3>1, RunningFacts DEF IInv
    <2>2. CASE r = p
      <3>1. q \in Sharing(c)
        BY <1>3, <2>1, <2>2 DEF Sharing
      <3>2. ~Running(q)
        BY <1>5, <2>2, <3>1
      <3> QED
        BY <1>4, <2>2, <3>2 DEF Running
    <2>3. CASE q = p
      <3>1. Touches(cmd[r]) \cap Touches(c) # {}
        BY <1>3, <2>3
      <3>2. r \in Sharing(c)
        BY <2>1, <2>3, <3>1 DEF Sharing
      <3> QED
        BY <1>5, <2>3, <3>2
    <2>4. CASE r # p /\ q # p
      <3>1. /\ alone[r] /\ pc[r] # "idle" /\ pc[q] # "idle"
            /\ Touches(cmd[q]) \cap Touches(cmd[r]) # {}
        BY <1>3, <1>5, <2>1, <2>4
      <3>2. ~Running(q)
        BY <3>1 DEF IInv, Undisturbed
      <3> QED
        BY <1>4, <2>4, <3>2 DEF Running
    <2> QED
      BY <2>2, <2>3, <2>4
  <1>11. Builds'
    <2> SUFFICES ASSUME NEW q \in Procs, alone'[q], pc'[q] # "idle", cmd'[q].link,
                        cmd'[q].tool # "wasm-lld"
                 PROVE  Building(q, cmd'[q], pc'[q], exit'[q], at'[q], files')
      BY DEF Builds, Building, Own, TmpSource, Output, Object, Inputs
    <2>1. CASE q = p
      <3>1. ~Hindered(c)
        BY <1>5, <2>1
      <3>2. c.tool # "wasm-lld"
        BY <1>3, <2>1
      <3>3. \A i, j \in DOMAIN c.inputs : i # j => FileName[c.inputs[i]] # FileName[c.inputs[j]]
        BY <3>1, <3>2 DEF Hindered
      <3>4. /\ files[Output(c)] = Absent
            /\ c.tool = "wasm-cpp" => \A s \in Inputs(c) \cap Library : files[TmpSource(s)] = Absent
        BY <3>1 DEF Hindered
      <3>5. \A i \in DOMAIN c.inputs : ~(i < 1)
        BY <1>2
      <3>6. Building(p, c, pc'[p], "none", 1, files)
        BY <1>2, <1>4, <3>2, <3>3, <3>4, <3>5 DEF Building
      <3> QED
        BY <1>1, <1>3, <2>1, <3>6
    <2>2. CASE q # p
      BY <1>1, <1>3, <1>4, <1>5, <2>2 DEF IInv, Builds
    <2> QED
      BY <2>1, <2>2
  <1> QED
    BY <1>7, <1>8, <1>9, <1>10, <1>11 DEF IInv

-----------------------------------------------------------------------------
(* The theorems *)

(* Initially no process runs and there are no files. *)
LEMMA InitInv ==
    ASSUME Init
    PROVE  IInv
  <1>1. Shape
    BY DEF Init, Shape, Labels
  <1>2. Places
    BY DEF Init, Places
  <1>3. Marks
    BY DEF Init, Marks
  <1>4. Undisturbed
    BY DEF Init, Undisturbed
  <1>5. Builds
    BY DEF Init, Builds
  <1> QED
    BY <1>1, <1>2, <1>3, <1>4, <1>5 DEF IInv

(* Every step keeps the invariant.                                          *)
LEMMA NextInv ==
    ASSUME IInv, [Next]_vars
    PROVE  IInv'
  <1>1. CASE Next
    <2>1. PICK p \in Procs : \/ \E c \in Commands[p] : Start(p, c)
                          \/ Step(p) \/ KeepObject(p) \/ Kill(p)
      BY <1>1 DEF Next
    <2>2. CASE \E c \in Commands[p] : Start(p, c)
      BY <2>2, StartInv
    <2>3. CASE Step(p)
      BY <2>3, GenerateAbiInv, OpenCopyInv, WriteCopyInv, CompileInv, RemoveCopyInv,
         WriteAbigenOutputInv, LinkInv, FinishInv DEF Step
    <2>4. CASE Kill(p)
      BY <2>4, KillInv
    <2>5. CASE KeepObject(p)
      BY <2>5, KeepObjectInv
    <2> QED
      BY <2>1, <2>2, <2>3, <2>4, <2>5
  <1>2. CASE UNCHANGED vars
    <2>1. files' = files /\ cmd' = cmd /\ pc' = pc /\ at' = at /\ exit' = exit /\ alone' = alone
      BY <1>2 DEF vars, procVars
    <2> QED
      BY <2>1 DEF IInv, Shape, Places, Marks, Undisturbed, Builds, Running
  <1> QED
    BY <1>1, <1>2

(* The invariant holds: where the processes are, whose mark is in which      *)
(* file, and what a process that nothing disturbs finds (wasm-cpp.cpp.in,    *)
(* wasm-cc.cpp.in, wasm-lld.cpp.in: main).                                   *)
THEOREM DriverInvariance == Spec => []IInv
  <1>1. Init => IInv
    BY InitInv
  <1>2. IInv /\ [Next]_vars => IInv'
    BY NextInv
  <1> QED
    BY <1>1, <1>2, PTL DEF Spec

(* A driver that returns 0 after linking, and that nothing disturbed, has    *)
(* built all of its inputs, although it ignores what became of clang and of  *)
(* the linker (utils.hpp:186, wasm-cpp.cpp.in:246, 283).                     *)
THEOREM ZeroMeansBuilt == Spec => []SuccessMeansBuilt
  <1>1. IInv => SuccessMeansBuilt
    <2> SUFFICES ASSUME IInv, NEW p \in Procs, Succeeded(p), alone[p]
                 PROVE  LET built == files[Output(cmd[p])] IN
                        /\ built # Absent
                        /\ built.by = p /\ built.whole /\ built.sources = Inputs(cmd[p])
      BY DEF SuccessMeansBuilt
    <2>1. exit[p] = "0" /\ cmd[p].link /\ cmd[p].tool # "wasm-lld" /\ pc[p] # "idle"
      BY DEF Succeeded, IInv, Places
    <2>2. Building(p, cmd[p], pc[p], "0", at[p], files)
      BY <2>1 DEF IInv, Builds
    <2> QED
      BY <2>2 DEF Building
  <1> QED
    BY <1>1, DriverInvariance, PTL

(* After exit 0 no file in the temporary directory carries the mark of the   *)
(* process, whatever other processes did (wasm-cpp.cpp.in:250, 279-281).     *)
THEOREM NothingLeft == Spec => []TempsRemoved
  <1>1. IInv => TempsRemoved
    <2> SUFFICES ASSUME IInv, NEW p \in Procs, exit[p] = "0", cmd[p].tool # "wasm-lld",
                        NEW f \in Paths, files[f] # Absent, files[f].by = p
                 PROVE  f \in {Output(cmd[p]), AbiFile(cmd[p]), AbigenOutput(cmd[p])}
      BY DEF TempsRemoved
    <2>1. f \in Left(cmd[p], pc[p], "0", at[p]) /\ pc[p] = "ended"
      BY DEF IInv, Marks, Places
    <2> QED
      BY <2>1 DEF Left, Kept
  <1> QED
    BY <1>1, DriverInvariance, PTL

-----------------------------------------------------------------------------
(* The rounds of the merge, and what it keeps of the ABIs *)

(* The rounds of writeABI *)
MergeRounds(g, abis, k) ==
    g = [n \in 0 .. k |-> IF n = 0 THEN Last(abis) ELSE merge(g[n - 1], abis[n])]

(* The merge has a value for every number of rounds. *)
LEMMA MergeRoundsExist ==
    ASSUME NEW abis, NEW k \in Nat
    PROVE  \E g : MergeRounds(g, abis, k)
  <1> DEFINE T == {m \in Nat : \E g : MergeRounds(g, abis, m)}
  <1>1. 0 \in T
    <2>1. MergeRounds([n \in 0 .. 0 |-> Last(abis)], abis, 0)
      BY DEF MergeRounds
    <2> QED
      BY <2>1
  <1>2. ASSUME NEW m \in Nat, m \in T PROVE m + 1 \in T
    <2>1. PICK g : MergeRounds(g, abis, m)
      BY <1>2
    <2>2. PICK x : x = merge(g[m], abis[m + 1])
      OBVIOUS
    <2> DEFINE h == [n \in 0 .. m + 1 |-> IF n \in 0 .. m THEN g[n] ELSE x]
    <2>3. ASSUME NEW n \in 0 .. m + 1
          PROVE  h[n] = IF n = 0 THEN Last(abis) ELSE merge(h[n - 1], abis[n])
      <3>1. CASE n \in 0 .. m
        <4>1. g[n] = IF n = 0 THEN Last(abis) ELSE merge(g[n - 1], abis[n])
          BY <2>1, <3>1 DEF MergeRounds
        <4>2. h[n] = g[n] /\ (n # 0 => h[n - 1] = g[n - 1])
          BY <3>1
        <4> HIDE DEF h
        <4> QED
          BY <4>1, <4>2
      <3>2. CASE n = m + 1
        <4>1. n # 0 /\ h[n - 1] = g[m] /\ h[n] = x
          BY <3>2
        <4> HIDE DEF h
        <4> QED
          BY <2>2, <3>2, <4>1
      <3> QED
        BY <3>1, <3>2
    <2>4. MergeRounds(h, abis, m + 1)
      BY <2>3 DEF MergeRounds
    <2> QED
      BY <2>4
  <1>3. Nat \subseteq T
    <2> HIDE DEF T
    <2> QED
      BY <1>1, <1>2, NaturalInduction
  <1> QED
    BY <1>3

(* writeABI (Writer.cpp:103-110) is the last of its rounds. *)
LEMMA WriteABIRounds ==
    ASSUME NEW abis, Len(abis) \in Nat
    PROVE  \E g : MergeRounds(g, abis, Len(abis)) /\ writeABI(abis) = g[Len(abis)]
  <1>1. \E g : MergeRounds(g, abis, Len(abis))
    BY MergeRoundsExist
  <1>2. writeABI(abis) = (CHOOSE g : MergeRounds(g, abis, Len(abis)))[Len(abis)]
    BY DEF writeABI, MergeRounds
  <1> QED
    BY <1>1, <1>2

(* The sections to_json writes (abigen.hpp:443-470). *)
LEMMA JsonSections ==
    ASSUME NEW a
    PROVE  /\ to_json(a).objects["structs"] = {s \in a.structs : validate_struct(a, s)}
           /\ to_json(a).objects["types"] = {s \in a.typedefs : validate_types(a, s)}
           /\ to_json(a).objects["actions"] = a.actions
           /\ to_json(a).objects["tables"] = set_of_tables(a)
           /\ to_json(a).objects["variants"] = a.variants
           /\ to_json(a).clauses = a.clauses /\ to_json(a).ok = TRUE
  BY DEF to_json

(* No two objects have the same name. *)
NamesUnique(S) == \A x, y \in S : x.name = y.name => x = y

(* What one round of the merge makes of section s of a and b *)
Joined(a, b, c, s) ==
    /\ c.ok => a.ok
    /\ c.ok => \A x \in a.objects[s], y \in b.objects[s] : x.name = y.name => is_same(s, x, y)
    /\ a.objects[s] \subseteq c.objects[s]
    /\ \A x \in c.objects[s] :
          x \in a.objects[s] \/ (x \in b.objects[s] /\ \A y \in a.objects[s] : y.name # x.name)
    /\ \A y \in b.objects[s] : y \in c.objects[s] \/ \E x \in a.objects[s] : x.name = y.name

(* One round of ABIMerger::merge, section by section (abimerge.hpp:108-163). *)
LEMMA MergeStep ==
    ASSUME NEW a, NEW b, NEW s \in Sections, NEW c, c = merge(a, b)
    PROVE  Joined(a, b, c, s)
  <1>1. c.objects[s] = add_object(a.objects[s], b.objects[s])
    BY DEF merge
  <1>2. c.ok => a.ok /\ ~Malformed(s, a.objects[s], b.objects[s])
    BY DEF merge
  <1>3. c.ok => \A x \in a.objects[s], y \in b.objects[s] : x.name = y.name => is_same(s, x, y)
    BY <1>2 DEF Malformed
  <1> QED
    BY <1>1, <1>2, <1>3 DEF Joined, add_object

(* x is in the ABI, or another object of its name that the merge has         *)
(* compared with it.                                                         *)
Stands(abi, s, x) ==
    \E z \in abi.objects[s] : z.name = x.name /\ (abi.ok => z = x \/ is_same(s, z, x))

(* What stands in an ABI still stands after a round, and so does what the    *)
(* round brings.                                                             *)
LEMMA StandsOn ==
    ASSUME NEW a, NEW b, NEW s \in Sections, NEW c, c = merge(a, b), NEW x
    PROVE  /\ Stands(a, s, x) => Stands(c, s, x)
           /\ x \in b.objects[s] => Stands(c, s, x)
  <1>0. Joined(a, b, c, s)
    BY MergeStep
  <1>1. /\ c.ok => a.ok
        /\ c.ok => \A z \in a.objects[s], y \in b.objects[s] : z.name = y.name => is_same(s, z, y)
        /\ a.objects[s] \subseteq c.objects[s]
        /\ \A y \in b.objects[s] : y \in c.objects[s] \/ \E z \in a.objects[s] : z.name = y.name
    BY <1>0 DEF Joined
  <1>2. Stands(a, s, x) => Stands(c, s, x)
    BY <1>1 DEF Stands
  <1>3. ASSUME x \in b.objects[s] PROVE Stands(c, s, x)
    <2>1. CASE x \in c.objects[s]
      BY <2>1 DEF Stands
    <2>2. CASE x \notin c.objects[s]
      <3>1. PICK z \in a.objects[s] : z.name = x.name
        BY <1>1, <1>3, <2>2
      <3>2. z \in c.objects[s] /\ (c.ok => is_same(s, z, x))
        BY <1>1, <1>3, <3>1
      <3> QED
        BY <3>1, <3>2 DEF Stands
    <2> QED
      BY <2>1, <2>2
  <1> QED
    BY <1>2, <1>3

(* What writeABI makes of a list of ABIs: nothing that is in none of them,   *)
(* nothing of any of them lost, and of each name one.                        *)
LEMMA MergedFacts ==
    ASSUME NEW abis, Len(abis) \in Nat \ {0}, NEW s \in Sections
    PROVE  /\ \A x \in writeABI(abis).objects[s] : \E i \in 1 .. Len(abis) : x \in abis[i].objects[s]
           /\ \A i \in 1 .. Len(abis) : \A x \in abis[i].objects[s] : Stands(writeABI(abis), s, x)
           /\ (\A i \in 1 .. Len(abis) : NamesUnique(abis[i].objects[s])) =>
                 NamesUnique(writeABI(abis).objects[s])
  <1> DEFINE N == Len(abis)
             Unique == \A i \in 1 .. N : NamesUnique(abis[i].objects[s])
  <1>1. PICK g : MergeRounds(g, abis, N) /\ writeABI(abis) = g[N]
    BY WriteABIRounds
  <1>2. g[0] = abis[N]
    BY <1>1 DEF MergeRounds, Last
  <1>3. \A n \in 1 .. N : g[n] = merge(g[n - 1], abis[n])
    BY <1>1 DEF MergeRounds
  <1> DEFINE From(n) == \A x \in g[n].objects[s] : \E i \in 1 .. N : x \in abis[i].objects[s]
             Standing(n) == \A i \in 1 .. n : \A x \in abis[i].objects[s] : Stands(g[n], s, x)
             One(n) == Unique => NamesUnique(g[n].objects[s])
             T == {n \in Nat : n <= N => From(n) /\ Standing(n) /\ One(n)}
  <1>4. 0 \in T
    <2>1. N \in 1 .. N
      OBVIOUS
    <2> QED
      BY <1>2, <2>1
  <1>5. ASSUME NEW n \in Nat, n \in T PROVE n + 1 \in T
    <2>1. SUFFICES ASSUME n + 1 <= N PROVE From(n + 1) /\ Standing(n + 1) /\ One(n + 1)
      OBVIOUS
    <2>2. From(n) /\ Standing(n) /\ One(n)
      BY <1>5, <2>1
    <2>3. n + 1 \in 1 .. N /\ (n + 1) - 1 = n
      BY <2>1
    <2>4. PICK b, c, a : b = abis[n + 1] /\ c = g[n + 1] /\ a = g[n] /\ c = merge(a, b)
      BY <1>3, <2>3
    <2>5. \A x \in c.objects[s] :
                 x \in a.objects[s] \/ (x \in b.objects[s] /\ \A y \in a.objects[s] : y.name # x.name)
      BY <2>4, MergeStep DEF Joined
    <2>6. From(n + 1)
      BY <2>2, <2>3, <2>4, <2>5
    <2>7. Standing(n + 1)
      <3> SUFFICES ASSUME NEW i \in 1 .. n + 1, NEW x \in abis[i].objects[s]
                   PROVE  Stands(c, s, x)
        BY <2>4
      <3>1. Stands(a, s, x) => Stands(c, s, x)
        BY <2>4, StandsOn
      <3>2. x \in b.objects[s] => Stands(c, s, x)
        BY <2>4, StandsOn
      <3>3. CASE i \in 1 .. n
        BY <2>2, <2>4, <3>1, <3>3
      <3>4. CASE i = n + 1
        BY <2>4, <3>2, <3>4
      <3> QED
        BY <3>3, <3>4
    <2>8. One(n + 1)
      BY <2>2, <2>3, <2>4, <2>5 DEF NamesUnique
    <2> QED
      BY <2>6, <2>7, <2>8
  <1>6. Nat \subseteq T
    <2> HIDE DEF T
    <2> QED
      BY <1>4, <1>5, NaturalInduction
  <1>7. From(N) /\ Standing(N) /\ One(N)
    <2>1. N \in T
      BY <1>6
    <2> QED
      BY <2>1
  <1> QED
    BY <1>1, <1>7

(* A list of fields, none of them twice *)
NoRepeat(l) ==
    /\ Len(l) \in Nat /\ l = [i \in 1 .. Len(l) |-> l[i]]
    /\ \A i, j \in 1 .. Len(l) : l[i] = l[j] => i = j

(* A list *)
IsList(l) == Len(l) \in Nat /\ l = [i \in 1 .. Len(l) |-> l[i]]

(* struct_is_same compares the numbers of fields and looks up those of one   *)
(* struct in the other: without repetitions this makes them the same set.    *)
LEMMA SameFields ==
    ASSUME NEW a, NEW b, NoRepeat(a), IsList(b), Len(a) = Len(b), ToSet(a) \subseteq ToSet(b)
    PROVE  ToSet(a) = ToSet(b)
  <1> DEFINE n == Len(a)
  <1>1. n \in Nat /\ a \in [1 .. n -> ToSet(a)] /\ b \in [1 .. n -> ToSet(b)]
    BY DEF NoRepeat, IsList, ToSet
  <1>2. IsFiniteSet(1 .. n) /\ Cardinality(1 .. n) = n
    <2> HIDE DEF n
    <2>1. 1 \in Int /\ n \in Int
      BY <1>1
    <2>2. IsFiniteSet(1 .. n) /\ Cardinality(1 .. n) = IF 1 > n THEN 0 ELSE n - 1 + 1
      BY <2>1, FS_Interval
    <2> QED
      BY <1>1, <2>2
  <1>3. a \in Surjection(1 .. n, ToSet(a)) /\ a \in Injection(1 .. n, ToSet(a))
    BY <1>1 DEF NoRepeat, Surjection, Injection, IsInjective, ToSet
  <1>4. b \in Surjection(1 .. n, ToSet(b))
    BY <1>1 DEF Surjection, ToSet
  <1> HIDE DEF n
  <1>5. IsFiniteSet(ToSet(a)) /\ Cardinality(ToSet(a)) = n
    BY <1>2, <1>3, FS_Surjection
  <1>6. IsFiniteSet(ToSet(b)) /\ Cardinality(ToSet(b)) <= n
    BY <1>2, <1>4, FS_Surjection
  <1>7. Cardinality(ToSet(a)) <= Cardinality(ToSet(b)) /\ Cardinality(ToSet(b)) \in Nat
    BY <1>6, FS_Subset, FS_CardinalityType
  <1>8. Cardinality(ToSet(a)) = Cardinality(ToSet(b))
    BY <1>1, <1>5, <1>6, <1>7
  <1> QED
    BY <1>6, <1>8, FS_Subset

(* What struct_is_same and its like are meant to find out *)
Agree(s, x, y) ==
    IF s = "structs"
    THEN x.def.base = y.def.base /\ ToSet(x.def.fields) = ToSet(y.def.fields)
    ELSE x.def = y.def

(* The objects of an ABI: of each name one, and the fields of a struct differ. *)
WellFormed(abi) ==
    /\ \A s \in Sections : NamesUnique(abi.objects[s])
    /\ \A x \in abi.objects["structs"] : NoRepeat(x.def.fields)

(* A list of such ABIs *)
WellFormedList(abis) == Len(abis) \in Nat /\ \A i \in 1 .. Len(abis) : WellFormed(abis[i])

(* An ABI that was merged without error agrees with all it was made from. *)
LEMMA MergeAgrees ==
    ASSUME NEW abis, WellFormedList(abis), writeABI(abis).ok,
           NEW i \in 1 .. Len(abis), NEW j \in 1 .. Len(abis), NEW s \in Sections \ {"variants"},
           NEW x \in abis[i].objects[s], NEW y \in abis[j].objects[s], x.name = y.name
    PROVE  Agree(s, x, y)
  <1> DEFINE W == writeABI(abis)
  <1>1. Len(abis) \in Nat \ {0} /\ s \in Sections
    BY DEF WellFormedList
  <1>2. \A k \in 1 .. Len(abis) : NamesUnique(abis[k].objects[s])
    BY DEF WellFormedList, WellFormed
  <1>3. /\ \A z \in W.objects[s] : \E k \in 1 .. Len(abis) : z \in abis[k].objects[s]
        /\ NamesUnique(W.objects[s])
        /\ Stands(W, s, x) /\ Stands(W, s, y)
    BY <1>1, <1>2, MergedFacts
  <1> HIDE DEF W
  <1>4. W.ok
    BY DEF W
  <1>5. PICK z \in W.objects[s] : z.name = x.name /\ (z = x \/ is_same(s, z, x))
    BY <1>3, <1>4 DEF Stands
  <1>6. z = y \/ is_same(s, z, y)
    BY <1>3, <1>4, <1>5 DEF Stands, NamesUnique
  <1>7. CASE s # "structs"
    <2>1. z.def = x.def
      BY <1>5, <1>7 DEF is_same
    <2>2. z.def = y.def
      BY <1>6, <1>7 DEF is_same
    <2> QED
      BY <1>7, <2>1, <2>2 DEF Agree
  <1>8. CASE s = "structs"
    <2>1. PICK k \in 1 .. Len(abis) : z \in abis[k].objects[s]
      BY <1>3
    <2>2. NoRepeat(z.def.fields) /\ NoRepeat(x.def.fields) /\ NoRepeat(y.def.fields)
      BY <1>8, <2>1 DEF WellFormedList, WellFormed
    <2>3. IsList(x.def.fields) /\ IsList(y.def.fields)
      BY <2>2 DEF NoRepeat, IsList
    <2>4. ASSUME NEW v, z = v \/ is_same(s, z, v), IsList(v.def.fields)
          PROVE z.def.base = v.def.base /\ ToSet(z.def.fields) = ToSet(v.def.fields)
      <3>1. CASE z = v
        BY <3>1
      <3>2. CASE is_same(s, z, v)
        <4>1. /\ z.def.base = v.def.base /\ Len(z.def.fields) = Len(v.def.fields)
              /\ ToSet(z.def.fields) \subseteq ToSet(v.def.fields)
          BY <1>8, <3>2 DEF is_same
        <4> QED
          BY <2>2, <2>4, <4>1, SameFields
      <3> QED
        BY <2>4, <3>1, <3>2
    <2>5. z.def.base = x.def.base /\ ToSet(z.def.fields) = ToSet(x.def.fields)
      BY <1>5, <2>3, <2>4
    <2>6. z.def.base = y.def.base /\ ToSet(z.def.fields) = ToSet(y.def.fields)
      BY <1>6, <2>3, <2>4
    <2> QED
      BY <1>8, <2>5, <2>6 DEF Agree
  <1> QED
    BY <1>7, <1>8

-----------------------------------------------------------------------------
(* What abigen collects *)

(* A set after objects were inserted: what was there stays, nothing else came, *)
(* of each name there is one.                                                  *)
Grown(old, new, added) ==
    /\ old \subseteq new /\ new \subseteq old \union added
    /\ NamesUnique(old) => NamesUnique(new)
    /\ \A o \in added : \E z \in new : z.name = o.name

(* std::set::insert keeps what is there and adds what has a new name         *)
(* (abi.hpp:8-51).                                                           *)
LEMMA InsertGrown ==
    ASSUME NEW old, NEW added
    PROVE  Grown(old, Insert(old, added), added)
  <1> DEFINE first(name) == CHOOSE o \in added : o.name = name
             new == Insert(old, added)
  <1>1. new = old \union {o \in added : o = first(o.name) /\ \A x \in old : x.name # o.name}
    BY DEF Insert
  <1>2. \A o \in added : first(o.name) \in added /\ first(o.name).name = o.name
    OBVIOUS
  <1> HIDE DEF new
  <1>3. old \subseteq new /\ new \subseteq old \union added
    BY <1>1
  <1>4. NamesUnique(old) => NamesUnique(new)
    <2> SUFFICES ASSUME NamesUnique(old), NEW x \in new, NEW y \in new, x.name = y.name
                 PROVE  x = y
      BY DEF NamesUnique
    <2>1. CASE x \in old /\ y \in old
      BY <2>1 DEF NamesUnique
    <2>2. CASE x \notin old /\ y \notin old
      BY <1>1, <2>2
    <2> QED
      BY <1>1, <2>1, <2>2
  <1>5. ASSUME NEW o \in added PROVE \E z \in new : z.name = o.name
    <2>1. CASE \E x \in old : x.name = o.name
      BY <1>3, <2>1
    <2>2. CASE \A x \in old : x.name # o.name
      <3>1. PICK z : z = first(o.name)
        OBVIOUS
      <3>2. z \in added /\ z.name = o.name
        BY <1>2, <3>1
      <3>3. z = first(z.name)
        BY <3>1, <3>2
      <3>4. z \in new
        <4> HIDE DEF first
        <4> QED
          BY <1>1, <2>2, <3>2, <3>3
      <3> QED
        BY <3>2, <3>4
    <2> QED
      BY <2>1, <2>2
  <1> QED
    BY <1>3, <1>4, <1>5 DEF Grown, new

(* Two insertions are one of both. *)
LEMMA GrownTwice ==
    ASSUME NEW a, NEW b, NEW c, NEW A, NEW B, Grown(a, b, A), Grown(b, c, B)
    PROVE  Grown(a, c, A \union B)
  <1>1. a \subseteq c /\ c \subseteq a \union (A \union B)
    BY DEF Grown
  <1>2. NamesUnique(a) => NamesUnique(c)
    BY DEF Grown
  <1>3. ASSUME NEW o \in A \union B PROVE \E z \in c : z.name = o.name
    BY <1>3 DEF Grown
  <1> QED
    BY <1>1, <1>2, <1>3 DEF Grown

(* Nothing inserted, nothing changed. *)
LEMMA GrownNot ==
    ASSUME NEW a
    PROVE  Grown(a, a, {})
  BY DEF Grown

(* The sets of an abigen *)
Parts == {"structs", "typedefs", "actions", "tables", "ctables", "variants"}

(* a has the parts of an abigen and no others. *)
IsAbigen(a) ==
    a = [structs |-> a.structs, typedefs |-> a.typedefs, actions |-> a.actions,
         tables |-> a.tables, ctables |-> a.ctables, variants |-> a.variants,
         clauses |-> a.clauses]

(* What add_type inserts for a struct, a variant and an alias *)
StructOf(t) ==
    [name |-> Types[t].name,
     def |-> [base |-> {Types[b].name : b \in Types[t].base}, fields |-> Fields(Types[t].uses)]]
VariantOf(t) ==
    [name |-> Types[t].name, def |-> [i \in DOMAIN Types[t].uses |-> Ref(Types[t].uses[i].type)]]
TypedefOf(t) == [name |-> Types[t].name, def |-> Ref(Types[t].uses[1].type)]

(* add_type inserts into structs, variants and typedefs, and nowhere else    *)
(* (abigen.hpp:111-188).                                                     *)
LEMMA AddTypeGrows ==
    ASSUME NEW a, IsAbigen(a), NEW ts, NEW b, b = add_type(a, ts)
    PROVE  /\ IsAbigen(b) /\ b.clauses = a.clauses
           /\ Grown(a.structs, b.structs, {StructOf(t) : t \in OfKind("struct", ts)})
           /\ Grown(a.variants, b.variants, {VariantOf(t) : t \in OfKind("variant", ts)})
           /\ Grown(a.typedefs, b.typedefs, {TypedefOf(t) : t \in OfKind("alias", ts)})
           /\ b.actions = a.actions /\ b.tables = a.tables /\ b.ctables = a.ctables
  <1>1. PICK S, V, Y : /\ S = {StructOf(t) : t \in OfKind("struct", ts)}
                       /\ V = {VariantOf(t) : t \in OfKind("variant", ts)}
                       /\ Y = {TypedefOf(t) : t \in OfKind("alias", ts)}
    OBVIOUS
  <1>2. b = [a EXCEPT !.structs = Insert(@, S), !.variants = Insert(@, V), !.typedefs = Insert(@, Y)]
    BY <1>1 DEF add_type, StructOf, VariantOf, TypedefOf
  <1>3. PICK s, v, y : s = Insert(a.structs, S) /\ v = Insert(a.variants, V) /\ y = Insert(a.typedefs, Y)
    OBVIOUS
  <1>4. b = [structs |-> s, typedefs |-> y, actions |-> a.actions,
             tables |-> a.tables, ctables |-> a.ctables, variants |-> v,
             clauses |-> a.clauses]
    BY <1>2, <1>3 DEF IsAbigen
  <1>5. Grown(a.structs, s, S) /\ Grown(a.variants, v, V) /\ Grown(a.typedefs, y, Y)
    BY <1>3, InsertGrown
  <1> QED
    BY <1>1, <1>4, <1>5 DEF IsAbigen

(* The types a declaration needs, and what it adds to each part *)
Roots(d) ==
    CASE d.kind = "action" -> {u.type : u \in ToSet(d.params)}
      [] d.kind = "table" -> {d.type}
      [] d.kind = "index" -> {}

(* The struct add_action makes of the parameters *)
ParamStruct(d) == [name |-> d.method, def |-> [base |-> {}, fields |-> Fields(d.params)]]

(* What a declaration inserts into part k *)
New(k, d) ==
    CASE k = "structs" -> {StructOf(t) : t \in OfKind("struct", Roots(d))}
                          \union (IF d.kind = "action" THEN {ParamStruct(d)} ELSE {})
      [] k = "variants" -> {VariantOf(t) : t \in OfKind("variant", Roots(d))}
      [] k = "typedefs" -> {TypedefOf(t) : t \in OfKind("alias", Roots(d))}
      [] k = "actions" -> IF d.kind = "action" THEN {[name |-> d.name, def |-> d.method]} ELSE {}
      [] k = "tables" -> IF d.kind = "index" THEN {[name |-> d.name, def |-> Types[d.type].name]} ELSE {}
      [] k = "ctables" -> IF d.kind = "table" THEN {[name |-> d.name, def |-> Types[d.type].name]} ELSE {}

(* A visit inserts what New says if the declaration belongs to the contract, *)
(* and leaves abigen alone if not (wasm-cpp.cpp.in:58-127).                  *)
LEMMA VisitGrows ==
    ASSUME NEW a, IsAbigen(a), NEW d \in Declaration, NEW b, b = Visit(a, d)
    PROVE  /\ IsAbigen(b) /\ b.clauses = a.clauses
           /\ d.mine => \A k \in Parts : Grown(a[k], b[k], New(k, d))
           /\ ~d.mine => b = a
  <1>1. d.kind \in {"action", "table", "index"} /\ d.mine \in BOOLEAN
    BY DEF Declaration
  <1>2. CASE ~d.mine
    BY <1>2 DEF Visit
  <1>3. CASE d.mine /\ d.kind = "action"
    <2>1. b = add_action(a, d)
      BY <1>3 DEF Visit
    <2>2. PICK x : x = [a EXCEPT !.structs = Insert(@, {ParamStruct(d)})]
      OBVIOUS
    <2>3. PICK S : S = Insert(a.structs, {ParamStruct(d)})
      OBVIOUS
    <2>4. /\ IsAbigen(x) /\ x.structs = S /\ x.typedefs = a.typedefs /\ x.actions = a.actions
          /\ x.tables = a.tables /\ x.ctables = a.ctables /\ x.variants = a.variants
          /\ x.clauses = a.clauses
      BY <2>2, <2>3 DEF IsAbigen
    <2>5. PICK y : y = add_type(x, Roots(d))
      OBVIOUS
    <2>6. /\ IsAbigen(y) /\ y.clauses = x.clauses
          /\ Grown(x.structs, y.structs, {StructOf(t) : t \in OfKind("struct", Roots(d))})
          /\ Grown(x.variants, y.variants, {VariantOf(t) : t \in OfKind("variant", Roots(d))})
          /\ Grown(x.typedefs, y.typedefs, {TypedefOf(t) : t \in OfKind("alias", Roots(d))})
          /\ y.actions = x.actions /\ y.tables = x.tables /\ y.ctables = x.ctables
      BY <2>4, <2>5, AddTypeGrows
    <2>7. Roots(d) = {u.type : u \in ToSet(d.params)}
      BY <1>3 DEF Roots
    <2>8. b = [y EXCEPT !.actions = Insert(@, {[name |-> d.name, def |-> d.method]})]
      BY <2>1, <2>2, <2>5, <2>7 DEF add_action, ParamStruct
    <2>9. PICK C : C = Insert(a.actions, {[name |-> d.name, def |-> d.method]})
      OBVIOUS
    <2>10. /\ IsAbigen(b) /\ b.structs = y.structs /\ b.typedefs = y.typedefs /\ b.actions = C
           /\ b.tables = a.tables /\ b.ctables = a.ctables /\ b.variants = y.variants
           /\ b.clauses = a.clauses
      BY <2>4, <2>6, <2>8, <2>9 DEF IsAbigen
    <2>11. Grown(a.structs, b.structs, New("structs", d))
      <3>1. Grown(a.structs, S, {ParamStruct(d)})
        BY <2>3, InsertGrown
      <3>2. PICK Z : Z = {StructOf(t) : t \in OfKind("struct", Roots(d))}
        OBVIOUS
      <3>3. Grown(S, b.structs, Z)
        BY <2>4, <2>6, <2>10, <3>2
      <3>4. Grown(a.structs, b.structs, {ParamStruct(d)} \union Z)
        BY <3>1, <3>3, GrownTwice
      <3>5. New("structs", d) = {ParamStruct(d)} \union Z
        BY <1>3, <3>2 DEF New
      <3> QED
        BY <3>4, <3>5
    <2>12. Grown(a.actions, b.actions, New("actions", d))
      BY <1>3, <2>9, <2>10, InsertGrown DEF New
    <2>13. Grown(a.variants, b.variants, New("variants", d))
      BY <2>4, <2>6, <2>10 DEF New
    <2>14. Grown(a.typedefs, b.typedefs, New("typedefs", d))
      BY <2>4, <2>6, <2>10 DEF New
    <2>15. Grown(a.tables, b.tables, New("tables", d)) /\ Grown(a.ctables, b.ctables, New("ctables", d))
      BY <1>3, <2>10, GrownNot DEF New
    <2>16. \A k \in Parts : Grown(a[k], b[k], New(k, d))
      BY <2>11, <2>12, <2>13, <2>14, <2>15 DEF Parts
    <2> QED
      BY <1>3, <2>10, <2>16
  <1>4. CASE d.mine /\ d.kind = "table"
    <2>1. b = add_table(a, d) /\ Roots(d) = {d.type}
      BY <1>4 DEF Visit, Roots
    <2>2. PICK y : y = add_type(a, Roots(d))
      OBVIOUS
    <2>3. /\ IsAbigen(y) /\ y.clauses = a.clauses
          /\ Grown(a.structs, y.structs, {StructOf(t) : t \in OfKind("struct", Roots(d))})
          /\ Grown(a.variants, y.variants, {VariantOf(t) : t \in OfKind("variant", Roots(d))})
          /\ Grown(a.typedefs, y.typedefs, {TypedefOf(t) : t \in OfKind("alias", Roots(d))})
          /\ y.actions = a.actions /\ y.tables = a.tables /\ y.ctables = a.ctables
      BY <2>2, AddTypeGrows
    <2>4. PICK C : C = Insert(a.ctables, {[name |-> d.name, def |-> Types[d.type].name]})
      OBVIOUS
    <2>5. b = [y EXCEPT !.ctables = C]
      BY <2>1, <2>2, <2>3, <2>4 DEF add_table
    <2>6. /\ IsAbigen(b) /\ b.structs = y.structs /\ b.typedefs = y.typedefs /\ b.actions = a.actions
          /\ b.tables = a.tables /\ b.ctables = C /\ b.variants = y.variants
          /\ b.clauses = a.clauses
      BY <2>3, <2>5 DEF IsAbigen
    <2>7. Grown(a.ctables, b.ctables, New("ctables", d))
      BY <1>4, <2>4, <2>6, InsertGrown DEF New
    <2>8. Grown(a.structs, b.structs, New("structs", d))
      <3>1. New("structs", d) = {StructOf(t) : t \in OfKind("struct", Roots(d))}
        BY <1>4 DEF New
      <3> QED
        BY <2>3, <2>6, <3>1
    <2>9. Grown(a.variants, b.variants, New("variants", d))
      BY <2>3, <2>6 DEF New
    <2>10. Grown(a.typedefs, b.typedefs, New("typedefs", d))
      BY <2>3, <2>6 DEF New
    <2>11. Grown(a.tables, b.tables, New("tables", d)) /\ Grown(a.actions, b.actions, New("actions", d))
      BY <1>4, <2>6, GrownNot DEF New
    <2>12. \A k \in Parts : Grown(a[k], b[k], New(k, d))
      BY <2>7, <2>8, <2>9, <2>10, <2>11 DEF Parts
    <2> QED
      BY <1>4, <2>6, <2>12
  <1>5. CASE d.mine /\ d.kind = "index"
    <2>1. b = add_index(a, d) /\ Roots(d) = {}
      BY <1>5 DEF Visit, Roots
    <2>2. PICK C : C = Insert(a.tables, {[name |-> d.name, def |-> Types[d.type].name]})
      OBVIOUS
    <2>3. b = [a EXCEPT !.tables = C]
      BY <2>1, <2>2 DEF add_index
    <2>4. /\ IsAbigen(b) /\ b.structs = a.structs /\ b.typedefs = a.typedefs /\ b.actions = a.actions
          /\ b.tables = C /\ b.ctables = a.ctables /\ b.variants = a.variants
          /\ b.clauses = a.clauses
      BY <2>3 DEF IsAbigen
    <2>5. Grown(a.tables, b.tables, New("tables", d))
      BY <1>5, <2>2, <2>4, InsertGrown DEF New
    <2>6. \A kind : OfKind(kind, Roots(d)) = {}
      BY <2>1 DEF OfKind, Reach
    <2>7. \A k \in Parts \ {"tables"} : New(k, d) = {} /\ a[k] = b[k]
      BY <1>5, <2>4, <2>6 DEF New, Parts
    <2>8. \A k \in Parts : Grown(a[k], b[k], New(k, d))
      BY <2>4, <2>5, <2>7, GrownNot DEF Parts
    <2> QED
      BY <1>5, <2>4, <2>8
  <1> QED
    BY <1>1, <1>2, <1>3, <1>4, <1>5

(* The rounds of VisitAll *)
VisitRounds(g, base, decls, k) ==
    g = [n \in 0 .. k |-> IF n = 0 THEN base ELSE Visit(g[n - 1], decls[n])]

(* The visit of a source has a value for every number of declarations. *)
LEMMA VisitRoundsExist ==
    ASSUME NEW base, NEW decls, NEW k \in Nat
    PROVE  \E g : VisitRounds(g, base, decls, k)
  <1> DEFINE T == {m \in Nat : \E g : VisitRounds(g, base, decls, m)}
  <1>1. 0 \in T
    <2>1. VisitRounds([n \in 0 .. 0 |-> base], base, decls, 0)
      BY DEF VisitRounds
    <2> QED
      BY <2>1
  <1>2. ASSUME NEW m \in Nat, m \in T PROVE m + 1 \in T
    <2>1. PICK g : VisitRounds(g, base, decls, m)
      BY <1>2
    <2>2. PICK x : x = Visit(g[m], decls[m + 1])
      OBVIOUS
    <2> DEFINE h == [n \in 0 .. m + 1 |-> IF n \in 0 .. m THEN g[n] ELSE x]
    <2>3. ASSUME NEW n \in 0 .. m + 1
          PROVE  h[n] = IF n = 0 THEN base ELSE Visit(h[n - 1], decls[n])
      <3>1. CASE n \in 0 .. m
        <4>1. g[n] = IF n = 0 THEN base ELSE Visit(g[n - 1], decls[n])
          BY <2>1, <3>1 DEF VisitRounds
        <4>2. h[n] = g[n] /\ (n # 0 => h[n - 1] = g[n - 1])
          BY <3>1
        <4> HIDE DEF h
        <4> QED
          BY <4>1, <4>2
      <3>2. CASE n = m + 1
        <4>1. n # 0 /\ h[n - 1] = g[m] /\ h[n] = x
          BY <3>2
        <4> HIDE DEF h
        <4> QED
          BY <2>2, <3>2, <4>1
      <3> QED
        BY <3>1, <3>2
    <2>4. VisitRounds(h, base, decls, m + 1)
      BY <2>3 DEF VisitRounds
    <2> QED
      BY <2>4
  <1>3. Nat \subseteq T
    <2> HIDE DEF T
    <2> QED
      BY <1>1, <1>2, NaturalInduction
  <1> QED
    BY <1>3

(* The declarations of source s that abigen looks at *)
Mine(s) == {d \in ToSet(Decls[s]) : d.mine}

(* What the sources in S add to part k *)
Added(S, k) == UNION {New(k, d) : d \in UNION {Mine(s) : s \in S}}

(* One run of the tool over source s inserts what all its declarations add,  *)
(* and the clauses if there is a declaration (wasm-cpp.cpp.in:75-84).        *)
LEMMA VisitAllGrows ==
    ASSUME NEW a, IsAbigen(a), NEW s \in DOMAIN Decls, NEW b, b = VisitAll(a, s)
    PROVE  /\ IsAbigen(b)
           /\ b.clauses = IF Decls[s] = <<>> THEN a.clauses ELSE a.clauses \o Clauses
           /\ \A k \in Parts : Grown(a[k], b[k], Added({s}, k))
  <1> DEFINE base == IF Decls[s] = <<>> THEN a ELSE [a EXCEPT !.clauses = @ \o Clauses]
             decls == Decls[s]
             N == Len(decls)
  <1>1. decls \in Seq(Declaration) /\ N \in Nat /\ DOMAIN decls = 1 .. N
        /\ \A n \in 1 .. N : decls[n] \in Declaration
    BY DeclsAssumption
  <1>2. /\ IsAbigen(base) /\ \A k \in Parts : base[k] = a[k]
        /\ base.clauses = IF Decls[s] = <<>> THEN a.clauses ELSE a.clauses \o Clauses
    <2>1. CASE Decls[s] = <<>>
      BY <2>1
    <2>2. CASE Decls[s] # <<>>
      <3>1. PICK cl : cl = a.clauses \o Clauses
        OBVIOUS
      <3>2. base = [structs |-> a.structs, typedefs |-> a.typedefs, actions |-> a.actions,
                    tables |-> a.tables, ctables |-> a.ctables, variants |-> a.variants,
                    clauses |-> cl]
        BY <2>2, <3>1 DEF IsAbigen
      <3> HIDE DEF base
      <3> QED
        BY <2>2, <3>1, <3>2 DEF IsAbigen, Parts
    <2> QED
      BY <2>1, <2>2
  <1> HIDE DEF base
  <1>3. PICK g : VisitRounds(g, base, decls, N) /\ b = g[N]
    <2>1. \E g : VisitRounds(g, base, decls, N)
      BY <1>1, VisitRoundsExist
    <2>2. b = (CHOOSE g : VisitRounds(g, base, decls, N))[N]
      BY DEF VisitAll, VisitRounds, base
    <2> QED
      BY <2>1, <2>2
  <1>4. g[0] = base /\ \A n \in 1 .. N : g[n] = Visit(g[n - 1], decls[n])
    BY <1>1, <1>3 DEF VisitRounds
  <1> DEFINE Sofar(n, k) == UNION {New(k, d) : d \in {decls[i] : i \in {j \in 1 .. n : decls[j].mine}}}
             P(n) == /\ IsAbigen(g[n]) /\ g[n].clauses = base.clauses
                     /\ \A k \in Parts : Grown(a[k], g[n][k], Sofar(n, k))
  <1>5. P(0)
    <2>1. \A k \in Parts : Sofar(0, k) = {}
      <3>1. {j \in 1 .. 0 : decls[j].mine} = {}
        OBVIOUS
      <3> QED
        BY <3>1
    <2>2. \A k \in Parts : Grown(a[k], g[0][k], {})
      <3> SUFFICES ASSUME NEW k \in Parts PROVE Grown(a[k], g[0][k], {})
        OBVIOUS
      <3>1. g[0][k] = a[k]
        BY <1>2, <1>4
      <3>2. Grown(a[k], a[k], {})
        BY GrownNot
      <3> QED
        BY <3>1, <3>2
    <2>3. \A k \in Parts : Grown(a[k], g[0][k], Sofar(0, k))
      <3> HIDE DEF Sofar
      <3> QED
        BY <2>1, <2>2
    <2> QED
      BY <1>2, <1>4, <2>3
  <1>6. ASSUME NEW n \in Nat, n + 1 <= N, P(n) PROVE P(n + 1)
    <2>2. P(n)
      BY <1>6
    <2>3. PICK d, x, y : d = decls[n + 1] /\ x = g[n] /\ y = g[n + 1] /\ y = Visit(x, d)
                         /\ d \in Declaration
      <3>1. n + 1 \in 1 .. N /\ (n + 1) - 1 = n
        BY <1>6
      <3> QED
        BY <1>1, <1>4, <3>1
    <2>31. IsAbigen(x)
      BY <2>2, <2>3
    <2>4. /\ IsAbigen(y) /\ y.clauses = x.clauses
          /\ d.mine => \A k \in Parts : Grown(x[k], y[k], New(k, d))
          /\ ~d.mine => y = x
      BY <2>3, <2>31, VisitGrows
    <2>5. ASSUME NEW k \in Parts PROVE Grown(a[k], y[k], Sofar(n + 1, k))
      <3>1. Grown(a[k], x[k], Sofar(n, k))
        BY <2>2, <2>3
      <3>2. CASE d.mine
        <4>1. Sofar(n + 1, k) = Sofar(n, k) \union New(k, d)
          <5>1. {j \in 1 .. n + 1 : decls[j].mine} = {j \in 1 .. n : decls[j].mine} \union {n + 1}
            BY <2>3, <3>2
          <5>2. {decls[i] : i \in {j \in 1 .. n + 1 : decls[j].mine}}
                = {decls[i] : i \in {j \in 1 .. n : decls[j].mine}} \union {d}
            BY <2>3, <5>1
          <5> QED
            BY <5>2
        <4>2. PICK A : A = Sofar(n, k)
          OBVIOUS
        <4> HIDE DEF Sofar
        <4>3. Grown(a[k], y[k], A \union New(k, d))
          BY <2>4, <3>1, <3>2, <4>2, GrownTwice
        <4> QED
          BY <4>1, <4>2, <4>3
      <3>3. CASE ~d.mine
        <4>1. {j \in 1 .. n + 1 : decls[j].mine} = {j \in 1 .. n : decls[j].mine}
          BY <2>3, <3>3
        <4>2. Sofar(n + 1, k) = Sofar(n, k)
          BY <4>1
        <4> QED
          BY <2>4, <3>1, <3>3, <4>2
      <3> QED
        BY <3>2, <3>3
    <2> QED
      BY <2>2, <2>3, <2>4, <2>5
  <1>7. P(N)
    <2> HIDE DEF P
    <2> DEFINE T == {n \in Nat : n <= N => P(n)}
    <2>1. 0 \in T
      BY <1>5
    <2>2. ASSUME NEW n \in Nat, n \in T PROVE n + 1 \in T
      BY <1>1, <1>6, <2>2
    <2>3. Nat \subseteq T
      <3> HIDE DEF T
      <3> QED
        BY <2>1, <2>2, NaturalInduction
    <2>4. N \in T /\ N <= N
      BY <1>1, <2>3
    <2> QED
      BY <2>4
  <1>8. ASSUME NEW k \in Parts PROVE Sofar(N, k) = Added({s}, k)
    <2>1. {decls[i] : i \in {j \in 1 .. N : decls[j].mine}} = Mine(s)
      BY <1>1 DEF Mine, ToSet
    <2>2. UNION {Mine(r) : r \in {s}} = Mine(s)
      OBVIOUS
    <2> QED
      BY <2>1, <2>2 DEF Added
  <1> QED
    <2> HIDE DEF Sofar
    <2> QED
      BY <1>2, <1>3, <1>7, <1>8

(* a holds what the sources in S add to an empty abigen *)
Collects(a, S) == IsAbigen(a) /\ \A k \in Parts : Grown({}, a[k], Added(S, k))

(* A new abigen holds nothing. *)
LEMMA CollectsNothing == Collects(NewAbigen, {})
  <1>1. \A k \in Parts : Added({}, k) = {} /\ NewAbigen[k] = {}
    BY DEF Added, Parts, NewAbigen
  <1>2. IsAbigen(NewAbigen)
    BY DEF IsAbigen, NewAbigen
  <1>3. Grown({}, {}, {})
    BY GrownNot
  <1> QED
    BY <1>1, <1>2, <1>3 DEF Collects

(* Visiting one more source adds what it declares to what is there. *)
LEMMA CollectsMore ==
    ASSUME NEW a, NEW S, Collects(a, S), NEW s \in DOMAIN Decls, NEW b, b = VisitAll(a, s)
    PROVE  /\ Collects(b, S \union {s})
           /\ b.clauses = IF Decls[s] = <<>> THEN a.clauses ELSE a.clauses \o Clauses
           /\ \A k \in Parts : a[k] \subseteq b[k]
  <1>1. /\ IsAbigen(b)
        /\ b.clauses = IF Decls[s] = <<>> THEN a.clauses ELSE a.clauses \o Clauses
        /\ \A k \in Parts : Grown(a[k], b[k], Added({s}, k))
    BY VisitAllGrows DEF Collects
  <1>2. ASSUME NEW k \in Parts PROVE Grown({}, b[k], Added(S \union {s}, k)) /\ a[k] \subseteq b[k]
    <2>1. Added(S \union {s}, k) = Added(S, k) \union Added({s}, k)
      BY DEF Added
    <2>2. Grown({}, a[k], Added(S, k)) /\ Grown(a[k], b[k], Added({s}, k))
      BY <1>1 DEF Collects
    <2>3. PICK A, B : A = Added(S, k) /\ B = Added({s}, k)
      OBVIOUS
    <2>4. Grown({}, b[k], A \union B)
      BY <2>2, <2>3, GrownTwice
    <2> QED
      BY <2>1, <2>2, <2>3, <2>4 DEF Grown
  <1> QED
    BY <1>1, <1>2 DEF Collects

(* Facts about one that collects *)
LEMMA CollectedFacts ==
    ASSUME NEW a, NEW S, Collects(a, S), NEW k \in Parts
    PROVE  /\ NamesUnique(a[k]) /\ a[k] \subseteq Added(S, k)
           /\ \A o \in Added(S, k) : \E z \in a[k] : z.name = o.name
  BY DEF Collects, Grown, NamesUnique

(* The tables to_json writes are some of those collected, one of each name   *)
(* (abigen.hpp:376-391).                                                     *)
LEMMA TablesFacts ==
    ASSUME NEW a, NEW S, Collects(a, S)
    PROVE  /\ NamesUnique(set_of_tables(a)) /\ a.tables \subseteq set_of_tables(a)
           /\ set_of_tables(a) \subseteq a.tables \union a.ctables
  <1>1. NamesUnique(a.tables)
    BY CollectedFacts DEF Parts
  <1>2. PICK C : C = {t \in a.ctables : \A u \in a.tables : t.def # u.def}
    OBVIOUS
  <1>3. set_of_tables(a) = Insert(a.tables, C)
    BY <1>2 DEF set_of_tables
  <1>4. Grown(a.tables, Insert(a.tables, C), C)
    BY InsertGrown
  <1> QED
    BY <1>1, <1>2, <1>3, <1>4 DEF Grown

(* Fields that differ make a list without repetitions. *)
LEMMA FieldsNoRepeat ==
    ASSUME NEW uses \in Seq(Member), IsInjective(Fields(uses))
    PROVE  NoRepeat(Fields(uses))
  <1>1. DOMAIN uses = 1 .. Len(uses) /\ Len(uses) \in Nat
    OBVIOUS
  <1>2. PICK l : l = Fields(uses)
    OBVIOUS
  <1>3. l = [i \in 1 .. Len(uses) |-> [name |-> uses[i].name, type |-> Ref(uses[i].type)]]
    BY <1>1, <1>2 DEF Fields
  <1>4. Len(l) = Len(uses) /\ l = [i \in 1 .. Len(l) |-> l[i]] /\ DOMAIN l = 1 .. Len(uses)
    BY <1>1, <1>3
  <1> QED
    BY <1>1, <1>2, <1>4 DEF NoRepeat, IsInjective

(* The declarations visited are well typed. *)
LEMMA DeclarationFacts ==
    ASSUME NEW S, S \subseteq DOMAIN Decls, NEW d \in UNION {Mine(s) : s \in S}
    PROVE  /\ d \in Declaration /\ d.mine /\ d.kind \in {"action", "table", "index"}
           /\ d.kind = "action" => d.params \in Seq(Member)
           /\ d.kind # "action" => d.type \in DOMAIN Types
           /\ \E s \in S : d \in ToSet(Decls[s])
  <1>1. PICK s \in S : d \in ToSet(Decls[s]) /\ d.mine
    BY DEF Mine
  <1>2. Decls[s] \in Seq(Declaration)
    BY DeclsAssumption
  <1>3. d \in Declaration
    BY <1>1, <1>2 DEF ToSet
  <1> QED
    BY <1>1, <1>3 DEF Declaration

(* The types a declaration reaches are closed under what they use. *)
LEMMA ReachFacts ==
    ASSUME NEW ts, ts \subseteq DOMAIN Types
    PROVE  /\ Reach(ts) \subseteq DOMAIN Types /\ ts \subseteq Reach(ts)
           /\ \A t \in Reach(ts) : Uses(t) \subseteq Reach(ts) /\ ReachedFrom[t] \subseteq Reach(ts)
  <1> DEFINE closed == {R \in SUBSET DOMAIN Types : \A t \in R : Uses(t) \subseteq R}
  <1>1. \A t \in DOMAIN Types :
           ReachedFrom[t] = {u \in DOMAIN Types : \A R \in closed : t \in R => u \in R}
    BY DEF ReachedFrom
  <1>2. \A t \in DOMAIN Types : Uses(t) \subseteq DOMAIN Types
    <2> SUFFICES ASSUME NEW t \in DOMAIN Types PROVE Uses(t) \subseteq DOMAIN Types
      OBVIOUS
    <2>1. Types[t].base \subseteq DOMAIN Types /\ Types[t].uses \in Seq(Member)
      BY TypesAssumption
    <2>2. \A u \in ToSet(Types[t].uses) : u \in Member
      BY <2>1 DEF ToSet
    <2>3. \A u \in Member : u.type \in DOMAIN Types
      BY DEF Member
    <2> QED
      BY <2>1, <2>2, <2>3 DEF Uses
  <1>3. \A R \in closed : \A t \in R : Uses(t) \subseteq R
    OBVIOUS
  <1> HIDE DEF closed
  <1>4. /\ Reach(ts) \subseteq DOMAIN Types /\ ts \subseteq Reach(ts)
    BY <1>1 DEF Reach
  <1>5. ASSUME NEW t \in Reach(ts)
        PROVE  Uses(t) \subseteq Reach(ts) /\ ReachedFrom[t] \subseteq Reach(ts)
    <2>1. PICK r \in ts : t \in ReachedFrom[r]
      BY DEF Reach
    <2>2. t \in DOMAIN Types /\ \A R \in closed : r \in R => t \in R
      BY <1>1, <2>1
    <2>3. ASSUME NEW u \in Uses(t) PROVE u \in ReachedFrom[r]
      BY <1>1, <1>2, <1>3, <2>2
    <2>4. ASSUME NEW u \in ReachedFrom[t] PROVE u \in ReachedFrom[r]
      BY <1>1, <2>2
    <2> QED
      BY <2>3, <2>4 DEF Reach
  <1> QED
    BY <1>4, <1>5

(* A declaration starts from types that exist. *)
LEMMA RootsTyped ==
    ASSUME NEW d \in Declaration
    PROVE  Roots(d) \subseteq DOMAIN Types
  <1>1. CASE d.kind = "action"
    <2>1. d.params \in Seq(Member)
      BY <1>1 DEF Declaration
    <2>2. \A u \in ToSet(d.params) : u \in Member
      BY <2>1 DEF ToSet
    <2>3. \A u \in Member : u.type \in DOMAIN Types
      BY DEF Member
    <2> QED
      BY <1>1, <2>2, <2>3 DEF Roots
  <1>2. CASE d.kind # "action"
    BY <1>2 DEF Roots, Declaration
  <1> QED
    BY <1>1, <1>2

(* The ABI made of it has one object of a name, and no field twice. *)
LEMMA JsonWellFormed ==
    ASSUME FieldsDistinct, NEW a, NEW S, S \subseteq DOMAIN Decls, Collects(a, S)
    PROVE  WellFormed(to_json(a))
  <1>1. \A s \in Sections : NamesUnique(to_json(a).objects[s])
    <2>1. NamesUnique(a.structs) /\ NamesUnique(a.typedefs) /\ NamesUnique(a.actions)
          /\ NamesUnique(a.variants) /\ NamesUnique(set_of_tables(a))
      BY CollectedFacts, TablesFacts DEF Parts
    <2> QED
      BY <2>1, JsonSections DEF Sections, NamesUnique
  <1>2. ASSUME NEW x \in a.structs PROVE NoRepeat(x.def.fields)
    <2>1. x \in Added(S, "structs")
      BY CollectedFacts DEF Parts
    <2>2. PICK d \in UNION {Mine(s) : s \in S} : x \in New("structs", d)
      BY <2>1 DEF Added
    <2>3. /\ d.kind = "action" => d.params \in Seq(Member)
          /\ d \in Declaration
          /\ \E s \in S : d \in ToSet(Decls[s])
      BY DeclarationFacts
    <2>4. CASE d.kind = "action" /\ x = ParamStruct(d)
      <3>1. IsInjective(Fields(d.params))
        BY <2>3, <2>4 DEF FieldsDistinct
      <3>2. x.def.fields = Fields(d.params)
        BY <2>4 DEF ParamStruct
      <3> QED
        BY <2>3, <2>4, <3>1, <3>2, FieldsNoRepeat
    <2>5. CASE \E t \in OfKind("struct", Roots(d)) : x = StructOf(t)
      <3>1. PICK t \in OfKind("struct", Roots(d)) : x = StructOf(t)
        BY <2>5
      <3>2. t \in DOMAIN Types /\ Types[t].kind = "struct"
        BY <2>3, ReachFacts, RootsTyped DEF OfKind
      <3>3. IsInjective(Fields(Types[t].uses)) /\ Types[t].uses \in Seq(Member)
        BY <3>2, TypesAssumption DEF FieldsDistinct
      <3>4. x.def.fields = Fields(Types[t].uses)
        BY <3>1 DEF StructOf
      <3> QED
        BY <3>3, <3>4, FieldsNoRepeat
    <2> QED
      BY <2>2, <2>4, <2>5 DEF New
  <1> QED
    BY <1>1, <1>2, JsonSections DEF WellFormed

-----------------------------------------------------------------------------
(* Nothing that is referred to is left out *)

(* n is the name of a type that a has, or of a built-in one *)
Known(a, n) ==
    is_builtin_type(n) \/ \E x \in a.structs \union a.typedefs \union a.variants : x.name = n

(* n is the name of a struct that a has. *)
KnownStruct(a, n) == \E x \in a.structs : x.name = n

(* Before to_json drops anything, all that is referred to is there. *)
Complete(a) ==
    /\ \A x \in a.structs : \A f \in ToSet(x.def.fields) : Known(a, f.type.name)
    /\ \A x \in a.structs : \A n \in x.def.base : KnownStruct(a, n)
    /\ \A td \in a.typedefs : Known(a, td.def.name)
    /\ \A x \in a.actions \union a.tables \union a.ctables : KnownStruct(a, x.def)

(* Every type a visited declaration reaches is in the abigen, or built in    *)
(* (abigen.hpp:255-277).                                                     *)
LEMMA ReachedKnown ==
    ASSUME NamesResolve, NEW a, NEW S, S \subseteq DOMAIN Decls, Collects(a, S),
           NEW d \in UNION {Mine(s) : s \in S}, NEW t \in Reach(Roots(d))
    PROVE  /\ Known(a, Types[t].name)
           /\ Types[t].kind = "struct" => KnownStruct(a, Types[t].name)
  <1>1. Roots(d) \subseteq DOMAIN Types
    BY DeclarationFacts, RootsTyped
  <1>2. ASSUME NEW u \in Reach(Roots(d)), Types[u].kind # "container"
        PROVE  /\ Known(a, Types[u].name)
               /\ Types[u].kind = "struct" => KnownStruct(a, Types[u].name)
    <2>1. u \in DOMAIN Types
      BY <1>1, ReachFacts
    <2>2. Types[u].kind \in {"builtin", "struct", "variant", "alias"}
      BY <1>2, <2>1, TypesAssumption DEF Kinds
    <2>3. CASE Types[u].kind = "builtin"
      BY <2>1, <2>3 DEF Known, is_builtin_type
    <2>4. CASE Types[u].kind = "struct"
      <3>1. StructOf(u) \in New("structs", d)
        BY <2>4 DEF New, OfKind
      <3>2. StructOf(u) \in Added(S, "structs")
        BY <3>1 DEF Added
      <3>3. \E z \in a.structs : z.name = StructOf(u).name
        BY <3>2, CollectedFacts DEF Parts
      <3> QED
        BY <3>3 DEF StructOf, Known, KnownStruct
    <2>5. CASE Types[u].kind = "variant"
      <3>1. VariantOf(u) \in New("variants", d)
        BY <2>5 DEF New, OfKind
      <3>2. VariantOf(u) \in Added(S, "variants")
        BY <3>1 DEF Added
      <3>3. \E z \in a.variants : z.name = VariantOf(u).name
        BY <3>2, CollectedFacts DEF Parts
      <3> QED
        BY <2>5, <3>3 DEF VariantOf, Known
    <2>6. CASE Types[u].kind = "alias"
      <3>1. TypedefOf(u) \in New("typedefs", d)
        BY <2>6 DEF New, OfKind
      <3>2. TypedefOf(u) \in Added(S, "typedefs")
        BY <3>1 DEF Added
      <3>3. \E z \in a.typedefs : z.name = TypedefOf(u).name
        BY <3>2, CollectedFacts DEF Parts
      <3> QED
        BY <2>6, <3>3 DEF TypedefOf, Known
    <2> QED
      BY <2>2, <2>3, <2>4, <2>5, <2>6
  <1>3. CASE Types[t].kind # "container"
    BY <1>2, <1>3
  <1>4. CASE Types[t].kind = "container"
    <2>1. t \in DOMAIN Types /\ ReachedFrom[t] \subseteq Reach(Roots(d))
      BY <1>1, ReachFacts
    <2>2. PICK u \in ReachedFrom[t] : Types[u].kind # "container" /\ Types[u].name = Types[t].name
      BY <1>4, <2>1 DEF NamesResolve
    <2>3. Known(a, Types[u].name)
      BY <1>2, <2>1, <2>2
    <2> QED
      BY <1>4, <2>2, <2>3
  <1> QED
    BY <1>3, <1>4

(* the names of the types of a list of fields *)
LEMMA FieldName ==
    ASSUME NEW uses \in Seq(Member), NEW f \in ToSet(Fields(uses))
    PROVE  \E u \in ToSet(uses) : f.type.name = Types[u.type].name
  BY DEF Fields, ToSet, Ref

(* What abigen holds refers to nothing it does not hold. *)
LEMMA CollectsComplete ==
    ASSUME NamesResolve, NEW a, NEW S, S \subseteq DOMAIN Decls, Collects(a, S)
    PROVE  Complete(a)
  <1>1. ASSUME NEW d \in UNION {Mine(s) : s \in S}, NEW t \in Reach(Roots(d))
        PROVE  /\ t \in DOMAIN Types /\ Types[t].uses \in Seq(Member)
               /\ \A u \in ToSet(Types[t].uses) : u.type \in Reach(Roots(d))
               /\ Types[t].base \subseteq Reach(Roots(d))
    <2>1. Roots(d) \subseteq DOMAIN Types
      BY DeclarationFacts, RootsTyped
    <2>2. t \in DOMAIN Types /\ Uses(t) \subseteq Reach(Roots(d))
      BY <2>1, ReachFacts
    <2> QED
      BY <2>2, TypesAssumption DEF Uses
  <1>2. ASSUME NEW x \in a.structs
        PROVE  /\ \A f \in ToSet(x.def.fields) : Known(a, f.type.name)
               /\ \A n \in x.def.base : KnownStruct(a, n)
    <2>1. x \in Added(S, "structs")
      BY CollectedFacts DEF Parts
    <2>2. PICK d \in UNION {Mine(s) : s \in S} : x \in New("structs", d)
      BY <2>1 DEF Added
    <2>3. CASE d.kind = "action" /\ x = ParamStruct(d)
      <3>1. d.params \in Seq(Member)
        BY <2>3, DeclarationFacts
      <3>2. x.def.fields = Fields(d.params) /\ x.def.base = {}
        BY <2>3 DEF ParamStruct
      <3>3. ASSUME NEW f \in ToSet(x.def.fields) PROVE Known(a, f.type.name)
        <4>1. PICK u \in ToSet(d.params) : f.type.name = Types[u.type].name
          BY <3>1, <3>2, FieldName
        <4>2. u.type \in Roots(d)
          BY <2>3 DEF Roots
        <4>3. Roots(d) \subseteq Reach(Roots(d))
          BY DeclarationFacts, RootsTyped, ReachFacts
        <4>4. Known(a, Types[u.type].name)
          BY <4>2, <4>3, ReachedKnown
        <4> QED
          BY <4>1, <4>4
      <3> QED
        BY <3>2, <3>3
    <2>4. CASE \E t \in OfKind("struct", Roots(d)) : x = StructOf(t)
      <3>1. PICK t \in Reach(Roots(d)) : x = StructOf(t) /\ Types[t].kind = "struct"
        BY <2>4 DEF OfKind
      <3>2. /\ x.def.fields = Fields(Types[t].uses)
            /\ x.def.base = {Types[b].name : b \in Types[t].base}
        BY <3>1 DEF StructOf
      <3>3. ASSUME NEW f \in ToSet(x.def.fields) PROVE Known(a, f.type.name)
        <4>1. PICK u \in ToSet(Types[t].uses) : f.type.name = Types[u.type].name
          BY <1>1, <3>2, FieldName
        <4>2. u.type \in Reach(Roots(d))
          BY <1>1
        <4>3. Known(a, Types[u.type].name)
          BY <4>2, ReachedKnown
        <4> QED
          BY <4>1, <4>3
      <3>4. ASSUME NEW b \in Types[t].base PROVE KnownStruct(a, Types[b].name)
        <4>1. b \in Reach(Roots(d)) /\ Types[b].kind = "struct"
          BY <1>1 DEF NamesResolve
        <4> QED
          BY <4>1, ReachedKnown
      <3> QED
        BY <3>2, <3>3, <3>4
    <2> QED
      BY <2>2, <2>3, <2>4 DEF New
  <1>3. ASSUME NEW x \in a.typedefs PROVE Known(a, x.def.name)
    <2>1. x \in Added(S, "typedefs")
      BY CollectedFacts DEF Parts
    <2>2. PICK d \in UNION {Mine(s) : s \in S} : x \in New("typedefs", d)
      BY <2>1 DEF Added
    <2>3. PICK t \in Reach(Roots(d)) : x = TypedefOf(t) /\ Types[t].kind = "alias"
      BY <2>2 DEF New, OfKind
    <2>4. Types[t].uses \in Seq(Member) /\ Types[t].uses # <<>>
      BY <1>1, <2>3 DEF NamesResolve
    <2>5. Types[t].uses[1] \in ToSet(Types[t].uses)
      BY <2>4 DEF ToSet
    <2>6. Types[t].uses[1].type \in Reach(Roots(d))
      BY <1>1, <2>5
    <2>7. PICK u : u = Types[t].uses[1].type
      OBVIOUS
    <2>8. Known(a, Types[u].name)
      BY <2>6, <2>7, ReachedKnown
    <2> QED
      BY <2>3, <2>7, <2>8 DEF TypedefOf, Ref
  <1>4. ASSUME NEW d \in UNION {Mine(s) : s \in S}, d.kind = "table"
        PROVE  KnownStruct(a, Types[d.type].name)
    <2>1. d.type \in Roots(d) /\ Types[d.type].kind = "struct"
      BY <1>4, DeclarationFacts DEF Roots, NamesResolve
    <2>2. d.type \in Reach(Roots(d))
      BY <2>1, DeclarationFacts, RootsTyped, ReachFacts
    <2> QED
      BY <2>1, <2>2, ReachedKnown
  <1>5. ASSUME NEW x \in a.actions PROVE KnownStruct(a, x.def)
    <2>1. x \in Added(S, "actions")
      BY CollectedFacts DEF Parts
    <2>2. PICK d \in UNION {Mine(s) : s \in S} : x \in New("actions", d)
      BY <2>1 DEF Added
    <2>3. d.kind = "action" /\ x.def = d.method
      BY <2>2 DEF New
    <2>4. ParamStruct(d) \in Added(S, "structs")
      BY <2>3 DEF Added, New
    <2>5. \E z \in a.structs : z.name = ParamStruct(d).name
      BY <2>4, CollectedFacts DEF Parts
    <2> QED
      BY <2>3, <2>5 DEF ParamStruct, KnownStruct
  <1>6. ASSUME NEW x \in a.ctables PROVE KnownStruct(a, x.def)
    <2>1. x \in Added(S, "ctables")
      BY CollectedFacts DEF Parts
    <2>2. PICK d \in UNION {Mine(s) : s \in S} : x \in New("ctables", d)
      BY <2>1 DEF Added
    <2>3. d.kind = "table" /\ x.def = Types[d.type].name
      BY <2>2 DEF New
    <2> QED
      BY <1>4, <2>3
  <1>7. ASSUME NEW x \in a.tables PROVE KnownStruct(a, x.def)
    <2>1. x \in Added(S, "tables")
      BY CollectedFacts DEF Parts
    <2>2. PICK s \in S : \E d \in Mine(s) : x \in New("tables", d)
      BY <2>1 DEF Added
    <2>3. PICK d \in ToSet(Decls[s]) : d.mine /\ x \in New("tables", d)
      BY <2>2 DEF Mine
    <2>4. d.kind = "index" /\ x.def = Types[d.type].name
      BY <2>3 DEF New
    <2>5. PICK e \in ToSet(Decls[s]) : e.kind = "table" /\ e.type = d.type /\ e.mine = d.mine
      <3>1. s \in DOMAIN Decls
        OBVIOUS
      <3> QED
        BY <2>4, <3>1, DeclsAssumption
    <2>6. e \in Mine(s)
      BY <2>3, <2>5 DEF Mine
    <2>7. e \in UNION {Mine(r) : r \in S}
      BY <2>6
    <2> QED
      BY <1>4, <2>4, <2>5, <2>7
  <1> QED
    BY <1>2, <1>3, <1>5, <1>6, <1>7 DEF Complete

(* All that is referred to is defined. *)
Closed(objects) == \A n \in References(objects) : n \in Defined(objects) \/ is_builtin_type(n)

(* to_json leaves out nothing that what it keeps refers to. *)
LEMMA JsonClosed ==
    ASSUME NEW a, Complete(a), set_of_tables(a) \subseteq a.tables \union a.ctables
    PROVE  Closed(to_json(a).objects)
  <1> DEFINE o == to_json(a).objects
  <1>1. /\ o["structs"] = {s \in a.structs : validate_struct(a, s)}
        /\ o["types"] = {s \in a.typedefs : validate_types(a, s)}
        /\ o["actions"] = a.actions
        /\ o["tables"] = set_of_tables(a)
        /\ o["variants"] = a.variants
    BY JsonSections
  <1> HIDE DEF o
  <1>2. ASSUME NEW x \in a.structs, ~is_builtin_type(x.name),
               \/ x.name \in FieldNames(a.structs)
               \/ \E s \in a.structs : x.name \in s.def.base
               \/ \E v \in a.actions \union set_of_tables(a) : x.name = v.def
               \/ \E td \in a.typedefs : x.name = remove_suffix(td.def)
        PROVE  x.name \in Defined(o)
    BY <1>1, <1>2 DEF validate_struct, Defined
  <1>3. ASSUME NEW x \in a.typedefs,
               \/ x.name \in FieldNames(o["structs"])
               \/ \E td \in a.typedefs : remove_suffix(td.def) = x.name
        PROVE  x.name \in Defined(o)
    BY <1>1, <1>3 DEF validate_types, Defined
  <1>4. \A x \in a.variants : x.name \in Defined(o)
    BY <1>1 DEF Defined
  <1>5. ASSUME NEW n \in FieldNames(o["structs"]) PROVE n \in Defined(o) \/ is_builtin_type(n)
    <2>1. n \in FieldNames(a.structs) /\ Known(a, n)
      BY <1>1, <1>5 DEF FieldNames, remove_suffix, Complete
    <2> QED
      BY <1>2, <1>3, <1>4, <1>5, <2>1 DEF Known
  <1>6. ASSUME NEW n \in UNION {s.def.base : s \in o["structs"]}
        PROVE n \in Defined(o) \/ is_builtin_type(n)
    BY <1>1, <1>2 DEF Complete, KnownStruct
  <1>7. ASSUME NEW td \in o["types"]
        PROVE remove_suffix(td.def) \in Defined(o) \/ is_builtin_type(remove_suffix(td.def))
    <2>1. td \in a.typedefs /\ Known(a, remove_suffix(td.def))
      BY <1>1 DEF Complete, remove_suffix
    <2> QED
      BY <1>2, <1>3, <1>4, <2>1 DEF Known
  <1>8. ASSUME NEW v \in o["actions"] \union o["tables"]
        PROVE v.def \in Defined(o) \/ is_builtin_type(v.def)
    BY <1>1, <1>2 DEF Complete, KnownStruct
  <1> QED
    BY <1>5, <1>6, <1>7, <1>8 DEF Closed, References, o

(* ... and the merge keeps it so. *)
LEMMA MergeClosed ==
    ASSUME NEW abis, Len(abis) \in Nat \ {0}, \A i \in 1 .. Len(abis) : Closed(abis[i].objects)
    PROVE  Closed(writeABI(abis).objects)
  <1> DEFINE w == writeABI(abis).objects
  <1>1. /\ \A s \in Sections : \A x \in w[s] : \E i \in 1 .. Len(abis) : x \in abis[i].objects[s]
        /\ \A s \in Sections : \A i \in 1 .. Len(abis) : \A x \in abis[i].objects[s] :
              \E z \in w[s] : z.name = x.name
    <2> SUFFICES ASSUME NEW s \in Sections
                 PROVE  /\ \A x \in w[s] : \E i \in 1 .. Len(abis) : x \in abis[i].objects[s]
                        /\ \A i \in 1 .. Len(abis) : \A x \in abis[i].objects[s] :
                              \E z \in w[s] : z.name = x.name
      OBVIOUS
    <2>1. /\ \A x \in w[s] : \E i \in 1 .. Len(abis) : x \in abis[i].objects[s]
          /\ \A i \in 1 .. Len(abis) : \A x \in abis[i].objects[s] : Stands(writeABI(abis), s, x)
      BY MergedFacts
    <2> QED
      BY <2>1 DEF Stands
  <1> HIDE DEF w
  <1>2. ASSUME NEW i \in 1 .. Len(abis), NEW n \in Defined(abis[i].objects) PROVE n \in Defined(w)
    BY <1>1 DEF Defined, Sections
  <1>3. ASSUME NEW i \in 1 .. Len(abis), NEW n \in References(abis[i].objects)
        PROVE  n \in Defined(w) \/ is_builtin_type(n)
    BY <1>2 DEF Closed
  <1>4. ASSUME NEW n \in References(w)
        PROVE  \E i \in 1 .. Len(abis) : n \in References(abis[i].objects)
    <2>1. ASSUME NEW x \in w["structs"],
                 n \in {remove_suffix(f.type) : f \in ToSet(x.def.fields)} \union x.def.base
          PROVE  \E i \in 1 .. Len(abis) : n \in References(abis[i].objects)
      <3>1. PICK i \in 1 .. Len(abis) : x \in abis[i].objects["structs"]
        BY <1>1 DEF Sections
      <3>2. n \in References(abis[i].objects)
        BY <2>1, <3>1 DEF References, FieldNames
      <3> QED
        BY <3>2
    <2>2. ASSUME NEW x \in w["types"], n = remove_suffix(x.def)
          PROVE  \E i \in 1 .. Len(abis) : n \in References(abis[i].objects)
      <3>1. PICK i \in 1 .. Len(abis) : x \in abis[i].objects["types"]
        BY <1>1 DEF Sections
      <3>2. n \in References(abis[i].objects)
        BY <2>2, <3>1 DEF References
      <3> QED
        BY <3>2
    <2>3. ASSUME NEW k \in {"actions", "tables"}, NEW x \in w[k], n = x.def
          PROVE  \E i \in 1 .. Len(abis) : n \in References(abis[i].objects)
      <3>1. PICK i \in 1 .. Len(abis) : x \in abis[i].objects[k]
        BY <1>1 DEF Sections
      <3>2. n \in References(abis[i].objects)
        BY <2>3, <3>1 DEF References
      <3> QED
        BY <3>2
    <2>4. \/ \E x \in w["structs"] :
                n \in {remove_suffix(f.type) : f \in ToSet(x.def.fields)} \union x.def.base
          \/ \E x \in w["types"] : n = remove_suffix(x.def)
          \/ \E k \in {"actions", "tables"} : \E x \in w[k] : n = x.def
      BY <1>4 DEF References, FieldNames
    <2> QED
      BY <2>1, <2>2, <2>3, <2>4
  <1> QED
    BY <1>3, <1>4 DEF Closed, w

-----------------------------------------------------------------------------
(* The ABIs of the objects, one after the other *)

(* The rounds of FlattenSeq *)
FlattenRounds(g, seqs, k) ==
    g = [i \in 1 .. k |-> IF i = 1 THEN seqs[i] ELSE g[i - 1] \o seqs[i]]

(* Flattening has a value for every number of lists. *)
LEMMA FlattenRoundsExist ==
    ASSUME NEW seqs, NEW k \in Nat
    PROVE  \E g : FlattenRounds(g, seqs, k)
  <1> DEFINE T == {m \in Nat : \E g : FlattenRounds(g, seqs, m)}
  <1>1. 0 \in T
    <2>1. FlattenRounds([n \in 1 .. 0 |-> {}], seqs, 0)
      BY DEF FlattenRounds
    <2> QED
      BY <2>1
  <1>2. ASSUME NEW m \in Nat, m \in T PROVE m + 1 \in T
    <2>1. PICK g : FlattenRounds(g, seqs, m)
      BY <1>2
    <2>2. PICK x : x = IF m = 0 THEN seqs[1] ELSE g[m] \o seqs[m + 1]
      OBVIOUS
    <2> DEFINE h == [n \in 1 .. m + 1 |-> IF n \in 1 .. m THEN g[n] ELSE x]
    <2>3. ASSUME NEW n \in 1 .. m + 1
          PROVE  h[n] = IF n = 1 THEN seqs[n] ELSE h[n - 1] \o seqs[n]
      <3>1. CASE n \in 1 .. m
        <4>1. g[n] = IF n = 1 THEN seqs[n] ELSE g[n - 1] \o seqs[n]
          BY <2>1, <3>1 DEF FlattenRounds
        <4>2. h[n] = g[n] /\ (n # 1 => h[n - 1] = g[n - 1])
          BY <3>1
        <4> HIDE DEF h
        <4> QED
          BY <4>1, <4>2
      <3>2. CASE n = m + 1
        <4>1. h[n] = x /\ (n # 1 => h[n - 1] = g[m]) /\ (n = 1 <=> m = 0)
          BY <3>2
        <4> HIDE DEF h
        <4> QED
          BY <2>2, <3>2, <4>1
      <3> QED
        BY <3>1, <3>2
    <2>4. FlattenRounds(h, seqs, m + 1)
      BY <2>3 DEF FlattenRounds
    <2> QED
      BY <2>4
  <1>3. Nat \subseteq T
    <2> HIDE DEF T
    <2> QED
      BY <1>1, <1>2, NaturalInduction
  <1> QED
    BY <1>3

(* l has the members of the first n sequences, and ends as the last of them   *)
(* that is not empty.                                                         *)
Flat(l, seqs, n, S) ==
    /\ l \in Seq(S)
    /\ \A x \in ToSet(l) : \E i \in 1 .. n : x \in ToSet(seqs[i])
    /\ \A i \in 1 .. n : ToSet(seqs[i]) \subseteq ToSet(l)
    /\ \A i \in 1 .. n : seqs[i] # <<>> /\ (\A j \in i + 1 .. n : seqs[j] = <<>>) =>
          Last(l) = Last(seqs[i])

(* A flattened list has the members of the lists, and ends with the last     *)
(* member of the last list that is not empty.                                *)
LEMMA FlattenFacts ==
    ASSUME NEW S, NEW seqs \in Seq(Seq(S))
    PROVE  Flat(FlattenSeq(seqs), seqs, Len(seqs), S)
  <1> DEFINE N == Len(seqs)
  <1>1. N \in Nat /\ \A i \in 1 .. N : seqs[i] \in Seq(S)
    OBVIOUS
  <1>2. CASE N = 0
    <2>1. seqs = <<>>
      BY <1>2
    <2>2. FlattenSeq(seqs) = <<>>
      BY <2>1 DEF FlattenSeq
    <2> QED
      BY <1>2, <2>2 DEF Flat, ToSet
  <1>3. CASE N > 0
    <2>1. PICK g : FlattenRounds(g, seqs, N) /\ FlattenSeq(seqs) = g[N]
      <3>1. \E g : FlattenRounds(g, seqs, N)
        BY <1>1, FlattenRoundsExist
      <3>2. FlattenSeq(seqs) = (CHOOSE g : FlattenRounds(g, seqs, N))[N]
        BY <1>3 DEF FlattenSeq, FlattenRounds
      <3> QED
        BY <3>1, <3>2
    <2>2. g[1] = seqs[1] /\ \A n \in 2 .. N : g[n] = g[n - 1] \o seqs[n]
      <3>1. \A n \in 1 .. N : g[n] = IF n = 1 THEN seqs[n] ELSE g[n - 1] \o seqs[n]
        <4> HIDE DEF N
        <4> QED
          BY <2>1 DEF FlattenRounds
      <3>2. 1 \in 1 .. N /\ \A n \in 2 .. N : n \in 1 .. N /\ n # 1
        BY <1>1, <1>3
      <3>3. g[1] = seqs[1]
        BY <3>1, <3>2
      <3> QED
        BY <3>1, <3>2, <3>3
    <2>3. Flat(g[1], seqs, 1, S)
      <3>1. g[1] \in Seq(S)
        BY <1>1, <1>3, <2>2
      <3> QED
        BY <2>2, <3>1 DEF Flat
    <2>4. ASSUME NEW n \in Nat \ {0}, n + 1 <= N, Flat(g[n], seqs, n, S)
          PROVE  Flat(g[n + 1], seqs, n + 1, S)
      <3>1. PICK a, b, c : a = g[n] /\ b = seqs[n + 1] /\ c = g[n + 1]
        OBVIOUS
      <3>2. c = a \o b /\ a \in Seq(S) /\ b \in Seq(S)
        <4>1. n + 1 \in 2 .. N /\ (n + 1) - 1 = n /\ n + 1 \in 1 .. N
          BY <1>1, <2>4
        <4> QED
          BY <1>1, <2>2, <2>4, <3>1, <4>1 DEF Flat
      <3>3. c \in Seq(S) /\ Len(c) = Len(a) + Len(b)
        BY <3>2
      <3>4. ToSet(c) = ToSet(a) \union ToSet(b)
        <4>1. ASSUME NEW i \in 1 .. Len(c) PROVE c[i] \in ToSet(a) \union ToSet(b)
          BY <3>2, <3>3 DEF ToSet
        <4>2. ASSUME NEW i \in 1 .. Len(a) PROVE a[i] \in ToSet(c)
          <5>1. c[i] = a[i] /\ i \in DOMAIN c
            BY <3>2, <3>3
          <5> QED
            BY <5>1 DEF ToSet
        <4>3. ASSUME NEW i \in 1 .. Len(b) PROVE b[i] \in ToSet(c)
          <5>1. c[Len(a) + i] = b[i] /\ Len(a) + i \in DOMAIN c
            BY <3>2, <3>3
          <5> QED
            BY <5>1 DEF ToSet
        <4>4. DOMAIN a = 1 .. Len(a) /\ DOMAIN b = 1 .. Len(b) /\ DOMAIN c = 1 .. Len(c)
          BY <3>2, <3>3
        <4> QED
          BY <4>1, <4>2, <4>3, <4>4 DEF ToSet
      <3>5. ASSUME NEW x \in ToSet(c) PROVE \E i \in 1 .. n + 1 : x \in ToSet(seqs[i])
        BY <2>4, <3>1, <3>4 DEF Flat
      <3>6. ASSUME NEW i \in 1 .. n + 1 PROVE ToSet(seqs[i]) \subseteq ToSet(c)
        <4>1. CASE i = n + 1
          BY <3>1, <3>4, <4>1
        <4>2. CASE i \in 1 .. n
          BY <2>4, <3>1, <3>4, <4>2 DEF Flat
        <4> QED
          BY <4>1, <4>2
      <3>7. ASSUME NEW i \in 1 .. n + 1, seqs[i] # <<>>, \A j \in i + 1 .. n + 1 : seqs[j] = <<>>
            PROVE  Last(c) = Last(seqs[i])
        <4>1. CASE i = n + 1
          <5>1. b # <<>> /\ Len(b) > 0
            BY <3>1, <3>2, <3>7, <4>1
          <5>2. c[Len(c)] = b[Len(b)]
            BY <3>2, <3>3, <5>1
          <5> QED
            BY <3>1, <4>1, <5>2 DEF Last
        <4>2. CASE i \in 1 .. n
          <5>1. n + 1 \in i + 1 .. n + 1
            BY <4>2
          <5>2. b = <<>>
            BY <3>1, <3>7, <5>1
          <5>3. c = a
            BY <3>2, <5>2
          <5>4. \A j \in i + 1 .. n : seqs[j] = <<>>
            BY <3>7
          <5> QED
            BY <2>4, <3>1, <3>7, <4>2, <5>3, <5>4 DEF Flat
        <4> QED
          BY <4>1, <4>2
      <3> QED
        BY <3>1, <3>3, <3>5, <3>6, <3>7 DEF Flat
    <2>5. Flat(g[N], seqs, N, S)
      <3> DEFINE T == {m \in Nat : m + 1 <= N => Flat(g[m + 1], seqs, m + 1, S)}
      <3>1. 0 \in T
        BY <2>3
      <3>2. ASSUME NEW m \in Nat, m \in T PROVE m + 1 \in T
        <4>1. m + 1 \in Nat \ {0}
          OBVIOUS
        <4> QED
          BY <1>1, <2>4, <3>2, <4>1
      <3>3. Nat \subseteq T
        <4> HIDE DEF T
        <4> QED
          BY <3>1, <3>2, NaturalInduction
      <3>4. N - 1 \in Nat /\ (N - 1) + 1 = N
        BY <1>1, <1>3
      <3>5. N - 1 \in T
        <4> HIDE DEF T
        <4> QED
          BY <3>3, <3>4
      <3> QED
        BY <1>1, <3>4, <3>5
    <2> QED
      BY <2>1, <2>5
  <1> QED
    BY <1>1, <1>2, <1>3

-----------------------------------------------------------------------------
(* What processes and files hold of ABIs *)

(* The first n inputs of a command *)
Upto(c, n) == {c.inputs[i] : i \in 1 .. n}

(* The ABI codegen has when abigen holds a *)
AbisOf(a) == IF is_empty(a) THEN <<>> ELSE <<to_json(a)>>

(* The actions codegen knows after writing the copies of the first n inputs *)
NamesUpto(c, n) == {FullName(d) : d \in UNION {Actions(s) : s \in Upto(c, n) \ Library}}

(* Clauses come with each input that declares something. *)
ClausesAre(cl, c, n) ==
    /\ cl \in Seq(ToSet(Clauses))
    /\ (\A j \in 1 .. n : Decls[c.inputs[j]] = <<>>) => cl = <<>>
    /\ \A j \in 1 .. n :
          (/\ Decls[c.inputs[j]] # <<>>
           /\ \A i \in 1 .. n : i # j => Decls[c.inputs[i]] = <<>>) => cl = Clauses
    /\ Clauses # <<>> /\ (\E j \in 1 .. n : Decls[c.inputs[j]] # <<>>) => cl # <<>>

(* What abigen has collected from the first n inputs *)
CollectsUpto(a, c, n) == Collects(a, Upto(c, n)) /\ ClausesAre(a.clauses, c, n)

(* How many inputs abigen has visited, and how many codegen has written *)
Seen(l, n) == IF l = "abigen" THEN n - 1 ELSE n
Written(l, n) == IF l \in {"abigen", "codegen", "write"} THEN n - 1 ELSE n

(* abigen a and codegen g of a process that runs part l on input n *)
Carries(a, g, c, l, n) ==
    /\ CollectsUpto(a, c, Seen(l, n))
    /\ g.abis = AbisOf(a)
    /\ g.names = NamesUpto(c, Written(l, n))

(* What wasm-cpp may have generated from sources that exist *)
Generated(abi) == \E S \in SUBSET DOMAIN Decls : \E a : Collects(a, S) /\ abi = to_json(a)

(* A list of such ABIs *)
GeneratedList(l) ==
    Len(l) \in Nat /\ l = [i \in 1 .. Len(l) |-> l[i]] /\ \A i \in 1 .. Len(l) : Generated(l[i])

(* What may be in file f *)
FileOK(f, x) ==
    x # Absent =>
        /\ GeneratedList(x.abis)
        /\ f[1] = "abi" => x.abis # <<>> /\ writeABI(x.abis).ok
        /\ f[1] = "abigen_output" => x.abis # <<>>

(* The inductive invariant about what is generated *)
GenInv ==
    /\ ag = [p \in Procs |-> ag[p]]
    /\ cg = [p \in Procs |-> [abis |-> cg[p].abis, names |-> cg[p].names]]
    /\ \A p \in Procs : pc[p] = "idle" =>
          ag[p] = NewAbigen /\ cg[p] = [abis |-> <<>>, names |-> {}]
    /\ \A p \in Procs : Running(p) /\ cmd[p].tool = "wasm-cpp" =>
          Carries(ag[p], cg[p], cmd[p], pc[p], at[p])
    /\ \A f \in Paths : FileOK(f, files[f])

(* A step of process p that leaves its own abigen and codegen in order, and  *)
(* no file with an ABI that was not generated, keeps GenInv.                 *)
LEMMA GenStep ==
    ASSUME IInv, GenInv, NEW p \in Procs, Running(p), cmd' = cmd,
           NEW l \in Labels \ {"idle"}, NEW n,
           pc' = [pc EXCEPT ![p] = l], at' = [at EXCEPT ![p] = n],
           NEW a, ag' = [ag EXCEPT ![p] = a],
           NEW g, cg' = [cg EXCEPT ![p] = g], g = [abis |-> g.abis, names |-> g.names],
           l # "ended" /\ cmd[p].tool = "wasm-cpp" => Carries(a, g, cmd[p], l, n),
           \A f \in Paths : files'[f] = files[f] \/ FileOK(f, files'[f])
    PROVE  GenInv'
  <1>1. /\ pc'[p] = l /\ at'[p] = n /\ ag'[p] = a /\ cg'[p] = g
        /\ ag' = [q \in Procs |-> ag'[q]]
    BY DEF IInv, Shape, GenInv
  <1>2. \A q \in Procs : q # p => /\ pc'[q] = pc[q] /\ at'[q] = at[q]
                                  /\ ag'[q] = ag[q] /\ cg'[q] = cg[q]
    BY DEF IInv, Shape, GenInv
  <1>3. cg' = [q \in Procs |-> [abis |-> cg'[q].abis, names |-> cg'[q].names]]
    <2>1. \A q \in Procs : cg'[q] = [abis |-> cg'[q].abis, names |-> cg'[q].names]
      <3> TAKE q \in Procs
      <3>1. CASE q = p
        BY <1>1, <3>1
      <3>2. CASE q # p
        BY <1>2, <3>2 DEF GenInv
      <3> QED
        BY <3>1, <3>2
    <2>2. cg' = [q \in Procs |-> cg'[q]]
      BY DEF GenInv
    <2> QED
      BY <2>1, <2>2
  <1>4. ASSUME NEW q \in Procs, pc'[q] = "idle"
        PROVE  ag'[q] = NewAbigen /\ cg'[q] = [abis |-> <<>>, names |-> {}]
    BY <1>1, <1>2, <1>4 DEF GenInv
  <1>5. ASSUME NEW q \in Procs, pc'[q] \notin {"idle", "ended"}, cmd'[q].tool = "wasm-cpp"
        PROVE  Carries(ag'[q], cg'[q], cmd'[q], pc'[q], at'[q])
    <2>1. CASE q = p
      BY <1>1, <1>5, <2>1
    <2>2. CASE q # p
      BY <1>2, <1>5, <2>2 DEF GenInv, Running
    <2> QED
      BY <2>1, <2>2
  <1>6. \A f \in Paths : FileOK(f, files'[f])
    BY DEF GenInv
  <1> HIDE DEF GenInv
  <1>7. \A q \in Procs : Running(q)' => pc'[q] \notin {"idle", "ended"}
    BY DEF Running
  <1> QED
    BY <1>1, <1>3, <1>4, <1>5, <1>6, <1>7 DEF GenInv

(* Without tables in the ABI no table was collected. *)
LEMMA NoTables ==
    ASSUME NEW a, set_of_tables(a) = {}
    PROVE  a.tables = {} /\ a.ctables = {}
  <1>1. PICK C : C = {t \in a.ctables : \A u \in a.tables : t.def # u.def}
    OBVIOUS
  <1>2. Insert(a.tables, C) = {}
    BY <1>1 DEF set_of_tables
  <1>3. Grown(a.tables, {}, C)
    BY <1>2, InsertGrown
  <1>4. a.tables = {} /\ C = {}
    BY <1>3 DEF Grown
  <1> QED
    BY <1>1, <1>4

(* ... and the other way round. *)
LEMMA TablesNone ==
    ASSUME NEW a, a.tables = {}, a.ctables = {}
    PROVE  set_of_tables(a) = {}
  BY DEF set_of_tables, Insert

(* The ABI is set as soon as there is anything in it, and then by every input. *)
LEMMA EmptyBefore ==
    ASSUME NEW a, NEW b, NEW C, a.clauses \in Seq(C), Clauses \in Seq(C),
           b.clauses = a.clauses \/ b.clauses = a.clauses \o Clauses,
           \A k \in Parts : a[k] \subseteq b[k], is_empty(b)
    PROVE  is_empty(a)
  <1>1. /\ b.structs = {} /\ b.typedefs = {} /\ b.actions = {} /\ set_of_tables(b) = {}
        /\ b.clauses = <<>> /\ b.variants = {}
    BY DEF is_empty
  <1>2. b.tables = {} /\ b.ctables = {}
    BY <1>1, NoTables
  <1>3. /\ a.structs = {} /\ a.typedefs = {} /\ a.actions = {} /\ a.tables = {}
        /\ a.ctables = {} /\ a.variants = {}
    BY <1>1, <1>2 DEF Parts
  <1>4. a.clauses = <<>>
    <2>1. CASE b.clauses = a.clauses
      BY <1>1, <2>1
    <2>2. CASE b.clauses = a.clauses \o Clauses
      <3>1. Len(a.clauses \o Clauses) = Len(a.clauses) + Len(Clauses)
        OBVIOUS
      <3>2. Len(a.clauses) = 0
        BY <1>1, <2>2, <3>1
      <3> QED
        BY <3>2
    <2> QED
      BY <2>1, <2>2
  <1> QED
    BY <1>3, <1>4, TablesNone DEF is_empty

(* The clauses after one more input (wasm-cpp.cpp.in:80-84). *)
LEMMA ClausesNext ==
    ASSUME NEW cl, NEW c, NEW n \in Nat, ClausesAre(cl, c, n), NEW new,
           new = IF Decls[c.inputs[n + 1]] = <<>> THEN cl ELSE cl \o Clauses
    PROVE  ClausesAre(new, c, n + 1)
  <1> DEFINE C == ToSet(Clauses)
             None(i) == Decls[c.inputs[i]] = <<>>
  <1>1. Clauses \in Seq(C)
    BY ClausesAssumption DEF ToSet
  <1>2. /\ cl \in Seq(C)
        /\ (\A j \in 1 .. n : None(j)) => cl = <<>>
        /\ \A j \in 1 .. n : ~None(j) /\ (\A i \in 1 .. n : i # j => None(i)) => cl = Clauses
        /\ Clauses # <<>> /\ (\E j \in 1 .. n : ~None(j)) => cl # <<>>
    BY DEF ClausesAre
  <1>3. new = IF None(n + 1) THEN cl ELSE cl \o Clauses
    OBVIOUS
  <1> HIDE DEF C, None
  <1>4. new \in Seq(C)
    BY <1>1, <1>2, <1>3
  <1>5. (\A j \in 1 .. n + 1 : None(j)) => new = <<>>
    BY <1>2, <1>3
  <1>6. ASSUME NEW j \in 1 .. n + 1, ~None(j), \A i \in 1 .. n + 1 : i # j => None(i)
        PROVE  new = Clauses
    <2>1. CASE j = n + 1
      <3>1. cl = <<>>
        BY <1>2, <1>6, <2>1
      <3>2. new = <<>> \o Clauses
        BY <1>3, <1>6, <2>1, <3>1
      <3> QED
        BY <1>1, <3>2
    <2>2. CASE j \in 1 .. n
      BY <1>2, <1>3, <1>6, <2>2
    <2> QED
      BY <2>1, <2>2
  <1>7. ASSUME Clauses # <<>>, NEW j \in 1 .. n + 1, ~None(j)
        PROVE  new # <<>>
    <2>1. CASE None(n + 1)
      <3>1. j \in 1 .. n
        BY <1>7, <2>1
      <3> QED
        BY <1>2, <1>3, <1>7, <2>1, <3>1
    <2>2. CASE ~None(n + 1)
      <3>1. Len(new) = Len(cl) + Len(Clauses) /\ Len(Clauses) > 0
        BY <1>1, <1>2, <1>3, <1>7, <2>2
      <3>2. Len(cl) \in Nat
        BY <1>2
      <3>3. Len(new) # 0
        BY <3>1, <3>2
      <3>4. Len(<<>>) = 0
        OBVIOUS
      <3> QED
        BY <3>3, <3>4
    <2> QED
      BY <2>1, <2>2
  <1> QED
    BY <1>4, <1>5, <1>6, <1>7 DEF ClausesAre, C, None

(* No ABIs at all are as they should be. *)
LEMMA GeneratedNone == GeneratedList(<<>>)
  BY DEF GeneratedList

(* So is the ABI of what was collected. *)
LEMMA GeneratedOne ==
    ASSUME NEW a, NEW S \in SUBSET DOMAIN Decls, Collects(a, S)
    PROVE  GeneratedList(<<to_json(a)>>) /\ GeneratedList(AbisOf(a))
  <1>1. Generated(to_json(a))
    BY DEF Generated
  <1>2. PICK x : x = to_json(a)
    OBVIOUS
  <1>3. GeneratedList(<<x>>)
    BY <1>1, <1>2 DEF GeneratedList
  <1> QED
    BY <1>2, <1>3, GeneratedNone DEF AbisOf

(* abigen after one more input; once it holds something it is never empty    *)
(* again.                                                                    *)
LEMMA CollectsNext ==
    ASSUME NEW a, NEW c, NEW n \in Nat, CollectsUpto(a, c, n), c.inputs[n + 1] \in DOMAIN Decls,
           NEW b, b = VisitAll(a, c.inputs[n + 1])
    PROVE  /\ CollectsUpto(b, c, n + 1)
           /\ is_empty(b) => is_empty(a)
  <1>1. Collects(a, Upto(c, n)) /\ ClausesAre(a.clauses, c, n)
    BY DEF CollectsUpto
  <1>2. PICK s \in DOMAIN Decls : s = c.inputs[n + 1]
    OBVIOUS
  <1>3. /\ Collects(b, Upto(c, n) \union {s})
        /\ b.clauses = IF Decls[s] = <<>> THEN a.clauses ELSE a.clauses \o Clauses
        /\ \A k \in Parts : a[k] \subseteq b[k]
    <2>1. PICK S : S = Upto(c, n)
      OBVIOUS
    <2>2. Collects(a, S) /\ b = VisitAll(a, s)
      BY <1>1, <1>2, <2>1
    <2>3. /\ Collects(b, S \union {s})
          /\ b.clauses = IF Decls[s] = <<>> THEN a.clauses ELSE a.clauses \o Clauses
          /\ \A k \in Parts : a[k] \subseteq b[k]
      BY <2>2, CollectsMore
    <2> QED
      BY <2>1, <2>3
  <1>4. Upto(c, n) \union {s} = Upto(c, n + 1)
    <2>1. 1 .. n + 1 = (1 .. n) \union {n + 1}
      OBVIOUS
    <2> QED
      BY <1>2, <2>1 DEF Upto
  <1>5. ClausesAre(b.clauses, c, n + 1)
    BY <1>1, <1>2, <1>3, ClausesNext
  <1>6. is_empty(b) => is_empty(a)
    <2>1. a.clauses \in Seq(ToSet(Clauses))
      BY <1>1 DEF ClausesAre
    <2>2. Clauses \in Seq(ToSet(Clauses))
      BY ClausesAssumption DEF ToSet
    <2>3. b.clauses = a.clauses \/ b.clauses = a.clauses \o Clauses
      BY <1>3
    <2>4. PICK C : C = ToSet(Clauses)
      OBVIOUS
    <2> QED
      BY <1>3, <2>1, <2>2, <2>3, <2>4, EmptyBefore
  <1> QED
    BY <1>3, <1>4, <1>5, <1>6 DEF CollectsUpto

(* Inputs of wasm-cpp are sources. *)
LEMMA InputsAreSources ==
    ASSUME NEW p \in Procs, NEW c \in Commands[p], c.tool # "wasm-lld", NEW n, n <= Len(c.inputs), n \in Nat
    PROVE  Upto(c, n) \subseteq DOMAIN Decls
  <1>1. c.inputs \in Seq(DOMAIN FileName)
    <2>1. c \in UNION {Commands[q] : q \in Procs}
      OBVIOUS
    <2> QED
      BY <2>1, CommandsAssumption
  <1>2. \A i \in 1 .. n : c.inputs[i] \in DOMAIN FileName
    BY <1>1
  <1> QED
    BY <1>2, SourcesAssumption DEF Upto

(* An input has a number one more than how many come before it. *)
LEMMA InputBefore ==
    ASSUME NEW N \in Nat, NEW n \in 1 .. N
    PROVE  \E m \in Nat : m + 1 = n
  <1>1. n - 1 \in Nat /\ (n - 1) + 1 = n
    OBVIOUS
  <1> QED
    BY <1>1

(* The invariant in the form the steps that change nothing of it need. *)
LEMMA GenSame ==
    ASSUME GenInv, NEW p \in Procs
    PROVE  /\ ag = [ag EXCEPT ![p] = ag[p]] /\ cg = [cg EXCEPT ![p] = cg[p]]
           /\ cg[p] = [abis |-> cg[p].abis, names |-> cg[p].names]
           /\ \A f \in Paths : FileOK(f, files[f])
  BY DEF GenInv

(* A step that leaves abigen and codegen alone *)
LEMMA GenPlain ==
    ASSUME IInv, GenInv, NEW p \in Procs, Running(p), cmd' = cmd, ag' = ag, cg' = cg,
           NEW l \in Labels \ {"idle"}, NEW n,
           pc' = [pc EXCEPT ![p] = l], at' = [at EXCEPT ![p] = n],
           l # "ended" /\ cmd[p].tool = "wasm-cpp" => Carries(ag[p], cg[p], cmd[p], l, n),
           \A f \in Paths : files'[f] = files[f] \/ FileOK(f, files'[f])
    PROVE  GenInv'
  <1>1. PICK a, g : a = ag[p] /\ g = cg[p]
    OBVIOUS
  <1>2. /\ ag' = [ag EXCEPT ![p] = a] /\ cg' = [cg EXCEPT ![p] = g]
        /\ g = [abis |-> g.abis, names |-> g.names]
    BY <1>1, GenSame
  <1>3. l # "ended" /\ cmd[p].tool = "wasm-cpp" => Carries(a, g, cmd[p], l, n)
    BY <1>1
  <1> QED
    BY <1>2, <1>3, GenStep

(* A process that ends *)
LEMMA GenEnd ==
    ASSUME IInv, GenInv, NEW p \in Procs, Running(p), cmd' = cmd, at' = at, ag' = ag, cg' = cg,
           NEW e, Return(p, e),
           \A f \in Paths : files'[f] = files[f] \/ FileOK(f, files'[f])
    PROVE  GenInv'
  <1>1. at' = [at EXCEPT ![p] = at[p]]
    BY StillRunning
  <1>2. pc' = [pc EXCEPT ![p] = "ended"]
    BY DEF Return, Goto
  <1> QED
    BY <1>1, <1>2, GenPlain DEF Labels

(* The kinds of files a command has. *)
LEMMA PathKinds ==
    ASSUME NEW c, NEW s
    PROVE  /\ TmpSource(s)[1] = "tmp" /\ Output(c)[1] = "out"
           /\ AbiFile(c)[1] = "abi" /\ AbigenOutput(c)[1] = "abigen_output"
           /\ c.link \in BOOLEAN /\ c.tool \in {"wasm-cpp", "wasm-cc"} =>
                 Object(c, s)[1] \in {"out", "tmp.o", "tmp.c.o"}
  BY DEF TmpSource, Output, AbiFile, AbigenOutput, Object

(* A killed process leaves only what it had generated. *)
LEMMA GenKill ==
    ASSUME IInv, GenInv, NEW p \in Procs, Kill(p)
    PROVE  GenInv'
  BY GenEnd DEF Kill

(* The abigen pass (wasm-cpp.cpp.in:130-188). *)
LEMMA GenGenerateAbi ==
    ASSUME IInv, GenInv, NEW p \in Procs, GenerateAbi(p)
    PROVE  GenInv'
  <1>1. pc[p] = "abigen" /\ Running(p) /\ files' = files /\ cmd' = cmd /\ at' = at
    BY DEF GenerateAbi, Running
  <1>2. CASE Return(p, "-1") /\ ag' = ag /\ cg' = cg
    BY <1>1, <1>2, GenEnd
  <1>3. CASE \E visited \in {VisitAll(ag[p], Input(p))} :
                 /\ ag' = [ag EXCEPT ![p] = visited]
                 /\ cg' = IF is_empty(visited) THEN cg
                          ELSE [cg EXCEPT ![p].abis = <<to_json(visited)>>]
                 /\ Goto(p, "codegen")
    <2>1. PICK b : /\ b = VisitAll(ag[p], Input(p)) /\ ag' = [ag EXCEPT ![p] = b]
                   /\ cg' = IF is_empty(b) THEN cg ELSE [cg EXCEPT ![p].abis = <<to_json(b)>>]
                   /\ pc' = [pc EXCEPT ![p] = "codegen"]
      BY <1>3 DEF Goto
    <2> DEFINE c == cmd[p]
    <2>2. /\ c.tool = "wasm-cpp" /\ c \in Commands[p] /\ at[p] \in 1 .. Len(c.inputs)
          /\ Len(c.inputs) \in Nat
      <3>1. Shape /\ Places /\ pc[p] # "idle"
        BY <1>1 DEF IInv
      <3> QED
        BY <1>1, <3>1, RunningFacts
    <2>3. PICK m \in Nat : m + 1 = at[p]
      BY <2>2, InputBefore
    <2>4. Carries(ag[p], cg[p], c, "abigen", at[p])
      BY <1>1, <2>2 DEF GenInv
    <2>5. PICK a : a = ag[p]
      OBVIOUS
    <2>6. CollectsUpto(a, c, m) /\ cg[p].abis = AbisOf(a) /\ cg[p].names = NamesUpto(c, m)
      <3>1. Seen("abigen", at[p]) = m /\ Written("abigen", at[p]) = m
        BY <2>3 DEF Seen, Written
      <3> QED
        BY <2>4, <2>5, <3>1 DEF Carries
    <2>7. Input(p) = c.inputs[m + 1] /\ c.inputs[m + 1] \in DOMAIN Decls
      <3>1. Input(p) = c.inputs[m + 1]
        BY <2>3 DEF Input
      <3>2. Upto(c, m + 1) \subseteq DOMAIN Decls
        BY <2>2, <2>3, InputsAreSources
      <3> QED
        BY <3>1, <3>2 DEF Upto
    <2>8. b = VisitAll(a, c.inputs[m + 1])
      BY <2>1, <2>5, <2>7
    <2> HIDE DEF c
    <2>9. CollectsUpto(b, c, m + 1) /\ (is_empty(b) => is_empty(a))
      BY <2>6, <2>7, <2>8, CollectsNext
    <2>10. PICK g : g = IF is_empty(b) THEN cg[p] ELSE [cg[p] EXCEPT !.abis = <<to_json(b)>>]
      OBVIOUS
    <2>11. cg' = [cg EXCEPT ![p] = g]
      <3>1. CASE is_empty(b)
        <4>1. cg' = cg /\ g = cg[p]
          BY <2>1, <2>10, <3>1
        <4> QED
          BY <4>1, GenSame
      <3>2. CASE ~is_empty(b)
        BY <2>1, <2>10, <3>2
      <3> QED
        BY <3>1, <3>2
    <2>12. /\ g = [abis |-> g.abis, names |-> g.names] /\ g.names = cg[p].names
           /\ g.abis = IF is_empty(b) THEN cg[p].abis ELSE <<to_json(b)>>
      <3>1. PICK h, j : h = cg[p] /\ j = <<to_json(b)>>
        OBVIOUS
      <3>2. h = [abis |-> h.abis, names |-> h.names]
        BY <3>1, GenSame
      <3>3. CASE is_empty(b)
        <4>1. g = h
          BY <2>10, <3>1, <3>3
        <4> QED
          BY <3>1, <3>2, <3>3, <4>1
      <3>4. CASE ~is_empty(b)
        <4>1. g = [h EXCEPT !.abis = j]
          BY <2>10, <3>1, <3>4
        <4>2. g = [abis |-> j, names |-> h.names]
          BY <3>2, <4>1
        <4> QED
          BY <3>1, <3>4, <4>2
      <3> QED
        BY <3>3, <3>4
    <2>13. g.abis = AbisOf(b)
      BY <2>6, <2>9, <2>12 DEF AbisOf
    <2>14. Seen("codegen", at[p]) = m + 1 /\ Written("codegen", at[p]) = m
      BY <2>3 DEF Seen, Written
    <2>15. Carries(b, g, c, "codegen", at[p])
      BY <2>6, <2>9, <2>12, <2>13, <2>14 DEF Carries
    <2>16. at' = [at EXCEPT ![p] = at[p]]
      BY <1>1, StillRunning
    <2> QED
      BY <1>1, <2>1, <2>11, <2>12, <2>15, <2>16, GenStep DEF Labels, c
  <1> QED
    BY <1>2, <1>3 DEF GenerateAbi

(* The process stays on its input, and what abigen and codegen have is the    *)
(* same for part l as for part k.                                             *)
LEMMA GenStay ==
    ASSUME IInv, GenInv, NEW p \in Procs, Running(p), cmd' = cmd, at' = at, ag' = ag, cg' = cg,
           NEW l \in Labels \ {"idle"}, Goto(p, l),
           Seen(l, at[p]) = Seen(pc[p], at[p]), Written(l, at[p]) = Written(pc[p], at[p]),
           \A f \in Paths : files'[f] = files[f] \/ FileOK(f, files'[f])
    PROVE  GenInv'
  <1>1. cmd[p].tool = "wasm-cpp" => Carries(ag[p], cg[p], cmd[p], pc[p], at[p])
    BY DEF GenInv
  <1>2. cmd[p].tool = "wasm-cpp" => Carries(ag[p], cg[p], cmd[p], l, at[p])
    BY <1>1 DEF Carries
  <1>3. pc' = [pc EXCEPT ![p] = l] /\ at' = [at EXCEPT ![p] = at[p]]
    BY StillRunning DEF Goto
  <1> QED
    BY <1>2, <1>3, GenPlain

(* NamesUpto grows with the inputs that are not of the library. *)
LEMMA NamesNext ==
    ASSUME NEW c, NEW n \in Nat
    PROVE  NamesUpto(c, n + 1) = IF c.inputs[n + 1] \in Library THEN NamesUpto(c, n)
                                 ELSE NamesUpto(c, n) \union {FullName(d) : d \in Actions(c.inputs[n + 1])}
  <1>1. PICK s : s = c.inputs[n + 1]
    OBVIOUS
  <1>2. Upto(c, n + 1) = Upto(c, n) \union {s}
    <2>1. 1 .. n + 1 = (1 .. n) \union {n + 1}
      OBVIOUS
    <2> QED
      BY <1>1, <2>1 DEF Upto
  <1>3. PICK U, V : U = Upto(c, n) \ Library /\ V = Upto(c, n + 1) \ Library
    OBVIOUS
  <1>4. V = IF s \in Library THEN U ELSE U \union {s}
    BY <1>2, <1>3
  <1>5. UNION {Actions(t) : t \in U \union {s}} = (UNION {Actions(t) : t \in U}) \union Actions(s)
    OBVIOUS
  <1>6. PICK A, B : A = UNION {Actions(t) : t \in U} /\ B = Actions(s)
    OBVIOUS
  <1>7. {FullName(d) : d \in A \union B} = {FullName(d) : d \in A} \union {FullName(d) : d \in B}
    OBVIOUS
  <1>8. NamesUpto(c, n) = {FullName(d) : d \in A}
    BY <1>3, <1>6 DEF NamesUpto
  <1>9. CASE s \in Library
    BY <1>1, <1>3, <1>4, <1>9 DEF NamesUpto
  <1>10. CASE s \notin Library
    <2>1. NamesUpto(c, n + 1) = {FullName(d) : d \in A \union B}
      BY <1>3, <1>4, <1>5, <1>6, <1>10 DEF NamesUpto
    <2> QED
      BY <1>1, <1>6, <1>7, <1>8, <1>10, <2>1
  <1> QED
    BY <1>9, <1>10

(* The codegen pass opens the copy (codegen.hpp:386-411). *)
LEMMA GenOpenCopy ==
    ASSUME IInv, GenInv, NEW p \in Procs, OpenCopy(p)
    PROVE  GenInv'
  <1> DEFINE s == Input(p)
             c == cmd[p]
  <1>1. pc[p] = "codegen" /\ Running(p) /\ cmd' = cmd /\ at' = at /\ ag' = ag /\ cg' = cg
    BY DEF OpenCopy, Running
  <1>2. CASE s \notin Library /\ Goto(p, "write")
             /\ files' = [files EXCEPT ![TmpSource(s)] = Content({s}, <<>>, {}, p, FALSE)]
    <2>1. FileOK(TmpSource(s), Content({s}, <<>>, {}, p, FALSE))
      BY GeneratedNone, PathKinds DEF FileOK, Content
    <2>2. PICK x : x = Content({s}, <<>>, {}, p, FALSE)
      OBVIOUS
    <2>3. \A f \in Paths : files'[f] = files[f] \/ (f = TmpSource(s) /\ files'[f] = x)
      BY <1>2, <2>2 DEF IInv, Shape
    <2>4. \A f \in Paths : files'[f] = files[f] \/ FileOK(f, files'[f])
      BY <2>1, <2>2, <2>3
    <2>5. Seen("write", at[p]) = Seen("codegen", at[p]) /\ Written("write", at[p]) = Written("codegen", at[p])
      BY DEF Seen, Written
    <2> QED
      BY <1>1, <1>2, <2>4, <2>5, GenStay DEF Labels
  <1>3. CASE s \in Library /\ Goto(p, "compile") /\ files' = files
    <2>1. /\ c.tool = "wasm-cpp" /\ at[p] \in 1 .. Len(c.inputs) /\ Len(c.inputs) \in Nat
      <3>1. Shape /\ Places /\ pc[p] # "idle"
        BY <1>1 DEF IInv
      <3> QED
        BY <1>1, <3>1, RunningFacts
    <2>2. PICK m \in Nat : m + 1 = at[p]
      BY <2>1, InputBefore
    <2>3. /\ Seen("codegen", at[p]) = at[p] /\ Written("codegen", at[p]) = m
          /\ Seen("compile", at[p]) = at[p] /\ Written("compile", at[p]) = at[p]
      BY <2>2 DEF Seen, Written
    <2>4. NamesUpto(c, m + 1) = NamesUpto(c, m)
      BY <1>3, <2>2, NamesNext DEF Input
    <2>5. Carries(ag[p], cg[p], c, "codegen", at[p])
      BY <1>1, <2>1 DEF GenInv
    <2>6. Carries(ag[p], cg[p], c, "compile", at[p])
      BY <2>2, <2>3, <2>4, <2>5 DEF Carries
    <2>7. pc' = [pc EXCEPT ![p] = "compile"] /\ at' = [at EXCEPT ![p] = at[p]]
      BY <1>1, <1>3, StillRunning DEF Goto
    <2> QED
      BY <1>1, <1>3, <2>6, <2>7, GenPlain DEF Labels
  <1>4. CASE Return(p, "-1") /\ files' = files
    BY <1>1, <1>4, GenEnd
  <1> QED
    BY <1>2, <1>3, <1>4 DEF OpenCopy

(* codegen has an ABI that abigen generated. *)
LEMMA CodegenGenerated ==
    ASSUME IInv, GenInv, NEW p \in Procs, Running(p), cmd[p].tool = "wasm-cpp"
    PROVE  /\ GeneratedList(cg[p].abis) /\ GeneratedList(<<to_json(ag[p])>>)
           /\ Carries(ag[p], cg[p], cmd[p], pc[p], at[p])
  <1>1. Carries(ag[p], cg[p], cmd[p], pc[p], at[p])
    BY DEF GenInv
  <1>2. Shape /\ Places /\ pc[p] # "idle"
    BY DEF IInv, Running
  <1>3. at[p] \in 1 .. Len(cmd[p].inputs) /\ Len(cmd[p].inputs) \in Nat /\ cmd[p] \in Commands[p]
    BY <1>2, RunningFacts
  <1>4. PICK n : n = Seen(pc[p], at[p])
    OBVIOUS
  <1>5. n \in Nat /\ n <= Len(cmd[p].inputs)
    BY <1>3, <1>4 DEF Seen
  <1>6. Upto(cmd[p], n) \subseteq DOMAIN Decls
    BY <1>3, <1>5, InputsAreSources
  <1>7. PICK a, S : a = ag[p] /\ S = Upto(cmd[p], n)
    OBVIOUS
  <1>8. Collects(a, S)
    BY <1>1, <1>4, <1>7 DEF Carries, CollectsUpto
  <1>9. S \in SUBSET DOMAIN Decls
    BY <1>6, <1>7
  <1>10. GeneratedList(<<to_json(a)>>) /\ GeneratedList(AbisOf(a))
    BY <1>8, <1>9, GeneratedOne
  <1> QED
    BY <1>1, <1>7, <1>10 DEF Carries

(* A file is put at one path. *)
LEMMA GenPut ==
    ASSUME IInv, GenInv, NEW f, NEW x, files' = [files EXCEPT ![f] = x], FileOK(f, x)
    PROVE  \A g \in Paths : files'[g] = files[g] \/ FileOK(g, files'[g])
  <1>1. \A g \in Paths : files'[g] = files[g] \/ (g = f /\ files'[g] = x)
    BY DEF IInv, Shape
  <1> QED
    BY <1>1

(* Files are removed. *)
LEMMA GenRemove ==
    ASSUME NEW S, files' = [f \in Paths |-> IF f \in S THEN Absent ELSE files[f]]
    PROVE  \A f \in Paths : files'[f] = files[f] \/ FileOK(f, files'[f])
  BY DEF FileOK

(* ... and writes it (codegen.hpp:412-438). *)
LEMMA GenWriteCopy ==
    ASSUME IInv, GenInv, NEW p \in Procs, WriteCopy(p)
    PROVE  GenInv'
  <1> DEFINE s == Input(p)
             c == cmd[p]
             x == Content({s}, cg[p].abis, Stubs(p, s), p, TRUE)
  <1>1. /\ pc[p] = "write" /\ Running(p) /\ cmd' = cmd /\ at' = at /\ ag' = ag
        /\ files' = [files EXCEPT ![TmpSource(s)] = x]
        /\ cg' = [cg EXCEPT ![p].names = @ \union {FullName(d) : d \in Actions(s)}]
        /\ Goto(p, "compile") \/ Return(p, "-1")
    BY DEF WriteCopy, Running
  <1>2. Shape /\ Places /\ pc[p] # "idle"
    BY <1>1 DEF IInv
  <1>3. /\ c.tool = "wasm-cpp" /\ at[p] \in 1 .. Len(c.inputs) /\ Len(c.inputs) \in Nat
    BY <1>1, <1>2, RunningFacts
  <1>4. s \notin Library
    BY <1>1, StillRunning DEF Busy, Input
  <1>5. PICK m \in Nat : m + 1 = at[p]
    BY <1>3, InputBefore
  <1>6. GeneratedList(cg[p].abis) /\ Carries(ag[p], cg[p], c, "write", at[p])
    BY <1>1, <1>3, CodegenGenerated
  <1>7. FileOK(TmpSource(s), x)
    BY <1>6, PathKinds DEF FileOK, Content
  <1>8. \A f \in Paths : files'[f] = files[f] \/ FileOK(f, files'[f])
    <2>1. PICK f, y : f = TmpSource(s) /\ y = x
      OBVIOUS
    <2>2. files' = [files EXCEPT ![f] = y] /\ FileOK(f, y)
      BY <1>1, <1>7, <2>1
    <2> QED
      BY <2>2, GenPut
  <1>9. PICK g : g = [abis |-> cg[p].abis, names |-> cg[p].names \union {FullName(d) : d \in Actions(s)}]
    OBVIOUS
  <1>10. cg' = [cg EXCEPT ![p] = g]
    <2>1. PICK h, N : h = cg[p] /\ N = {FullName(d) : d \in Actions(s)}
      OBVIOUS
    <2>2. h = [abis |-> h.abis, names |-> h.names]
      BY <2>1, GenSame
    <2>3. [h EXCEPT !.names = @ \union N] = [abis |-> h.abis, names |-> h.names \union N]
      BY <2>2
    <2>4. cg' = [cg EXCEPT ![p] = [cg[p] EXCEPT !.names = @ \union N]]
      <3>1. cg' = [cg EXCEPT ![p].names = @ \union N]
        BY <1>1, <2>1
      <3> QED
        BY <3>1
    <2> QED
      BY <1>9, <2>1, <2>3, <2>4
  <1>11. g.abis = cg[p].abis /\ g.names = cg[p].names \union {FullName(d) : d \in Actions(s)}
         /\ g = [abis |-> g.abis, names |-> g.names]
    BY <1>9
  <1>12. g.names = NamesUpto(c, at[p])
    <2>1. cg[p].names = NamesUpto(c, m)
      BY <1>5, <1>6 DEF Carries, Written
    <2>2. s = c.inputs[m + 1]
      BY <1>5 DEF Input
    <2> HIDE DEF s, c
    <2>3. NamesUpto(c, m + 1) = NamesUpto(c, m) \union {FullName(d) : d \in Actions(s)}
      BY <1>4, <2>2, NamesNext
    <2> QED
      BY <1>5, <1>11, <2>1, <2>3
  <1>13. Carries(ag[p], g, c, "compile", at[p])
    BY <1>6, <1>11, <1>12 DEF Carries, Seen, Written
  <1>14. PICK l \in {"compile", "ended"} : pc' = [pc EXCEPT ![p] = l]
    <2>1. CASE Goto(p, "compile")
      BY <2>1 DEF Goto
    <2>2. CASE Return(p, "-1")
      BY <2>2 DEF Goto, Return
    <2> QED
      BY <1>1, <2>1, <2>2
  <1>15. at' = [at EXCEPT ![p] = at[p]] /\ ag' = [ag EXCEPT ![p] = ag[p]]
    BY <1>1, StillRunning, GenSame
  <1>16. l \in Labels \ {"idle"}
    BY <1>14 DEF Labels
  <1>17. l # "ended" /\ cmd[p].tool = "wasm-cpp" => Carries(ag[p], g, cmd[p], l, at[p])
    BY <1>13, <1>14
  <1> HIDE DEF s, c, x
  <1>18. PICK a : a = ag[p]
    OBVIOUS
  <1>19. /\ ag' = [ag EXCEPT ![p] = a] /\ Running(p) /\ cmd' = cmd
         /\ l # "ended" /\ cmd[p].tool = "wasm-cpp" => Carries(a, g, cmd[p], l, at[p])
    BY <1>1, <1>15, <1>17, <1>18
  <1>20. PICK n : n = at[p]
    OBVIOUS
  <1>21. /\ at' = [at EXCEPT ![p] = n] /\ g = [abis |-> g.abis, names |-> g.names]
         /\ l # "ended" /\ cmd[p].tool = "wasm-cpp" => Carries(a, g, cmd[p], l, n)
    BY <1>11, <1>15, <1>19, <1>20
  <1> QED
    BY <1>8, <1>10, <1>14, <1>16, <1>19, <1>21, GenStep

(* clang-7 passes the ABI on (utils.hpp:180-192). *)
LEMMA GenCompile ==
    ASSUME IInv, GenInv, NEW p \in Procs, Compile(p)
    PROVE  GenInv'
  <1> DEFINE object == Object(cmd[p], Input(p))
             s == Source(p)
  <1>1. /\ pc[p] = "compile" /\ Running(p) /\ cmd' = cmd /\ at' = at /\ ag' = ag /\ cg' = cg
        /\ \/ files' = [files EXCEPT ![object] = Content(s.sources, s.abis, s.stubs, p, s.whole)]
              /\ Goto(p, "compiled")
           \/ files' = [files EXCEPT ![object] = Absent] /\ Goto(p, "compiled")
           \/ /\ files' = [f \in Paths |->
                              IF f \in {TmpSource(Input(p))} /\ cmd[p].tool = "wasm-cpp"
                              THEN Absent ELSE files[f]]
              /\ Return(p, "-1")
    BY DEF Compile, Running
  <1>2. Shape /\ Places /\ pc[p] # "idle"
    BY <1>1 DEF IInv
  <1>3. /\ cmd[p].tool \in {"wasm-cpp", "wasm-cc"} /\ cmd[p].link \in BOOLEAN
        /\ Input(p) \in Inputs(cmd[p])
        /\ cmd[p].tool = "wasm-cpp" => TmpSource(Input(p)) \in Paths
    <2>1. /\ cmd[p].tool \in {"wasm-cpp", "wasm-cc"} /\ cmd[p].link \in BOOLEAN
          /\ Input(p) \in Inputs(cmd[p]) /\ Touches(cmd[p]) \subseteq Paths
      BY <1>1, <1>2, RunningFacts
    <2>2. cmd[p].tool = "wasm-cpp" => TmpSource(Input(p)) \in Touches(cmd[p])
      BY <2>1, Touched
    <2> QED
      BY <2>1, <2>2
  <1>4. object[1] \in {"out", "tmp.o", "tmp.c.o"}
    BY <1>3, PathKinds
  <1>5. GeneratedList(s.abis)
    <2>1. CASE cmd[p].tool = "wasm-cpp" /\ files[TmpSource(Input(p))] # Absent
      <3>1. FileOK(TmpSource(Input(p)), files[TmpSource(Input(p))])
        BY <1>3, <2>1, GenSame
      <3> QED
        BY <2>1, <3>1 DEF Source, FileOK
    <2>2. CASE ~(cmd[p].tool = "wasm-cpp" /\ files[TmpSource(Input(p))] # Absent)
      <3>1. s.abis = <<>>
        BY <2>2 DEF Source, Content
      <3> QED
        BY <3>1, GeneratedNone
    <2> QED
      BY <2>1, <2>2
  <1>6. Seen("compiled", at[p]) = Seen("compile", at[p]) /\ Written("compiled", at[p]) = Written("compile", at[p])
    BY DEF Seen, Written
  <1>7. "compiled" \in Labels \ {"idle"}
    BY DEF Labels
  <1> HIDE DEF object, s
  <1>8. CASE files' = [files EXCEPT ![object] = Content(s.sources, s.abis, s.stubs, p, s.whole)]
             /\ Goto(p, "compiled")
    <2>1. PICK x : x = Content(s.sources, s.abis, s.stubs, p, s.whole)
      OBVIOUS
    <2>2. x.abis = s.abis
      BY <2>1 DEF Content
    <2>3. FileOK(object, x)
      BY <1>4, <1>5, <2>2 DEF FileOK
    <2>4. \A f \in Paths : files'[f] = files[f] \/ FileOK(f, files'[f])
      BY <1>8, <2>1, <2>3, GenPut
    <2> QED
      BY <1>1, <1>6, <1>7, <1>8, <2>4, GenStay
  <1>9. CASE files' = [files EXCEPT ![object] = Absent] /\ Goto(p, "compiled")
    <2>1. FileOK(object, Absent)
      BY DEF FileOK
    <2>2. \A f \in Paths : files'[f] = files[f] \/ FileOK(f, files'[f])
      BY <1>9, <2>1, GenPut
    <2> QED
      BY <1>1, <1>6, <1>7, <1>9, <2>2, GenStay
  <1>10. CASE /\ files' = [f \in Paths |->
                              IF f \in {TmpSource(Input(p))} /\ cmd[p].tool = "wasm-cpp"
                              THEN Absent ELSE files[f]]
              /\ Return(p, "-1")
    <2>1. \A f \in Paths : files'[f] = files[f] \/ FileOK(f, files'[f])
      BY <1>10 DEF FileOK
    <2> QED
      BY <1>1, <1>10, <2>1, GenEnd
  <1> QED
    BY <1>1, <1>8, <1>9, <1>10

(* An older object stays in place (utils.hpp:186). *)
LEMMA GenKeepObject ==
    ASSUME IInv, GenInv, NEW p \in Procs, KeepObject(p)
    PROVE  GenInv'
  <1>1. /\ pc[p] = "compile" /\ Running(p) /\ cmd' = cmd /\ at' = at /\ ag' = ag /\ cg' = cg
        /\ files' = files /\ Goto(p, "compiled")
    BY DEF KeepObject, Running
  <1>2. Seen("compiled", at[p]) = Seen("compile", at[p]) /\ Written("compiled", at[p]) = Written("compile", at[p])
    BY DEF Seen, Written
  <1>3. "compiled" \in Labels \ {"idle"}
    BY DEF Labels
  <1>4. \A f \in Paths : files'[f] = files[f] \/ FileOK(f, files'[f])
    BY <1>1
  <1> QED
    BY <1>1, <1>2, <1>3, <1>4, GenStay

(* The copy is removed (wasm-cpp.cpp.in:246-251). *)
LEMMA GenRemoveCopy ==
    ASSUME IInv, GenInv, NEW p \in Procs, RemoveCopy(p)
    PROVE  GenInv'
  <1>1. /\ pc[p] = "compiled" /\ Running(p) /\ cmd' = cmd /\ ag' = ag /\ cg' = cg /\ NextInput(p)
        /\ files' = [f \in Paths |-> IF cmd[p].tool = "wasm-cpp" /\ f = TmpSource(Input(p))
                                     THEN Absent ELSE files[f]]
    BY DEF RemoveCopy, Running
  <1>2. \A f \in Paths : files'[f] = files[f] \/ FileOK(f, files'[f])
    BY <1>1 DEF FileOK
  <1>3. cmd[p].tool = "wasm-cpp" => Carries(ag[p], cg[p], cmd[p], "compiled", at[p])
    BY <1>1 DEF GenInv
  <1>4. CASE /\ at[p] < Len(cmd[p].inputs) /\ at' = [at EXCEPT ![p] = at[p] + 1]
             /\ \/ cmd[p].tool = "wasm-cpp" /\ Goto(p, "abigen")
                \/ cmd[p].tool # "wasm-cpp" /\ Goto(p, "compile")
    <2>1. at[p] \in Nat
      BY DEF IInv, Shape
    <2>2. Seen("abigen", at[p] + 1) = Seen("compiled", at[p]) /\ Written("abigen", at[p] + 1) = Written("compiled", at[p])
      BY <2>1 DEF Seen, Written
    <2>3. cmd[p].tool = "wasm-cpp" => Carries(ag[p], cg[p], cmd[p], "abigen", at[p] + 1)
      BY <1>3, <2>2 DEF Carries
    <2>4. PICK n : n = at[p] + 1
      OBVIOUS
    <2>5. PICK l \in {"abigen", "compile"} :
             /\ pc' = [pc EXCEPT ![p] = l]
             /\ cmd[p].tool = "wasm-cpp" => l = "abigen"
      BY <1>4 DEF Goto
    <2>6. l \in Labels \ {"idle"} /\ (l # "ended" /\ cmd[p].tool = "wasm-cpp" => Carries(ag[p], cg[p], cmd[p], l, n))
      BY <2>3, <2>4, <2>5 DEF Labels
    <2> QED
      BY <1>1, <1>2, <1>4, <2>4, <2>5, <2>6, GenPlain
  <1>5. CASE at' = at /\ ((cmd[p].tool = "wasm-cpp" /\ Goto(p, "abi")) \/ Goto(p, "link"))
    <2>1. PICK l \in {"abi", "link"} : Goto(p, l)
      BY <1>5
    <2>2. Seen(l, at[p]) = Seen("compiled", at[p]) /\ Written(l, at[p]) = Written("compiled", at[p])
      BY <2>1 DEF Seen, Written
    <2>3. l \in Labels \ {"idle"}
      BY <2>1 DEF Labels
    <2> QED
      BY <1>1, <1>2, <1>5, <2>1, <2>2, <2>3, GenStay
  <1>6. CASE at' = at /\ Return(p, "0")
    BY <1>1, <1>2, <1>6, GenEnd
  <1> QED
    BY <1>1, <1>4, <1>5, <1>6, NextInputCases

(* --abigen writes what was collected (wasm-cpp.cpp.in:257-266). *)
LEMMA GenWriteAbigenOutput ==
    ASSUME IInv, GenInv, NEW p \in Procs, WriteAbigenOutput(p)
    PROVE  GenInv'
  <1>1. /\ pc[p] = "abi" /\ Running(p) /\ cmd' = cmd /\ at' = at /\ ag' = ag /\ cg' = cg
        /\ files' = [files EXCEPT ![AbigenOutput(cmd[p])] =
                         Content(Inputs(cmd[p]), <<to_json(ag[p])>>, {}, p, TRUE)]
        /\ Goto(p, "link") \/ Return(p, "0")
    BY DEF WriteAbigenOutput, Running
  <1>2. cmd[p].tool = "wasm-cpp"
    <2>1. Shape /\ Places /\ pc[p] # "idle"
      BY <1>1 DEF IInv
    <2> QED
      BY <1>1, <2>1, RunningFacts
  <1>3. GeneratedList(<<to_json(ag[p])>>)
    BY <1>1, <1>2, CodegenGenerated
  <1>4. PICK j, x, f : /\ j = to_json(ag[p]) /\ f = AbigenOutput(cmd[p])
                       /\ x = Content(Inputs(cmd[p]), <<j>>, {}, p, TRUE)
    OBVIOUS
  <1>5. x.abis = <<j>>
    BY <1>4 DEF Content
  <1>6. f[1] = "abigen_output"
    BY <1>4 DEF AbigenOutput
  <1>7. FileOK(f, x)
    <2>1. <<j>> # <<>>
      OBVIOUS
    <2> QED
      BY <1>3, <1>4, <1>5, <1>6, <2>1 DEF FileOK
  <1>8. files' = [files EXCEPT ![f] = x]
    BY <1>1, <1>4
  <1>9. \A g \in Paths : files'[g] = files[g] \/ FileOK(g, files'[g])
    BY <1>7, <1>8, GenPut
  <1>10. Seen("link", at[p]) = Seen("abi", at[p]) /\ Written("link", at[p]) = Written("abi", at[p])
    BY DEF Seen, Written
  <1>11. "link" \in Labels \ {"idle"}
    BY DEF Labels
  <1>12. CASE Goto(p, "link")
    BY <1>1, <1>9, <1>10, <1>11, <1>12, GenStay
  <1>13. CASE Return(p, "0")
    BY <1>1, <1>9, <1>13, GenEnd
  <1> QED
    BY <1>1, <1>12, <1>13

(* The end of main (wasm-cpp.cpp.in:274-285). *)
LEMMA GenFinish ==
    ASSUME IInv, GenInv, NEW p \in Procs, Finish(p)
    PROVE  GenInv'
  <1>1. /\ pc[p] = "linked" /\ Running(p) /\ cmd' = cmd /\ at' = at /\ ag' = ag /\ cg' = cg
        /\ \/ files' = files
           \/ files' = [f \in Paths |-> IF f \in Outputs(cmd[p]) THEN Absent ELSE files[f]]
    BY DEF Finish, Running
  <1>2. \E e : Return(p, e)
    BY DEF Finish
  <1>3. \A f \in Paths : files'[f] = files[f] \/ FileOK(f, files'[f])
    BY <1>1 DEF FileOK
  <1> QED
    BY <1>1, <1>2, <1>3, GenEnd

(* Generated ABIs one after the other *)
LEMMA FlattenGenerated ==
    ASSUME NEW N \in Nat, NEW seqs, seqs = [i \in 1 .. N |-> seqs[i]],
           \A i \in 1 .. N : GeneratedList(seqs[i])
    PROVE  GeneratedList(FlattenSeq(seqs))
  <1>1. PICK S : S = UNION {ToSet(seqs[i]) : i \in 1 .. N}
    OBVIOUS
  <1>2. ASSUME NEW i \in 1 .. N
        PROVE  seqs[i] \in Seq(S) /\ \A x \in ToSet(seqs[i]) : Generated(x)
    <2>1. PICK l : l = seqs[i]
      OBVIOUS
    <2>2. Len(l) \in Nat /\ l = [j \in 1 .. Len(l) |-> l[j]] /\ \A j \in 1 .. Len(l) : Generated(l[j])
      BY <2>1 DEF GeneratedList
    <2>3. PICK k \in Nat : k = Len(l)
      BY <2>2
    <2>4. l = [j \in 1 .. k |-> l[j]] /\ \A j \in 1 .. k : Generated(l[j])
      BY <2>2, <2>3
    <2>5. ToSet(l) = {l[j] : j \in 1 .. k}
      BY <2>4 DEF ToSet
    <2>6. ToSet(l) \subseteq S
      BY <1>1, <2>1
    <2>7. \A j \in 1 .. k : l[j] \in S
      BY <2>5, <2>6
    <2>8. l \in Seq(S)
      BY <2>4, <2>7
    <2> QED
      BY <2>1, <2>4, <2>5, <2>8
  <1>3. seqs \in Seq(Seq(S)) /\ Len(seqs) = N
    BY <1>2
  <1>4. Flat(FlattenSeq(seqs), seqs, N, S)
    BY <1>3, FlattenFacts
  <1>5. PICK l : l = FlattenSeq(seqs)
    OBVIOUS
  <1>6. l \in Seq(S) /\ \A x \in ToSet(l) : \E i \in 1 .. N : x \in ToSet(seqs[i])
    BY <1>4, <1>5 DEF Flat
  <1>7. Len(l) \in Nat /\ l = [i \in 1 .. Len(l) |-> l[i]]
    BY <1>6
  <1>8. \A i \in 1 .. Len(l) : l[i] \in ToSet(l)
    BY <1>6 DEF ToSet
  <1>9. \A i \in 1 .. Len(l) : Generated(l[i])
    BY <1>2, <1>6, <1>8
  <1> QED
    BY <1>5, <1>7, <1>9 DEF GeneratedList

(* What a linker gets is in files. *)
LEMMA ObjectsAreFiles ==
    ASSUME IInv, NEW p \in Procs, pc[p] = "link"
    PROVE  \E N \in Nat : /\ Objects(p) = [i \in 1 .. N |-> Objects(p)[i]]
                          /\ \A i \in 1 .. N : \E f \in Paths : Objects(p)[i] = files[f]
  <1> DEFINE c == cmd[p]
             N == Len(c.inputs)
  <1>1. /\ DOMAIN c.inputs = 1 .. N /\ N \in Nat /\ Touches(c) \subseteq Paths
        /\ \A i \in 1 .. N : c.inputs[i] \in Inputs(c)
    <2>1. Shape /\ Places /\ pc[p] # "idle"
      BY DEF IInv
    <2> QED
      BY <2>1, RunningFacts
  <1>2. CASE c.tool = "wasm-lld"
    <2>1. Objects(p) = [i \in 1 .. N |-> files[<<"out", c.inputs[i]>>]]
      BY <1>1, <1>2 DEF Objects
    <2>2. \A i \in 1 .. N : <<"out", c.inputs[i]>> \in Paths
      BY <1>1, <1>2 DEF Touches, Outputs
    <2> HIDE DEF N
    <2> QED
      BY <1>1, <2>1, <2>2
  <1>3. CASE c.tool # "wasm-lld"
    <2> DEFINE forward == [i \in 1 .. N |-> files[Object(c, c.inputs[i])]]
    <2>1. Objects(p) = Reverse(forward)
      BY <1>1, <1>3 DEF Objects
    <2>2. Len(forward) = N /\ \A i \in 1 .. N : forward[i] = files[Object(c, c.inputs[i])]
      BY <1>1
    <2>3. \A i \in 1 .. N : Object(c, c.inputs[i]) \in Paths
      BY <1>1, <1>3, Touched
    <2> HIDE DEF N, forward, c
    <2>4. Objects(p) = [i \in 1 .. N |-> forward[(N - i) + 1]]
      BY <2>1, <2>2 DEF Reverse
    <2>5. \A i \in 1 .. N : (N - i) + 1 \in 1 .. N
      BY <1>1
    <2> QED
      BY <1>1, <2>2, <2>3, <2>4, <2>5, SMTT(40)
  <1> QED
    BY <1>2, <1>3

(* The linker writes an ABI only if the merge did not throw                  *)
(* (Writer.cpp:1430-1437).                                                   *)
LEMMA GenLink ==
    ASSUME IInv, GenInv, NEW p \in Procs, Link(p)
    PROVE  GenInv'
  <1>1. /\ pc[p] = "link" /\ Running(p) /\ cmd' = cmd /\ at' = at /\ ag' = ag /\ cg' = cg
        /\ Goto(p, "linked")
        /\ \/ files' = files
           \/ Absent \notin ToSet(Objects(p)) /\ files' = Linked(p, Objects(p))
    BY DEF Link, Running
  <1>2. ASSUME Absent \notin ToSet(Objects(p)), files' = Linked(p, Objects(p))
        PROVE  \A h \in Paths : files'[h] = files[h] \/ FileOK(h, files'[h])
    <2>1. PICK objects : objects = Objects(p)
      OBVIOUS
    <2>2. PICK N \in Nat : /\ objects = [i \in 1 .. N |-> objects[i]]
                           /\ \A i \in 1 .. N : \E f \in Paths : objects[i] = files[f]
      BY <1>1, <2>1, ObjectsAreFiles
    <2>3. PICK seqs : seqs = [i \in DOMAIN objects |-> objects[i].abis]
      OBVIOUS
    <2>4. seqs = [i \in 1 .. N |-> objects[i].abis]
      BY <2>2, <2>3
    <2>5. \A i \in 1 .. N : GeneratedList(seqs[i])
      <3> TAKE i \in 1 .. N
      <3>1. PICK f \in Paths : objects[i] = files[f]
        BY <2>2
      <3>2. objects[i] # Absent
        BY <1>2, <2>1, <2>2 DEF ToSet
      <3>3. FileOK(f, files[f])
        BY GenSame
      <3> QED
        BY <2>4, <3>1, <3>2, <3>3 DEF FileOK
    <2>6. PICK abis : abis = FlattenSeq(seqs)
      OBVIOUS
    <2>7. GeneratedList(abis)
      BY <2>4, <2>5, <2>6, FlattenGenerated
    <2>8. PICK x : x = Content(UNION {o.sources : o \in ToSet(objects)}, abis,
                               UNION {o.stubs : o \in ToSet(objects)}, p,
                               \A o \in ToSet(objects) : o.whole)
      OBVIOUS
    <2>9. x.abis = abis
      BY <2>8 DEF Content
    <2>10. files' = IF abis # <<>> /\ writeABI(abis).ok
                    THEN [files EXCEPT ![Output(cmd[p])] = x, ![AbiFile(cmd[p])] = x]
                    ELSE [files EXCEPT ![Output(cmd[p])] = x]
      BY <1>2, <2>1, <2>3, <2>6, <2>8 DEF Linked
    <2>11. PICK f, g : f = Output(cmd[p]) /\ g = AbiFile(cmd[p])
      OBVIOUS
    <2>12. f[1] = "out" /\ g[1] = "abi"
      BY <2>11 DEF Output, AbiFile
    <2>13. FileOK(f, x)
      BY <2>7, <2>9, <2>12 DEF FileOK
    <2>14. CASE abis # <<>> /\ writeABI(abis).ok
      <3>1. FileOK(g, x)
        BY <2>7, <2>9, <2>12, <2>14 DEF FileOK
      <3>2. files' = [files EXCEPT ![f] = x, ![g] = x]
        BY <2>10, <2>11, <2>14
      <3>3. files = [h \in Paths |-> files[h]]
        BY DEF IInv, Shape
      <3>4. \A h \in Paths : files'[h] = files[h] \/ (h \in {f, g} /\ files'[h] = x)
        BY <3>2, <3>3
      <3> QED
        BY <2>13, <3>1, <3>4
    <2>15. CASE ~(abis # <<>> /\ writeABI(abis).ok)
      <3>1. files' = [files EXCEPT ![f] = x]
        BY <2>10, <2>11, <2>15
      <3> QED
        BY <2>13, <3>1, GenPut
    <2> QED
      BY <2>14, <2>15
  <1>3. \A h \in Paths : files'[h] = files[h] \/ FileOK(h, files'[h])
    BY <1>1, <1>2
  <1>4. Seen("linked", at[p]) = Seen("link", at[p]) /\ Written("linked", at[p]) = Written("link", at[p])
    BY DEF Seen, Written
  <1>5. "linked" \in Labels \ {"idle"}
    BY DEF Labels
  <1> QED
    BY <1>1, <1>3, <1>4, <1>5, GenStay

(* A process starts with nothing. *)
LEMMA CarriesNothing ==
    ASSUME NEW c
    PROVE  Carries(NewAbigen, [abis |-> <<>>, names |-> {}], c, "abigen", 1)
  <1>1. Seen("abigen", 1) = 0 /\ Written("abigen", 1) = 0
    BY DEF Seen, Written
  <1>2. Upto(c, 0) = {}
    BY DEF Upto
  <1>3. NamesUpto(c, 0) = {}
    BY <1>2 DEF NamesUpto
  <1>4. NewAbigen.clauses = <<>> /\ NewAbigen.tables = {} /\ NewAbigen.ctables = {}
    BY DEF NewAbigen
  <1>5. is_empty(NewAbigen)
    <2>1. set_of_tables(NewAbigen) = {}
      BY <1>4, TablesNone
    <2> QED
      BY <2>1 DEF is_empty, NewAbigen
  <1>6. ClausesAre(NewAbigen.clauses, c, 0)
    BY <1>4 DEF ClausesAre
  <1>7. CollectsUpto(NewAbigen, c, 0)
    BY <1>2, <1>6, CollectsNothing DEF CollectsUpto
  <1> QED
    BY <1>1, <1>3, <1>5, <1>7 DEF Carries, AbisOf

(* A driver that starts has collected nothing. *)
LEMMA GenStart ==
    ASSUME IInv, GenInv, NEW p \in Procs, NEW c \in Commands[p], Start(p, c)
    PROVE  GenInv'
  <1>1. /\ pc[p] = "idle" /\ cmd' = [cmd EXCEPT ![p] = c] /\ files' = files /\ at' = at
        /\ ag' = ag /\ cg' = cg
    BY DEF Start
  <1>2. /\ c.tool = "wasm-cpp" => pc' = [pc EXCEPT ![p] = "abigen"]
        /\ \E l : l # "idle" /\ pc' = [pc EXCEPT ![p] = l]
    <2>1. c.tool \in {"wasm-cpp", "wasm-cc", "wasm-lld"}
      BY CommandFacts
    <2> QED
      BY <2>1 DEF Start
  <1>3. cmd'[p] = c /\ at[p] = 1 /\ (c.tool = "wasm-cpp" => pc'[p] = "abigen") /\ pc'[p] # "idle"
    BY <1>1, <1>2 DEF IInv, Shape, Places
  <1>4. \A q \in Procs : q # p => pc'[q] = pc[q] /\ cmd'[q] = cmd[q]
    BY <1>1, <1>2 DEF IInv, Shape
  <1>5. ASSUME NEW q \in Procs, pc'[q] = "idle"
        PROVE  ag'[q] = NewAbigen /\ cg'[q] = [abis |-> <<>>, names |-> {}]
    BY <1>1, <1>3, <1>4, <1>5 DEF GenInv
  <1>6. ASSUME NEW q \in Procs, pc'[q] \notin {"idle", "ended"}, cmd'[q].tool = "wasm-cpp"
        PROVE  Carries(ag'[q], cg'[q], cmd'[q], pc'[q], at'[q])
    <2>1. CASE q = p
      <3>1. ag'[q] = NewAbigen /\ cg'[q] = [abis |-> <<>>, names |-> {}]
        BY <1>1, <2>1 DEF GenInv
      <3>2. pc'[q] = "abigen" /\ at'[q] = 1 /\ cmd'[q] = c
        BY <1>1, <1>3, <1>6, <2>1
      <3> QED
        BY <3>1, <3>2, CarriesNothing
    <2>2. CASE q # p
      <3>1. pc'[q] = pc[q] /\ cmd'[q] = cmd[q]
        BY <1>4, <2>2
      <3>2. Carries(ag[q], cg[q], cmd[q], pc[q], at[q])
        BY <1>6, <3>1 DEF GenInv, Running
      <3> QED
        BY <1>1, <3>1, <3>2
    <2> QED
      BY <2>1, <2>2
  <1>7. \A q \in Procs : Running(q)' => pc'[q] \notin {"idle", "ended"}
    BY DEF Running
  <1>8. /\ ag' = [q \in Procs |-> ag'[q]]
        /\ cg' = [q \in Procs |-> [abis |-> cg'[q].abis, names |-> cg'[q].names]]
        /\ \A f \in Paths : FileOK(f, files'[f])
    BY <1>1 DEF GenInv
  <1> QED
    BY <1>5, <1>6, <1>7, <1>8 DEF GenInv

(* Initially there are no files. *)
LEMMA GenInit ==
    ASSUME Init
    PROVE  GenInv
  BY DEF Init, GenInv, Running, FileOK

(* Every step keeps GenInv. *)
LEMMA GenNext ==
    ASSUME IInv, GenInv, [Next]_vars
    PROVE  GenInv'
  <1>1. CASE Next
    <2>1. PICK p \in Procs : \/ \E c \in Commands[p] : Start(p, c)
                          \/ Step(p) \/ KeepObject(p) \/ Kill(p)
      BY <1>1 DEF Next
    <2>2. CASE \E c \in Commands[p] : Start(p, c)
      BY <2>2, GenStart
    <2>3. CASE Step(p)
      BY <2>3, GenGenerateAbi, GenOpenCopy, GenWriteCopy, GenCompile, GenRemoveCopy,
         GenWriteAbigenOutput, GenLink, GenFinish DEF Step
    <2>4. CASE Kill(p)
      BY <2>4, GenKill
    <2>5. CASE KeepObject(p)
      BY <2>5, GenKeepObject
    <2> QED
      BY <2>1, <2>2, <2>3, <2>4, <2>5
  <1>2. CASE UNCHANGED vars
    <2>1. files' = files /\ cmd' = cmd /\ pc' = pc /\ at' = at /\ ag' = ag /\ cg' = cg
      BY <1>2 DEF vars, procVars
    <2> QED
      BY <2>1 DEF GenInv, Running
  <1> QED
    BY <1>1, <1>2

(* What abigen and codegen of a process hold, and what ABIs are in files:    *)
(* each was made by to_json from sources that exist, and the ABI of a linked *)
(* contract was merged without error, whatever processes run, fail or are    *)
(* killed (wasm-cpp.cpp.in:130-188, abigen.hpp, Writer.cpp:103-112).         *)
THEOREM GenerationInvariance == Spec => [](IInv /\ GenInv)
  <1>1. Init => IInv /\ GenInv
    BY InitInv, GenInit
  <1>2. IInv /\ GenInv /\ [Next]_vars => IInv' /\ GenInv'
    BY NextInv, GenNext
  <1> QED
    BY <1>1, <1>2, PTL DEF Spec

-----------------------------------------------------------------------------
(* What the linker writes *)

(* An ABI the linker has written agrees with each of those it was made from  *)
(* (abimerge.hpp:46-128), if no struct has the same field twice:             *)
(* struct_is_same only looks up the fields of one struct in the other.       *)
THEOREM ContradictionsRefused == FieldsDistinct => (Spec => []ConflictsRefused)
  <1> SUFFICES ASSUME FieldsDistinct
               PROVE  Spec => []ConflictsRefused
    OBVIOUS
  <1>1. GenInv => ConflictsRefused
    <2> SUFFICES ASSUME GenInv, NEW f \in Paths, f[1] = "abi", files[f] # Absent,
                        NEW i \in DOMAIN files[f].abis, NEW j \in DOMAIN files[f].abis,
                        NEW s \in Sections \ {"variants"},
                        NEW x \in files[f].abis[i].objects[s], NEW y \in files[f].abis[j].objects[s],
                        x.name = y.name
                 PROVE  Agree(s, x, y)
      BY DEF ConflictsRefused, Agree
    <2>1. PICK l : l = files[f].abis
      OBVIOUS
    <2>2. FileOK(f, files[f])
      BY DEF GenInv
    <2>3. GeneratedList(l) /\ writeABI(l).ok
      BY <2>1, <2>2 DEF FileOK
    <2>4. Len(l) \in Nat /\ DOMAIN l = 1 .. Len(l) /\ \A k \in 1 .. Len(l) : Generated(l[k])
      BY <2>3 DEF GeneratedList
    <2>5. ASSUME NEW k \in 1 .. Len(l)
          PROVE  WellFormed(l[k])
      <3>0. PICK S \in SUBSET DOMAIN Decls : \E a : Collects(a, S) /\ l[k] = to_json(a)
        BY <2>4 DEF Generated
      <3>1. PICK a : Collects(a, S) /\ l[k] = to_json(a)
        BY <3>0
      <3>2. S \subseteq DOMAIN Decls
        OBVIOUS
      <3> QED
        BY <3>1, <3>2, JsonWellFormed
    <2>6. WellFormedList(l)
      BY <2>4, <2>5 DEF WellFormedList
    <2>7. i \in 1 .. Len(l) /\ j \in 1 .. Len(l) /\ x \in l[i].objects[s] /\ y \in l[j].objects[s]
      BY <2>1, <2>4
    <2> QED
      BY <2>3, <2>6, <2>7, MergeAgrees
  <1> QED
    BY <1>1, GenerationInvariance, PTL

(* Every ABI written defines what it refers to: validate_struct and          *)
(* validate_types of to_json (abigen.hpp:393-441) leave out nothing that is  *)
(* needed, and the merge keeps all of it (abimerge.hpp:108-128).             *)
THEOREM AbisClosed == NamesResolve => (Spec => []AbiClosed)
  <1> SUFFICES ASSUME NamesResolve
               PROVE  Spec => []AbiClosed
    OBVIOUS
  <1>1. GenInv => AbiClosed
    <2> SUFFICES ASSUME GenInv, NEW f \in Paths, f[1] \in {"abi", "abigen_output"}, files[f] # Absent
                 PROVE  Closed(AbiOf(files[f]).objects)
      BY DEF AbiClosed, Closed
    <2>1. PICK l : l = files[f].abis
      OBVIOUS
    <2>2. FileOK(f, files[f])
      BY DEF GenInv
    <2>3. GeneratedList(l) /\ l # <<>>
      BY <2>1, <2>2 DEF FileOK
    <2>4. Len(l) \in Nat /\ l = [k \in 1 .. Len(l) |-> l[k]] /\ \A k \in 1 .. Len(l) : Generated(l[k])
      BY <2>3 DEF GeneratedList
    <2>5. Len(l) # 0
      BY <2>3, <2>4
    <2>6. ASSUME NEW k \in 1 .. Len(l)
          PROVE  Closed(l[k].objects)
      <3>0. PICK S \in SUBSET DOMAIN Decls : \E a : Collects(a, S) /\ l[k] = to_json(a)
        BY <2>4 DEF Generated
      <3>1. PICK a : Collects(a, S) /\ l[k] = to_json(a)
        BY <3>0
      <3>2. S \subseteq DOMAIN Decls
        OBVIOUS
      <3>3. Complete(a) /\ set_of_tables(a) \subseteq a.tables \union a.ctables
        BY <3>1, <3>2, CollectsComplete, TablesFacts
      <3>4. Closed(to_json(a).objects)
        BY <3>3, JsonClosed
      <3> QED
        BY <3>1, <3>4
    <2>7. Closed(writeABI(l).objects)
      BY <2>4, <2>5, <2>6, MergeClosed
    <2> QED
      BY <2>1, <2>7 DEF AbiOf
  <1> QED
    BY <1>1, GenerationInvariance, PTL

-----------------------------------------------------------------------------
(* What a linking driver that is alone assembles *)

(* What marks a file as absent is not the content of one. *)
AbsentIsNoContent ==
    \A sources, abis, stubs, by, whole : Content(sources, abis, stubs, by, whole) # Absent

(* The stubs codegen writes for input i *)
StubsFor(c, i) ==
    LET s == c.inputs[i] IN
    {Decls[s][j].name : j \in {k \in DOMAIN Decls[s] :
        FirstOfName(s, k) /\ Decls[s][k].mine /\ FullName(Decls[s][k]) \notin NamesUpto(c, i - 1)}}

(* x has what the copy and the object of input i have. *)
Translated(x, c, i) ==
    IF c.tool = "wasm-cpp" /\ c.inputs[i] \notin Library
    THEN /\ \E a : CollectsUpto(a, c, i) /\ x.abis = AbisOf(a)
         /\ x.stubs = StubsFor(c, i)
    ELSE x.abis = <<>> /\ x.stubs = {}

(* x is linked from the objects os of all inputs, the last one first. *)
LinkedFrom(x, os, c) ==
    /\ os = [i \in 1 .. Len(c.inputs) |-> os[i]]
    /\ \A i \in 1 .. Len(c.inputs) : Translated(os[i], c, i)
    /\ x.abis = FlattenSeq([i \in 1 .. Len(c.inputs) |-> os[(Len(c.inputs) - i) + 1].abis])
    /\ x.stubs = UNION {os[i].stubs : i \in 1 .. Len(c.inputs)}

(* x is linked from the objects of the inputs of c. *)
Joint(x, c) == \E os : LinkedFrom(x, os, c)

(* The output and the ABI after the linker ran *)
Together(out, abi, c) ==
    \/ out = Absent /\ abi = Absent
    \/ /\ Joint(out, c)
       /\ abi = IF out.abis # <<>> /\ writeABI(out.abis).ok THEN out ELSE Absent

(* Input i is compiled when part l runs on input n. *)
Compiled(l, n, i) == i < n \/ l \in {"abi", "link"} \/ (i = n /\ l = "compiled")

(* What a linking driver that is alone finds in its copy, objects and ABI *)
Assembly(c, l, e, n, fs) ==
    LET before == l \notin {"linked", "ended"} IN
    /\ before => fs[AbiFile(c)] = Absent
    /\ l = "compile" /\ c.tool = "wasm-cpp" /\ c.inputs[n] \notin Library =>
          LET copy == fs[TmpSource(c.inputs[n])] IN copy # Absent /\ Translated(copy, c, n)
    /\ before =>
          \A i \in DOMAIN c.inputs : Compiled(l, n, i) =>
             LET object == fs[Object(c, c.inputs[i])] IN object = Absent \/ Translated(object, c, i)
    /\ l = "linked" \/ e = "0" => Together(fs[Output(c)], fs[AbiFile(c)], c)

(* The inductive invariant about what is linked *)
Assembles ==
    \A p \in Procs :
        alone[p] /\ pc[p] # "idle" /\ cmd[p].link /\ cmd[p].tool # "wasm-lld" =>
            Assembly(cmd[p], pc[p], exit[p], at[p], files)

(* A step of a process changes no file but those of its command, and nothing *)
(* of another process.                                                       *)
LEMMA OwnChanges ==
    ASSUME IInv, NEW p \in Procs, Step(p) \/ Kill(p)
    PROVE  /\ Running(p) /\ cmd' = cmd /\ alone' = alone
           /\ \A f \in Paths : f \notin Touches(cmd[p]) => files'[f] = files[f]
           /\ \A q \in Procs : q # p => pc'[q] = pc[q] /\ exit'[q] = exit[q] /\ at'[q] = at[q]
  <1>1. Shape /\ Places
    BY DEF IInv
  <1>2. \A l : Goto(p, l) => \A q \in Procs : q # p => pc'[q] = pc[q]
    BY <1>1 DEF Goto, Shape
  <1>3. \A e : Return(p, e) => \A q \in Procs : q # p => pc'[q] = pc[q] /\ exit'[q] = exit[q]
    BY <1>1 DEF Goto, Shape, Return
  <1>4. Running(p) => /\ Touches(cmd[p]) \subseteq Paths /\ Input(p) \in Inputs(cmd[p])
                      /\ cmd[p].tool = "wasm-cpp" => TmpSource(Input(p)) \in Touches(cmd[p])
                      /\ cmd[p].tool # "wasm-lld" => Object(cmd[p], Input(p)) \in Touches(cmd[p])
                      /\ Outputs(cmd[p]) \subseteq Touches(cmd[p])
                      /\ Output(cmd[p]) \in Touches(cmd[p]) /\ AbiFile(cmd[p]) \in Touches(cmd[p])
                      /\ AbigenOutput(cmd[p]) \in Touches(cmd[p])
    <2> SUFFICES ASSUME pc[p] # "idle"
                 PROVE  /\ Touches(cmd[p]) \subseteq Paths /\ Input(p) \in Inputs(cmd[p])
                        /\ cmd[p].tool = "wasm-cpp" => TmpSource(Input(p)) \in Touches(cmd[p])
                        /\ cmd[p].tool # "wasm-lld" => Object(cmd[p], Input(p)) \in Touches(cmd[p])
                        /\ Outputs(cmd[p]) \subseteq Touches(cmd[p])
                        /\ Output(cmd[p]) \in Touches(cmd[p]) /\ AbiFile(cmd[p]) \in Touches(cmd[p])
                        /\ AbigenOutput(cmd[p]) \in Touches(cmd[p])
      BY DEF Running
    <2>1. Touches(cmd[p]) \subseteq Paths /\ Input(p) \in Inputs(cmd[p])
      BY <1>1, RunningFacts
    <2> QED
      BY <2>1, Touched DEF Kept
  <1>5. files = [f \in Paths |-> files[f]] /\ at \in [Procs -> Nat]
    BY <1>1 DEF Shape
  <1>6. CASE Kill(p)
    BY <1>3, <1>6 DEF Kill
  <1>7. CASE GenerateAbi(p)
    BY <1>2, <1>3, <1>7 DEF GenerateAbi, Running
  <1>8. CASE OpenCopy(p)
    <2>1. pc[p] = "codegen" /\ Running(p) /\ cmd[p].tool = "wasm-cpp"
      BY <1>8, CompilingFacts DEF OpenCopy, Running
    <2>2. PICK f, x : f = TmpSource(Input(p)) /\ (files' = files \/ files' = [files EXCEPT ![f] = x])
      BY <1>8 DEF OpenCopy
    <2>3. f \in Touches(cmd[p])
      BY <1>4, <2>1, <2>2
    <2>4. \A g \in Paths : g \notin Touches(cmd[p]) => files'[g] = files[g]
      BY <1>5, <2>2, <2>3
    <2> QED
      BY <1>2, <1>3, <1>8, <2>1, <2>4 DEF OpenCopy
  <1>9. CASE WriteCopy(p)
    <2>1. pc[p] = "write" /\ Running(p) /\ cmd[p].tool = "wasm-cpp"
      BY <1>9, CompilingFacts DEF WriteCopy, Running
    <2>2. PICK f, x : /\ f = TmpSource(Input(p)) /\ files' = [files EXCEPT ![f] = x]
      BY <1>9 DEF WriteCopy
    <2>3. f \in Touches(cmd[p])
      BY <1>4, <2>1, <2>2
    <2>4. \A g \in Paths : g \notin Touches(cmd[p]) => files'[g] = files[g]
      BY <1>5, <2>2, <2>3
    <2> QED
      BY <1>2, <1>3, <1>9, <2>1, <2>4 DEF WriteCopy
  <1>10. CASE Compile(p)
    <2>1. pc[p] = "compile" /\ Running(p) /\ cmd[p].tool # "wasm-lld"
      BY <1>10, CompilingFacts DEF Compile, Running
    <2>2. PICK f, g, x : /\ f = TmpSource(Input(p)) /\ g = Object(cmd[p], Input(p))
                         /\ \/ files' = [files EXCEPT ![g] = x]
                            \/ files' = [h \in Paths |-> IF h \in {f} /\ cmd[p].tool = "wasm-cpp"
                                                         THEN Absent ELSE files[h]]
      BY <1>10 DEF Compile
    <2>3. g \in Touches(cmd[p]) /\ (cmd[p].tool = "wasm-cpp" => f \in Touches(cmd[p]))
      BY <1>4, <2>1, <2>2
    <2>4. \A h \in Paths : h \notin Touches(cmd[p]) => files'[h] = files[h]
      BY <1>5, <2>2, <2>3
    <2> QED
      BY <1>2, <1>3, <1>10, <2>1, <2>4 DEF Compile
  <1>11. CASE RemoveCopy(p)
    <2>1. pc[p] = "compiled" /\ Running(p) /\ NextInput(p)
      BY <1>11 DEF RemoveCopy, Running
    <2>2. PICK f : /\ f = TmpSource(Input(p))
                   /\ files' = [h \in Paths |-> IF cmd[p].tool = "wasm-cpp" /\ h = f
                                                THEN Absent ELSE files[h]]
      BY <1>11 DEF RemoveCopy
    <2>3. cmd[p].tool = "wasm-cpp" => f \in Touches(cmd[p])
      BY <1>4, <2>1, <2>2
    <2>4. \A h \in Paths : h \notin Touches(cmd[p]) => files'[h] = files[h]
      BY <2>2, <2>3
    <2>5. \A q \in Procs : q # p => pc'[q] = pc[q] /\ exit'[q] = exit[q] /\ at'[q] = at[q]
      BY <1>2, <1>3, <1>5, <2>1, NextInputCases
    <2> QED
      BY <1>11, <2>1, <2>4, <2>5 DEF RemoveCopy
  <1>12. CASE WriteAbigenOutput(p)
    <2>1. pc[p] = "abi" /\ Running(p)
      BY <1>12 DEF WriteAbigenOutput, Running
    <2>2. PICK f, x : /\ f = AbigenOutput(cmd[p]) /\ files' = [files EXCEPT ![f] = x]
      BY <1>12 DEF WriteAbigenOutput
    <2>3. f \in Touches(cmd[p])
      BY <1>4, <2>1, <2>2
    <2>4. \A g \in Paths : g \notin Touches(cmd[p]) => files'[g] = files[g]
      BY <1>5, <2>2, <2>3
    <2> QED
      BY <1>2, <1>3, <1>12, <2>1, <2>4 DEF WriteAbigenOutput
  <1>13. CASE Link(p)
    <2>1. pc[p] = "link" /\ Running(p)
      BY <1>13 DEF Link, Running
    <2>2. CASE files' = files
      BY <1>2, <1>13, <2>1, <2>2 DEF Link
    <2>3. CASE Absent \notin ToSet(Objects(p)) /\ files' = Linked(p, Objects(p))
      <3>1. Writes(p)
        BY <2>1, <2>3, LinkedContent
      <3>2. \A g \in Paths : g \notin Touches(cmd[p]) => files'[g] = files[g]
        BY <3>1 DEF Writes
      <3> QED
        BY <1>2, <1>13, <2>1, <3>2 DEF Link
    <2> QED
      BY <1>13, <2>2, <2>3 DEF Link
  <1>14. CASE Finish(p)
    <2>1. pc[p] = "linked" /\ Running(p)
      BY <1>14 DEF Finish, Running
    <2>2. \/ files' = files
          \/ files' = [f \in Paths |-> IF f \in Outputs(cmd[p]) THEN Absent ELSE files[f]]
      BY <1>14 DEF Finish
    <2>3. \A h \in Paths : h \notin Touches(cmd[p]) => files'[h] = files[h]
      BY <1>4, <2>1, <2>2
    <2>4. \E e : Return(p, e)
      BY <1>14 DEF Finish
    <2> QED
      BY <1>3, <1>14, <2>1, <2>3, <2>4 DEF Finish
  <1> QED
    BY <1>6, <1>7, <1>8, <1>9, <1>10, <1>11, <1>12, <1>13, <1>14 DEF Step

(* Assembly depends on the files a command touches only. *)
LEMMA AssemblyFiles ==
    ASSUME NEW c, c.tool \in {"wasm-cpp", "wasm-cc"}, NEW l, NEW e, NEW n \in DOMAIN c.inputs, NEW fs, NEW gs,
           \A f \in Touches(c) : gs[f] = fs[f], Assembly(c, l, e, n, fs)
    PROVE  Assembly(c, l, e, n, gs)
  <1>1. \A i \in DOMAIN c.inputs : c.inputs[i] \in Inputs(c)
    BY DEF Inputs, ToSet
  <1>2. /\ gs[AbiFile(c)] = fs[AbiFile(c)] /\ gs[Output(c)] = fs[Output(c)]
        /\ \A i \in DOMAIN c.inputs : gs[Object(c, c.inputs[i])] = fs[Object(c, c.inputs[i])]
        /\ c.tool = "wasm-cpp" => gs[TmpSource(c.inputs[n])] = fs[TmpSource(c.inputs[n])]
    BY <1>1, Touched DEF Kept
  <1> QED
    BY <1>2 DEF Assembly

(* A step of p keeps what the others find. *)
LEMMA AssemblesStep ==
    ASSUME IInv, Assembles, NEW p \in Procs, Step(p) \/ Kill(p),
           alone[p] /\ cmd[p].link /\ cmd[p].tool # "wasm-lld" =>
              Assembly(cmd[p], pc'[p], exit'[p], at'[p], files')
    PROVE  Assembles'
  <1>1. /\ Running(p) /\ cmd' = cmd /\ alone' = alone
        /\ \A f \in Paths : f \notin Touches(cmd[p]) => files'[f] = files[f]
        /\ \A q \in Procs : q # p => pc'[q] = pc[q] /\ exit'[q] = exit[q] /\ at'[q] = at[q]
    BY OwnChanges
  <1>2. ASSUME NEW q \in Procs, alone'[q], pc'[q] # "idle", cmd'[q].link, cmd'[q].tool # "wasm-lld"
        PROVE  Assembly(cmd'[q], pc'[q], exit'[q], at'[q], files')
    <2>1. CASE q = p
      BY <1>1, <1>2, <2>1
    <2>2. CASE q # p
      <3>1. alone[q] /\ pc[q] # "idle" /\ cmd[q].link /\ cmd[q].tool # "wasm-lld"
        BY <1>1, <1>2, <2>2
      <3>2. Assembly(cmd[q], pc[q], exit[q], at[q], files)
        BY <3>1 DEF Assembles
      <3>3. Touches(cmd[q]) \cap Touches(cmd[p]) = {}
        BY <1>1, <2>2, <3>1 DEF IInv, Undisturbed, Running
      <3>4. Shape /\ Places
        BY DEF IInv
      <3>5. /\ Touches(cmd[q]) \subseteq Paths /\ cmd[q].tool \in {"wasm-cpp", "wasm-cc"}
            /\ at[q] \in DOMAIN cmd[q].inputs
        BY <3>1, <3>4, RunningFacts
      <3>6. \A f \in Touches(cmd[q]) : files'[f] = files[f]
        BY <1>1, <3>3, <3>5
      <3>7. PICK c, l, e, n, fs, gs : /\ c = cmd[q] /\ l = pc[q] /\ e = exit[q] /\ n = at[q]
                                      /\ fs = files /\ gs = files'
        OBVIOUS
      <3>8. Assembly(c, l, e, n, gs)
        BY <3>2, <3>5, <3>6, <3>7, AssemblyFiles
      <3> QED
        BY <1>1, <2>2, <3>7, <3>8
    <2> QED
      BY <2>1, <2>2
  <1>3. \A q \in Procs : alone'[q] /\ pc'[q] # "idle" /\ cmd'[q].link /\ cmd'[q].tool # "wasm-lld" =>
           Assembly(cmd'[q], pc'[q], exit'[q], at'[q], files')
    BY <1>2
  <1> QED
    BY <1>3 DEF Assembles, Assembly, TmpSource, Output, AbiFile, Object

(* What process p finds, if it runs, links and is alone *)
LEMMA AssemblyNow ==
    ASSUME IInv, Assembles, NEW p \in Procs, Running(p), alone[p], cmd[p].link,
           cmd[p].tool # "wasm-lld"
    PROVE  Assembly(cmd[p], pc[p], exit[p], at[p], files)
  BY DEF Assembles, Running

(* A process that does not return 0 promises nothing. *)
LEMMA AssemblyFailed ==
    ASSUME NEW c, NEW e, e # "0", NEW n, NEW fs
    PROVE  Assembly(c, "ended", e, n, fs)
  BY DEF Assembly

(* A process that returns has ended. *)
LEMMA ReturnsAre ==
    ASSUME IInv, NEW p \in Procs, NEW e, Return(p, e)
    PROVE  pc'[p] = "ended" /\ exit'[p] = e
  BY DEF IInv, Shape, Return, Goto

(* A process that goes on is where it goes. *)
LEMMA GoesTo ==
    ASSUME IInv, NEW p \in Procs, NEW l, Goto(p, l)
    PROVE  pc'[p] = l
  BY DEF IInv, Shape, Goto

(* The process goes on, and has compiled no more than before: its copy, the   *)
(* objects it has compiled and its ABI are as before.                         *)
LEMMA AssemblyOn ==
    ASSUME NEW c, NEW k, NEW l, NEW e, NEW n, NEW m, NEW fs, NEW gs,
           k \notin {"linked", "ended"}, l \notin {"linked", "ended"}, e # "0",
           Assembly(c, k, e, n, fs), gs[AbiFile(c)] = fs[AbiFile(c)],
           l = "compile" => c.tool # "wasm-cpp" \/ c.inputs[m] \in Library,
           \A i \in DOMAIN c.inputs : Compiled(l, m, i) =>
              Compiled(k, n, i) /\ gs[Object(c, c.inputs[i])] = fs[Object(c, c.inputs[i])]
    PROVE  Assembly(c, l, e, m, gs)
  BY DEF Assembly

(* A killed process does not succeed. *)
LEMMA AssembleKill ==
    ASSUME IInv, Assembles, NEW p \in Procs, Kill(p)
    PROVE  Assembles'
  BY ReturnsAre, AssemblyFailed, AssemblesStep DEF Kill

(* A process that takes an older object for its own is not alone any more,   *)
(* and the others do not see the step.                                        *)
LEMMA AssembleKeepObject ==
    ASSUME IInv, Assembles, NEW p \in Procs, KeepObject(p)
    PROVE  Assembles'
  <1>1. /\ files' = files /\ cmd' = cmd /\ at' = at /\ exit' = exit
        /\ alone' = [alone EXCEPT ![p] = FALSE] /\ pc' = [pc EXCEPT ![p] = "compiled"]
    BY DEF KeepObject, Goto
  <1>2. ~alone'[p]
    BY <1>1 DEF IInv, Shape
  <1>3. \A q \in Procs : q # p => alone'[q] = alone[q] /\ pc'[q] = pc[q]
    BY <1>1 DEF IInv, Shape
  <1>4. \A q \in Procs : alone'[q] /\ pc'[q] # "idle" /\ cmd'[q].link /\ cmd'[q].tool # "wasm-lld" =>
           Assembly(cmd'[q], pc'[q], exit'[q], at'[q], files')
    BY <1>1, <1>2, <1>3 DEF Assembles
  <1> QED
    BY <1>4 DEF Assembles, Assembly, TmpSource, Output, AbiFile, Object

(* The abigen pass writes no file (wasm-cpp.cpp.in:130-188). *)
LEMMA AssembleGenerateAbi ==
    ASSUME IInv, Assembles, NEW p \in Procs, GenerateAbi(p)
    PROVE  Assembles'
  <1>1. /\ pc[p] = "abigen" /\ Running(p) /\ files' = files /\ at' = at
        /\ Return(p, "-1") \/ (Goto(p, "codegen") /\ exit' = exit)
    BY DEF GenerateAbi, Running
  <1>2. ASSUME alone[p], cmd[p].link, cmd[p].tool # "wasm-lld"
        PROVE  Assembly(cmd[p], pc'[p], exit'[p], at'[p], files')
    <2>1. CASE Return(p, "-1")
      BY <2>1, ReturnsAre, AssemblyFailed
    <2>2. CASE Goto(p, "codegen") /\ exit' = exit
      <3>1. pc'[p] = "codegen" /\ exit[p] = "none"
        BY <1>1, <2>2, GoesTo, StillRunning
      <3>2. Assembly(cmd[p], "abigen", "none", at[p], files)
        BY <1>1, <1>2, <3>1, AssemblyNow
      <3>3. Assembly(cmd[p], "codegen", "none", at[p], files)
        BY <3>2 DEF Assembly, Compiled
      <3> QED
        BY <1>1, <2>2, <3>1, <3>3
    <2> QED
      BY <1>1, <2>1, <2>2
  <1> QED
    BY <1>2, AssemblesStep DEF Step

(* A step that changes one file of an input only *)
LEMMA OneFile ==
    ASSUME IInv, NEW p \in Procs, Running(p), cmd[p].tool # "wasm-lld", cmd[p].link, alone[p],
           NEW g \in {TmpSource(Input(p)), Object(cmd[p], Input(p))},
           \A f \in Paths : f # g => files'[f] = files[f]
    PROVE  /\ files'[AbiFile(cmd[p])] = files[AbiFile(cmd[p])]
           /\ \A i \in DOMAIN cmd[p].inputs :
                 i # at[p] \/ g = TmpSource(Input(p)) =>
                    files'[Object(cmd[p], cmd[p].inputs[i])] = files[Object(cmd[p], cmd[p].inputs[i])]
  <1>1. /\ Input(p) = cmd[p].inputs[at[p]] /\ at[p] \in DOMAIN cmd[p].inputs
        /\ Kept(cmd[p]) \subseteq Paths /\ cmd[p].tool \in {"wasm-cpp", "wasm-cc"}
    BY OwnFiles
  <1>2. AbiFile(cmd[p]) \in Kept(cmd[p])
    BY DEF Kept
  <1>3. TmpSource(Input(p)) \notin Kept(cmd[p]) /\ Object(cmd[p], Input(p)) \notin Kept(cmd[p])
    BY <1>1, Apart
  <1>4. \A i \in DOMAIN cmd[p].inputs :
           at[p] # i \/ g = TmpSource(cmd[p].inputs[at[p]]) =>
              files'[Object(cmd[p], cmd[p].inputs[i])] = files[Object(cmd[p], cmd[p].inputs[i])]
    <2>1. PICK n : n = at[p]
      OBVIOUS
    <2>2. n \in DOMAIN cmd[p].inputs /\ g \in {TmpSource(cmd[p].inputs[n]), Object(cmd[p], cmd[p].inputs[n])}
      BY <1>1, <2>1
    <2> QED
      BY <2>1, <2>2, OthersStay
  <1> QED
    BY <1>1, <1>2, <1>3, <1>4

(* The copy that is only opened is not compiled yet (codegen.hpp:386-411). *)
LEMMA AssembleOpenCopy ==
    ASSUME IInv, Assembles, NEW p \in Procs, OpenCopy(p)
    PROVE  Assembles'
  <1> DEFINE s == Input(p)
             c == cmd[p]
  <1>1. pc[p] = "codegen" /\ Running(p) /\ at' = at
    BY DEF OpenCopy, Running
  <1>2. ASSUME alone[p], c.link, c.tool # "wasm-lld"
        PROVE  Assembly(c, pc'[p], exit'[p], at'[p], files')
    <2>1. exit[p] = "none" /\ Assembly(c, "codegen", "none", at[p], files)
      BY <1>1, <1>2, StillRunning, AssemblyNow
    <2>2. CASE s \notin Library /\ Goto(p, "write") /\ exit' = exit
               /\ files' = [files EXCEPT ![TmpSource(s)] = Content({s}, <<>>, {}, p, FALSE)]
      <3>1. PICK g : g = TmpSource(s)
        OBVIOUS
      <3>2. \A f \in Paths : f # g => files'[f] = files[f]
        BY <2>2, <3>1 DEF IInv, Shape
      <3>3. /\ files'[AbiFile(c)] = files[AbiFile(c)]
            /\ \A i \in DOMAIN c.inputs : files'[Object(c, c.inputs[i])] = files[Object(c, c.inputs[i])]
        BY <1>1, <1>2, <3>1, <3>2, OneFile
      <3>4. pc'[p] = "write"
        BY <2>2, GoesTo
      <3>5. PICK gs : gs = files'
        OBVIOUS
      <3>6. Assembly(c, "write", "none", at[p], gs)
        BY <2>1, <3>3, <3>5, AssemblyOn DEF Compiled
      <3> QED
        BY <1>1, <2>1, <2>2, <3>4, <3>5, <3>6
    <2>3. CASE s \in Library /\ Goto(p, "compile") /\ files' = files /\ exit' = exit
      <3>1. pc'[p] = "compile"
        BY <2>3, GoesTo
      <3>2. c.inputs[at[p]] \in Library
        BY <2>3 DEF Input
      <3>3. Assembly(c, "compile", "none", at[p], files)
        BY <2>1, <3>2 DEF Assembly, Compiled
      <3> QED
        BY <1>1, <2>1, <2>3, <3>1, <3>3
    <2>4. CASE Return(p, "-1")
      BY <2>4, ReturnsAre, AssemblyFailed
    <2> QED
      BY <2>2, <2>3, <2>4 DEF OpenCopy
  <1> QED
    BY <1>2, AssemblesStep DEF Step

(* The copy gets the ABI of all inputs so far and the stubs of new actions   *)
(* (codegen.hpp:291-310, 412-438).                                           *)
LEMMA AssembleWriteCopy ==
    ASSUME AbsentIsNoContent, IInv, GenInv, Assembles, NEW p \in Procs, WriteCopy(p)
    PROVE  Assembles'
  <1> DEFINE s == Input(p)
             c == cmd[p]
             x == Content({s}, cg[p].abis, Stubs(p, s), p, TRUE)
  <1>1. /\ pc[p] = "write" /\ Running(p) /\ at' = at
        /\ files' = [files EXCEPT ![TmpSource(s)] = x]
        /\ (Goto(p, "compile") /\ exit' = exit) \/ Return(p, "-1")
    BY DEF WriteCopy, Running
  <1>2. ASSUME alone[p], c.link, c.tool # "wasm-lld"
        PROVE  Assembly(c, pc'[p], exit'[p], at'[p], files')
    <2>1. exit[p] = "none" /\ Assembly(c, "write", "none", at[p], files)
      BY <1>1, <1>2, StillRunning, AssemblyNow
    <2>2. CASE Goto(p, "compile") /\ exit' = exit
      <3>1. PICK g : g = TmpSource(s)
        OBVIOUS
      <3>2. g \in Paths /\ c.tool = "wasm-cpp"
        <4>1. c.tool = "wasm-cpp" /\ s \in Inputs(c)
          BY <1>1, <1>2, CompilingFacts, OwnFiles
        <4> QED
          BY <1>1, <1>2, <3>1, <4>1, OwnFiles
      <3>3. files'[g] = x /\ \A f \in Paths : f # g => files'[f] = files[f]
        BY <1>1, <3>1, <3>2 DEF IInv, Shape
      <3>4. /\ files'[AbiFile(c)] = files[AbiFile(c)]
            /\ \A i \in DOMAIN c.inputs : files'[Object(c, c.inputs[i])] = files[Object(c, c.inputs[i])]
        BY <1>1, <1>2, <3>1, <3>3, OneFile
      <3>5. pc'[p] = "compile"
        BY <2>2, GoesTo
      <3>6. Translated(x, c, at[p])
        <4>1. Carries(ag[p], cg[p], c, "write", at[p])
          BY <1>1, <3>2, CodegenGenerated
        <4>2. CollectsUpto(ag[p], c, at[p]) /\ cg[p].abis = AbisOf(ag[p]) /\ cg[p].names = NamesUpto(c, at[p] - 1)
          BY <4>1 DEF Carries, Seen, Written
        <4>3. x.abis = AbisOf(ag[p]) /\ x.stubs = Stubs(p, s)
          BY <4>2 DEF Content
        <4>4. s = c.inputs[at[p]] /\ s \notin Library
          BY <1>1, StillRunning DEF Input, Busy
        <4>5. Stubs(p, s) = StubsFor(c, at[p])
          BY <4>2, <4>4 DEF Stubs, StubsFor
        <4> HIDE DEF x, s, c
        <4> QED
          BY <3>2, <4>2, <4>3, <4>4, <4>5 DEF Translated
      <3>7. x # Absent
        BY DEF AbsentIsNoContent
      <3>8. g = TmpSource(c.inputs[at[p]])
        BY <3>1 DEF Input
      <3> HIDE DEF x, c, s
      <3>9. PICK gs : gs = files'
        OBVIOUS
      <3>10. Assembly(c, "compile", "none", at[p], gs)
        BY <2>1, <3>3, <3>4, <3>6, <3>7, <3>8, <3>9 DEF Assembly, Compiled
      <3> QED
        BY <1>1, <2>1, <2>2, <3>5, <3>9, <3>10
    <2>3. CASE Return(p, "-1")
      BY <2>3, ReturnsAre, AssemblyFailed
    <2> QED
      BY <1>1, <2>2, <2>3
  <1> QED
    BY <1>2, AssemblesStep DEF Step

(* The object has what the copy had (utils.hpp:180-192). *)
LEMMA AssembleCompile ==
    ASSUME IInv, Assembles, NEW p \in Procs, Compile(p)
    PROVE  Assembles'
  <1> DEFINE object == Object(cmd[p], Input(p))
             s == Source(p)
             c == cmd[p]
             x == Content(s.sources, s.abis, s.stubs, p, s.whole)
  <1>1. /\ pc[p] = "compile" /\ Running(p) /\ at' = at
        /\ \/ /\ files' = [files EXCEPT ![object] = x] \/ files' = [files EXCEPT ![object] = Absent]
              /\ Goto(p, "compiled") /\ exit' = exit
           \/ Return(p, "-1")
    BY DEF Compile, Running
  <1>2. ASSUME alone[p], c.link, c.tool # "wasm-lld"
        PROVE  Assembly(c, pc'[p], exit'[p], at'[p], files')
    <2>1. exit[p] = "none" /\ Assembly(c, "compile", "none", at[p], files)
      BY <1>1, <1>2, StillRunning, AssemblyNow
    <2>2. CASE Goto(p, "compiled") /\ exit' = exit
               /\ (files' = [files EXCEPT ![object] = x] \/ files' = [files EXCEPT ![object] = Absent])
      <3>1. Input(p) = c.inputs[at[p]] /\ at[p] \in DOMAIN c.inputs /\ Input(p) \in Inputs(c) /\ at[p] \in Nat
            /\ DOMAIN c.inputs = 1 .. Len(c.inputs)
        BY <1>1, <1>2, OwnFiles
      <3>2. object \in Paths
        BY <1>1, <1>2, <3>1, OwnFiles
      <3>3. files'[object] \in {x, Absent} /\ \A f \in Paths : f # object => files'[f] = files[f]
        BY <2>2, <3>2 DEF IInv, Shape
      <3>4. /\ files'[AbiFile(c)] = files[AbiFile(c)]
            /\ \A i \in DOMAIN c.inputs :
                  i # at[p] => files'[Object(c, c.inputs[i])] = files[Object(c, c.inputs[i])]
        <4>1. PICK g : g = object
          OBVIOUS
        <4> QED
          BY <1>1, <1>2, <3>3, <4>1, OneFile
      <3>5. pc'[p] = "compiled"
        BY <2>2, GoesTo
      <3>6. Translated(x, c, at[p])
        <4>1. CASE c.tool = "wasm-cpp" /\ c.inputs[at[p]] \notin Library
          <5>1. PICK copy : copy = files[TmpSource(c.inputs[at[p]])]
            OBVIOUS
          <5>2. copy # Absent /\ Translated(copy, c, at[p])
            BY <2>1, <4>1, <5>1 DEF Assembly
          <5>3. s = copy
            BY <3>1, <4>1, <5>1, <5>2 DEF Source
          <5>4. x.abis = copy.abis /\ x.stubs = copy.stubs
            BY <5>3 DEF Content
          <5> HIDE DEF x, c
          <5> QED
            BY <5>2, <5>4 DEF Translated
        <4>2. CASE ~(c.tool = "wasm-cpp" /\ c.inputs[at[p]] \notin Library)
          <5>1. c.tool = "wasm-cpp" => files[TmpSource(Input(p))] = Absent
            <6>1. Building(p, c, "compile", "none", at[p], files)
              BY <1>1, <1>2, StillRunning
            <6> QED
              BY <3>1, <4>2, <6>1 DEF Building
          <5>2. s = Content({Input(p)}, <<>>, {}, p, TRUE)
            BY <5>1 DEF Source
          <5>3. x.abis = <<>> /\ x.stubs = {}
            BY <5>2 DEF Content
          <5> HIDE DEF x, c
          <5> QED
            BY <4>2, <5>3 DEF Translated
        <4> QED
          BY <4>1, <4>2
      <3>7. object = Object(c, c.inputs[at[p]])
        BY <3>1
      <3> HIDE DEF x, c, s, object
      <3>8. PICK gs : gs = files'
        OBVIOUS
      <3>9. gs[AbiFile(c)] = Absent
        BY <2>1, <3>4, <3>8 DEF Assembly
      <3>10. ASSUME NEW i \in DOMAIN c.inputs, Compiled("compiled", at[p], i)
             PROVE  gs[Object(c, c.inputs[i])] = Absent \/ Translated(gs[Object(c, c.inputs[i])], c, i)
        <4>1. CASE i = at[p]
          <5>1. gs[Object(c, c.inputs[i])] \in {x, Absent}
            BY <3>3, <3>7, <3>8, <4>1
          <5> QED
            BY <3>6, <4>1, <5>1
        <4>2. CASE i # at[p]
          <5>1. Compiled("compile", at[p], i)
            BY <3>10, <4>2 DEF Compiled
          <5>2. gs[Object(c, c.inputs[i])] = files[Object(c, c.inputs[i])]
            BY <3>4, <3>8, <4>2
          <5>3. files[Object(c, c.inputs[i])] = Absent \/ Translated(files[Object(c, c.inputs[i])], c, i)
            BY <2>1, <5>1 DEF Assembly
          <5> QED
            BY <5>2, <5>3
        <4> QED
          BY <4>1, <4>2
      <3>11. Assembly(c, "compiled", "none", at[p], gs)
        BY <3>9, <3>10 DEF Assembly
      <3> QED
        BY <1>1, <2>1, <2>2, <3>5, <3>8, <3>11
    <2>3. CASE Return(p, "-1")
      BY <2>3, ReturnsAre, AssemblyFailed
    <2> QED
      BY <1>1, <2>2, <2>3
  <1> QED
    BY <1>2, AssemblesStep DEF Step

(* Objects stay when the copy is removed (wasm-cpp.cpp.in:246-251). *)
LEMMA AssembleRemoveCopy ==
    ASSUME IInv, Assembles, NEW p \in Procs, RemoveCopy(p)
    PROVE  Assembles'
  <1> DEFINE c == cmd[p]
  <1>1. /\ pc[p] = "compiled" /\ Running(p) /\ NextInput(p)
        /\ files' = [f \in Paths |-> IF cmd[p].tool = "wasm-cpp" /\ f = TmpSource(Input(p))
                                     THEN Absent ELSE files[f]]
    BY DEF RemoveCopy, Running
  <1>2. ASSUME alone[p], c.link, c.tool # "wasm-lld"
        PROVE  Assembly(c, pc'[p], exit'[p], at'[p], files')
    <2>1. exit[p] = "none" /\ Assembly(c, "compiled", "none", at[p], files)
      BY <1>1, <1>2, StillRunning, AssemblyNow
    <2>2. PICK g : g = TmpSource(Input(p))
      OBVIOUS
    <2>3. \A f \in Paths : f # g => files'[f] = files[f]
      BY <1>1, <2>2
    <2>4. /\ files'[AbiFile(c)] = files[AbiFile(c)]
          /\ \A i \in DOMAIN c.inputs : files'[Object(c, c.inputs[i])] = files[Object(c, c.inputs[i])]
      BY <1>1, <1>2, <2>2, <2>3, OneFile
    <2>5. PICK gs : gs = files'
      OBVIOUS
    <2>6. /\ at[p] \in Nat /\ at[p] \in DOMAIN c.inputs /\ DOMAIN c.inputs = 1 .. Len(c.inputs)
          /\ Len(c.inputs) \in Nat
      BY <1>1, <1>2, OwnFiles
    <2>7. CASE /\ at[p] < Len(c.inputs) /\ at' = [at EXCEPT ![p] = at[p] + 1] /\ exit' = exit
               /\ \/ c.tool = "wasm-cpp" /\ Goto(p, "abigen")
                  \/ c.tool # "wasm-cpp" /\ Goto(p, "compile")
      <3>1. PICK l \in {"abigen", "compile"} : pc'[p] = l /\ (l = "compile" => c.tool # "wasm-cpp")
        BY <2>7, GoesTo
      <3>2. at'[p] = at[p] + 1
        BY <2>7 DEF IInv, Shape
      <3>3. \A i \in DOMAIN c.inputs : Compiled(l, at[p] + 1, i) => Compiled("compiled", at[p], i)
        BY <2>6, <3>1 DEF Compiled
      <3> HIDE DEF c
      <3>4. PICK m : m = at[p] + 1
        OBVIOUS
      <3>5. Assembly(c, l, "none", m, gs)
        BY <2>1, <2>4, <2>5, <3>1, <3>3, <3>4, AssemblyOn
      <3> QED
        BY <2>1, <2>5, <2>7, <3>1, <3>2, <3>4, <3>5
    <2>8. CASE /\ ~(at[p] < Len(c.inputs)) /\ at' = at /\ exit' = exit
               /\ \/ c.tool = "wasm-cpp" /\ Goto(p, "abi")
                  \/ Goto(p, "link")
      <3>1. PICK l \in {"abi", "link"} : pc'[p] = l
        BY <2>8, GoesTo
      <3>2. at[p] = Len(c.inputs)
        BY <2>6, <2>8
      <3>3. \A i \in DOMAIN c.inputs : Compiled("compiled", at[p], i)
        BY <2>6, <3>2 DEF Compiled
      <3> HIDE DEF c
      <3>4. Assembly(c, l, "none", at[p], gs)
        BY <2>1, <2>4, <2>5, <3>1, <3>3, AssemblyOn
      <3> QED
        BY <2>1, <2>5, <2>8, <3>1, <3>4
    <2>9. CASE ~c.link
      BY <1>2, <2>9
    <2> QED
      BY <1>1, <2>7, <2>8, <2>9, NextInputCases
  <1> QED
    BY <1>2, AssemblesStep DEF Step

(* The files a linking driver keeps are not those of an input. *)
LEMMA KeptApart ==
    ASSUME NEW c, c.link, c.tool \in {"wasm-cpp", "wasm-cc"}
    PROVE  /\ Output(c) \notin Outputs(c) /\ AbiFile(c) \notin Outputs(c)
           /\ AbigenOutput(c) # AbiFile(c) /\ AbigenOutput(c) # Output(c) /\ AbiFile(c) # Output(c)
           /\ \A s : Object(c, s) # AbigenOutput(c)
  <1>1. \A s : Object(c, s) \notin Kept(c)
    BY Apart
  <1>2. Outputs(c) = {Object(c, s) : s \in Inputs(c)}
    BY DEF Outputs
  <1>3. AbigenOutput(c) # AbiFile(c) /\ AbigenOutput(c) # Output(c) /\ AbiFile(c) # Output(c)
    BY DEF AbigenOutput, AbiFile, Output
  <1> QED
    BY <1>1, <1>2, <1>3 DEF Kept

(* The file of --abigen is not one of those linked (wasm-                    *)
(* cpp.cpp.in:257-266).                                                      *)
LEMMA AssembleWriteAbigenOutput ==
    ASSUME IInv, Assembles, NEW p \in Procs, WriteAbigenOutput(p)
    PROVE  Assembles'
  <1> DEFINE c == cmd[p]
  <1>1. /\ pc[p] = "abi" /\ Running(p) /\ at' = at
        /\ files' = [files EXCEPT ![AbigenOutput(c)] =
                         Content(Inputs(c), <<to_json(ag[p])>>, {}, p, TRUE)]
        /\ c.link => Goto(p, "link") /\ exit' = exit
    BY DEF WriteAbigenOutput, Running
  <1>2. ASSUME alone[p], c.link, c.tool # "wasm-lld"
        PROVE  Assembly(c, pc'[p], exit'[p], at'[p], files')
    <2>1. exit[p] = "none" /\ Assembly(c, "abi", "none", at[p], files)
      BY <1>1, <1>2, StillRunning, AssemblyNow
    <2>2. PICK g : g = AbigenOutput(c)
      OBVIOUS
    <2>3. \A f \in Paths : f # g => files'[f] = files[f]
      BY <1>1, <2>2 DEF IInv, Shape
    <2>4. /\ c.tool \in {"wasm-cpp", "wasm-cc"} /\ Touches(c) \subseteq Paths
          /\ Kept(c) \subseteq Touches(c)
          /\ \A i \in DOMAIN c.inputs : Object(c, c.inputs[i]) \in Touches(c)
      BY <1>1, <1>2, OwnFiles
    <2>5. AbiFile(c) # g /\ \A i \in DOMAIN c.inputs : Object(c, c.inputs[i]) # g
      BY <1>2, <2>2, <2>4, KeptApart
    <2>6. /\ files'[AbiFile(c)] = files[AbiFile(c)]
          /\ \A i \in DOMAIN c.inputs : files'[Object(c, c.inputs[i])] = files[Object(c, c.inputs[i])]
      BY <2>3, <2>4, <2>5 DEF Kept
    <2>7. pc'[p] = "link" /\ exit' = exit
      BY <1>1, <1>2, GoesTo
    <2>8. PICK gs : gs = files'
      OBVIOUS
    <2>9. Assembly(c, "link", "none", at[p], gs)
      BY <2>1, <2>6, <2>8, AssemblyOn DEF Compiled
    <2> QED
      BY <1>1, <2>1, <2>7, <2>8, <2>9
  <1> QED
    BY <1>2, AssemblesStep DEF Step

(* The objects go, the output and the ABI stay (wasm-cpp.cpp.in:274-285). *)
LEMMA AssembleFinish ==
    ASSUME IInv, Assembles, NEW p \in Procs, Finish(p)
    PROVE  Assembles'
  <1> DEFINE c == cmd[p]
  <1>1. /\ pc[p] = "linked" /\ Running(p)
        /\ c.tool # "wasm-lld" =>
              files' = [f \in Paths |-> IF f \in Outputs(c) THEN Absent ELSE files[f]]
    BY DEF Finish, Running
  <1>2. PICK e : Return(p, e)
    BY DEF Finish
  <1>3. ASSUME alone[p], c.link, c.tool # "wasm-lld"
        PROVE  Assembly(c, pc'[p], exit'[p], at'[p], files')
    <2>1. Assembly(c, "linked", exit[p], at[p], files)
      BY <1>1, <1>3, AssemblyNow
    <2>2. Together(files[Output(c)], files[AbiFile(c)], c)
      BY <2>1 DEF Assembly
    <2>3. /\ c.tool \in {"wasm-cpp", "wasm-cc"} /\ Kept(c) \subseteq Paths
      BY <1>1, <1>3, OwnFiles
    <2>4. files'[Output(c)] = files[Output(c)] /\ files'[AbiFile(c)] = files[AbiFile(c)]
      <3>1. Output(c) \notin Outputs(c) /\ AbiFile(c) \notin Outputs(c)
        BY <1>3, <2>3, KeptApart
      <3>2. Output(c) \in Paths /\ AbiFile(c) \in Paths
        BY <2>3 DEF Kept
      <3> QED
        BY <1>1, <1>3, <3>1, <3>2
    <2>5. pc'[p] = "ended"
      BY <1>2, ReturnsAre
    <2>6. PICK gs : gs = files'
      OBVIOUS
    <2>7. Together(gs[Output(c)], gs[AbiFile(c)], c)
      BY <2>2, <2>4, <2>6
    <2>8. Assembly(c, "ended", exit'[p], at'[p], gs)
      BY <2>7 DEF Assembly
    <2> QED
      BY <2>5, <2>6, <2>8
  <1> QED
    BY <1>3, AssemblesStep DEF Step

(* The linker gets the objects in the reverse order of the inputs. *)
LEMMA AssembleLink ==
    ASSUME IInv, Assembles, NEW p \in Procs, Link(p)
    PROVE  Assembles'
  <1> DEFINE c == cmd[p]
             N == Len(c.inputs)
  <1>1. /\ pc[p] = "link" /\ Running(p) /\ at' = at /\ exit' = exit /\ Goto(p, "linked")
        /\ \/ files' = files
           \/ Absent \notin ToSet(Objects(p)) /\ files' = Linked(p, Objects(p))
    BY DEF Link, Running
  <1>2. ASSUME alone[p], c.link, c.tool # "wasm-lld"
        PROVE  Assembly(c, pc'[p], exit'[p], at'[p], files')
    <2>1. exit[p] = "none" /\ Assembly(c, "link", "none", at[p], files)
      BY <1>1, <1>2, StillRunning, AssemblyNow
    <2>2. /\ N \in Nat /\ DOMAIN c.inputs = 1 .. N /\ Output(c) \in Paths /\ AbiFile(c) \in Paths
          /\ c.tool \in {"wasm-cpp", "wasm-cc"}
      BY <1>1, <1>2, OwnFiles DEF Kept
    <2>3. files[Output(c)] = Absent /\ files[AbiFile(c)] = Absent
      <3>1. Building(p, c, "link", "none", at[p], files)
        BY <1>1, <1>2, StillRunning
      <3> QED
        BY <2>1, <3>1 DEF Building, Assembly
    <2>4. ASSUME Absent \notin ToSet(Objects(p)), files' = Linked(p, Objects(p))
          PROVE  Together(files'[Output(c)], files'[AbiFile(c)], c)
      <3>1. PICK os : os = [i \in 1 .. N |-> files[Object(c, c.inputs[i])]]
        OBVIOUS
      <3>2. os = [i \in 1 .. N |-> os[i]] /\ \A i \in 1 .. N : os[i] = files[Object(c, c.inputs[i])]
        BY <3>1
      <3>3. ToSet(Objects(p)) = {files[Object(c, c.inputs[i])] : i \in DOMAIN c.inputs}
        BY <1>2, <2>2, ObjectsAre
      <3>4. \A i \in 1 .. N : Translated(os[i], c, i)
        <4> TAKE i \in 1 .. N
        <4>1. files[Object(c, c.inputs[i])] # Absent
          BY <2>2, <2>4, <3>3
        <4>2. Compiled("link", at[p], i)
          BY DEF Compiled
        <4> QED
          BY <2>1, <2>2, <3>2, <4>1, <4>2 DEF Assembly
      <3>5. PICK rev : rev = Objects(p)
        OBVIOUS
      <3>6. rev = [i \in 1 .. N |-> os[(N - i) + 1]]
        <4>1. rev = Reverse([i \in DOMAIN c.inputs |-> files[Object(c, c.inputs[i])]])
          BY <1>2, <3>5 DEF Objects
        <4>2. rev = Reverse(os)
          BY <2>2, <3>1, <4>1
        <4>3. Len(os) = N
          BY <2>2, <3>1
        <4> HIDE DEF N
        <4> QED
          BY <4>2, <4>3 DEF Reverse
      <3>7. ToSet(rev) = {os[i] : i \in 1 .. N}
        BY <2>2, <3>2, <3>3, <3>5
      <3>8. PICK seqs : seqs = [i \in DOMAIN rev |-> rev[i].abis]
        OBVIOUS
      <3>9. seqs = [i \in 1 .. N |-> os[(N - i) + 1].abis]
        <4> HIDE DEF N
        <4> QED
          BY <3>6, <3>8
      <3>10. PICK abis, stubs : abis = FlattenSeq(seqs) /\ stubs = UNION {o.stubs : o \in ToSet(rev)}
        OBVIOUS
      <3>11. stubs = UNION {os[i].stubs : i \in 1 .. N}
        <4> HIDE DEF N
        <4> QED
          BY <3>7, <3>10
      <3>12. PICK x : x = Content(UNION {o.sources : o \in ToSet(rev)}, abis, stubs, p,
                                  \A o \in ToSet(rev) : o.whole)
        OBVIOUS
      <3>13. x.abis = abis /\ x.stubs = stubs
        BY <3>12 DEF Content
      <3>14. files' = IF abis # <<>> /\ writeABI(abis).ok
                      THEN [files EXCEPT ![Output(c)] = x, ![AbiFile(c)] = x]
                      ELSE [files EXCEPT ![Output(c)] = x]
        BY <2>4, <3>5, <3>8, <3>10, <3>12 DEF Linked
      <3>15. files = [f \in Paths |-> files[f]] /\ AbiFile(c) # Output(c)
        BY DEF IInv, Shape, AbiFile, Output
      <3>16. Joint(x, c)
        <4>1. x.abis = FlattenSeq([i \in 1 .. N |-> os[(N - i) + 1].abis])
          BY <3>9, <3>10, <3>13
        <4>2. LinkedFrom(x, os, c)
          BY <3>2, <3>4, <3>11, <3>13, <4>1 DEF LinkedFrom
        <4> QED
          BY <4>2 DEF Joint
      <3>17. PICK f, g : f = Output(c) /\ g = AbiFile(c)
        OBVIOUS
      <3>18. /\ f \in Paths /\ g \in Paths /\ f # g /\ files[g] = Absent
             /\ files' = IF abis # <<>> /\ writeABI(abis).ok
                         THEN [files EXCEPT ![f] = x, ![g] = x] ELSE [files EXCEPT ![f] = x]
        BY <2>2, <2>3, <3>14, <3>15, <3>17
      <3> HIDE DEF c, N
      <3>19. files'[f] = x /\ files'[g] = IF abis # <<>> /\ writeABI(abis).ok THEN x ELSE Absent
        <4>1. CASE abis # <<>> /\ writeABI(abis).ok
          <5>1. files' = [files EXCEPT ![f] = x, ![g] = x]
            BY <3>18, <4>1
          <5> QED
            BY <3>15, <3>18, <4>1, <5>1
        <4>2. CASE ~(abis # <<>> /\ writeABI(abis).ok)
          <5>1. files' = [files EXCEPT ![f] = x]
            BY <3>18, <4>2
          <5> QED
            BY <3>15, <3>18, <4>2, <5>1
        <4> QED
          BY <4>1, <4>2
      <3>20. Together(x, files'[g], c)
        BY <3>13, <3>16, <3>19 DEF Together
      <3> QED
        BY <3>17, <3>19, <3>20
    <2>5. Together(files'[Output(c)], files'[AbiFile(c)], c)
      <3>1. CASE files' = files
        BY <2>3, <3>1 DEF Together
      <3> QED
        BY <1>1, <2>4, <3>1
    <2>6. PICK gs : gs = files'
      OBVIOUS
    <2>7. Together(gs[Output(c)], gs[AbiFile(c)], c)
      BY <2>5, <2>6
    <2>8. pc'[p] = "linked"
      BY <1>1, GoesTo
    <2> HIDE DEF c
    <2>9. Assembly(c, "linked", exit'[p], at'[p], gs)
      BY <2>7 DEF Assembly
    <2> QED
      BY <2>6, <2>8, <2>9
  <1> QED
    BY <1>2, AssemblesStep DEF Step

(* A driver that nothing hinders starts without output and ABI. *)
LEMMA AssembleStart ==
    ASSUME IInv, Assembles, NEW p \in Procs, NEW c \in Commands[p], Start(p, c)
    PROVE  Assembles'
  <1>1. /\ pc[p] = "idle" /\ cmd' = [cmd EXCEPT ![p] = c] /\ files' = files /\ at' = at
        /\ exit' = exit
        /\ alone' = [q \in Procs |->
                        CASE q = p -> ~Hindered(c) /\ \A r \in Sharing(c) : ~Running(r)
                          [] q # p -> alone[q] /\ q \notin Sharing(c)]
    BY DEF Start
  <1>2. c.tool \in {"wasm-cpp", "wasm-cc", "wasm-lld"}
    BY CommandFacts
  <1>3. PICK l : /\ pc' = [pc EXCEPT ![p] = l]
                 /\ c.tool # "wasm-lld" => l \in {"abigen", "compile"}
                 /\ l = "compile" => c.tool # "wasm-cpp"
    <2>1. PICK l : /\ l = CASE c.tool = "wasm-cpp" -> "abigen"
                            [] c.tool = "wasm-cc" -> "compile"
                            [] c.tool = "wasm-lld" -> "link"
      OBVIOUS
    <2>2. pc' = [pc EXCEPT ![p] = l]
      BY <2>1 DEF Start
    <2>3. /\ c.tool # "wasm-lld" => l \in {"abigen", "compile"}
          /\ l = "compile" => c.tool # "wasm-cpp"
      BY <1>2, <2>1
    <2> QED
      BY <2>2, <2>3
  <1>4. cmd'[p] = c /\ at'[p] = 1 /\ exit'[p] = "none" /\ pc'[p] = l /\ (alone'[p] => ~Hindered(c))
    BY <1>1, <1>3 DEF IInv, Shape, Places
  <1>5. \A q \in Procs : q # p => pc'[q] = pc[q] /\ cmd'[q] = cmd[q] /\ (alone'[q] => alone[q])
    BY <1>1, <1>3 DEF IInv, Shape
  <1>6. ASSUME NEW q \in Procs, alone'[q], pc'[q] # "idle", cmd'[q].link, cmd'[q].tool # "wasm-lld"
        PROVE  Assembly(cmd'[q], pc'[q], exit'[q], at'[q], files')
    <2>1. CASE q = p
      <3>1. files[AbiFile(c)] = Absent
        BY <1>4, <1>6, <2>1 DEF Hindered
      <3>2. l \in {"abigen", "compile"} /\ (l = "compile" => c.tool # "wasm-cpp")
        BY <1>3, <1>4, <1>6, <2>1
      <3>3. \A i \in DOMAIN c.inputs : ~Compiled(l, 1, i)
        <4>1. DOMAIN c.inputs = 1 .. Len(c.inputs) /\ Len(c.inputs) \in Nat
          BY CommandFacts
        <4> QED
          BY <3>2, <4>1 DEF Compiled
      <3>4. Assembly(c, l, "none", 1, files)
        BY <3>1, <3>2, <3>3 DEF Assembly
      <3> QED
        BY <1>1, <1>4, <2>1, <3>4
    <2>2. CASE q # p
      <3>1. pc'[q] = pc[q] /\ cmd'[q] = cmd[q] /\ alone[q]
        BY <1>5, <1>6, <2>2
      <3>2. Assembly(cmd[q], pc[q], exit[q], at[q], files)
        BY <1>6, <3>1 DEF Assembles
      <3> QED
        BY <1>1, <3>1, <3>2
    <2> QED
      BY <2>1, <2>2
  <1>7. \A q \in Procs : alone'[q] /\ pc'[q] # "idle" /\ cmd'[q].link /\ cmd'[q].tool # "wasm-lld" =>
           Assembly(cmd'[q], pc'[q], exit'[q], at'[q], files')
    BY <1>6
  <1> QED
    BY <1>7 DEF Assembles, Assembly, TmpSource, Output, AbiFile, Object

(* Every step keeps Assembles. *)
LEMMA AssembleNext ==
    ASSUME AbsentIsNoContent, IInv, GenInv, Assembles, [Next]_vars
    PROVE  Assembles'
  <1>1. CASE Next
    <2>1. PICK p \in Procs : \/ \E c \in Commands[p] : Start(p, c)
                          \/ Step(p) \/ KeepObject(p) \/ Kill(p)
      BY <1>1 DEF Next
    <2>2. CASE \E c \in Commands[p] : Start(p, c)
      BY <2>2, AssembleStart
    <2>3. CASE Step(p)
      BY <2>3, AssembleGenerateAbi, AssembleOpenCopy, AssembleWriteCopy, AssembleCompile,
         AssembleRemoveCopy, AssembleWriteAbigenOutput, AssembleLink, AssembleFinish DEF Step
    <2>4. CASE Kill(p)
      BY <2>4, AssembleKill
    <2>5. CASE KeepObject(p)
      BY <2>5, AssembleKeepObject
    <2> QED
      BY <2>1, <2>2, <2>3, <2>4, <2>5
  <1>2. CASE UNCHANGED vars
    <2>1. files' = files /\ cmd' = cmd /\ pc' = pc /\ at' = at /\ exit' = exit /\ alone' = alone
      BY <1>2 DEF vars, procVars
    <2> QED
      BY <2>1 DEF Assembles
  <1> QED
    BY <1>1, <1>2

(* What a linking driver that is alone finds in the copy, in each object and *)
(* in the output: the ABIs and stubs of its own inputs (wasm-                *)
(* cpp.cpp.in:211-285, codegen.hpp:291-310, 412-438).                        *)
THEOREM AssemblyInvariance == AbsentIsNoContent => (Spec => [](IInv /\ Assembles))
  <1> SUFFICES ASSUME AbsentIsNoContent
               PROVE  Spec => [](IInv /\ Assembles)
    OBVIOUS
  <1>1. Init => IInv /\ GenInv /\ Assembles
    <2>1. Init => Assembles
      BY DEF Init, Assembles
    <2> QED
      BY <2>1, InitInv, GenInit
  <1>2. IInv /\ GenInv /\ Assembles /\ [Next]_vars => IInv' /\ GenInv' /\ Assembles'
    BY NextInv, GenNext, AssembleNext
  <1> QED
    BY <1>1, <1>2, PTL DEF Spec

-----------------------------------------------------------------------------
(* The stubs of a linked contract *)

(* y is the ABI that came with the object of input i. *)
Embedded(y, c, i) ==
    /\ c.tool = "wasm-cpp" /\ c.inputs[i] \notin Library
    /\ \E a : CollectsUpto(a, c, i) /\ ~is_empty(a) /\ y = to_json(a)

(* An object has one ABI, that of all inputs so far, or none. *)
LEMMA TranslatedAbis ==
    ASSUME NEW o, NEW c, NEW i, Translated(o, c, i)
    PROVE  /\ o.abis = <<>> \/ \E y : o.abis = <<y>> /\ Embedded(y, c, i)
           /\ c.tool = "wasm-cpp" /\ c.inputs[i] \notin Library =>
                 \E a : CollectsUpto(a, c, i) /\ o.abis = AbisOf(a)
  <1>1. CASE c.tool = "wasm-cpp" /\ c.inputs[i] \notin Library
    <2>1. PICK a : CollectsUpto(a, c, i) /\ o.abis = AbisOf(a)
      BY <1>1 DEF Translated
    <2>2. CASE is_empty(a)
      BY <1>1, <2>1, <2>2 DEF AbisOf
    <2>3. CASE ~is_empty(a)
      <3>1. PICK y : y = to_json(a)
        OBVIOUS
      <3>2. o.abis = <<y>>
        BY <2>1, <2>3, <3>1 DEF AbisOf
      <3>3. Embedded(y, c, i)
        BY <1>1, <2>1, <2>3, <3>1 DEF Embedded
      <3> QED
        BY <2>1, <3>2, <3>3
    <2> QED
      BY <2>2, <2>3
  <1>2. CASE ~(c.tool = "wasm-cpp" /\ c.inputs[i] \notin Library)
    BY <1>2 DEF Translated
  <1> QED
    BY <1>1, <1>2

(* Of the objects os, the i-th is the first that has an ABI. *)
Foremost(os, i) == os[i].abis # <<>> /\ \A j \in 1 .. i - 1 : os[j].abis = <<>>

(* The ABIs in a linked output are those of the objects; the last one is that *)
(* of the first input that has one.                                           *)
LEMMA LinkedAbis ==
    ASSUME NEW x, NEW os, NEW c, Len(c.inputs) \in Nat, LinkedFrom(x, os, c)
    PROVE  /\ IsList(x.abis)
           /\ \A y \in ToSet(x.abis) : \E i \in 1 .. Len(c.inputs) : Embedded(y, c, i)
           /\ \A i \in 1 .. Len(c.inputs) : ToSet(os[i].abis) \subseteq ToSet(x.abis)
           /\ \A i \in 1 .. Len(c.inputs) : Foremost(os, i) => Last(x.abis) = Last(os[i].abis)
  <1> DEFINE N == Len(c.inputs)
  <1>1. /\ \A i \in 1 .. N : Translated(os[i], c, i)
        /\ x.abis = FlattenSeq([i \in 1 .. N |-> os[(N - i) + 1].abis])
    BY DEF LinkedFrom
  <1>2. N \in Nat
    OBVIOUS
  <1> HIDE DEF N
  <1>3. PICK seqs : seqs = [i \in 1 .. N |-> os[(N - i) + 1].abis]
    OBVIOUS
  <1>4. PICK S : S = UNION {ToSet(os[i].abis) : i \in 1 .. N}
    OBVIOUS
  <1>5. ASSUME NEW i \in 1 .. N
        PROVE  /\ os[i].abis \in Seq(S)
               /\ \A y \in ToSet(os[i].abis) : Embedded(y, c, i)
    <2>1. PICK l : l = os[i].abis
      OBVIOUS
    <2>2. ToSet(l) \subseteq S
      BY <1>4, <2>1
    <2>3. l = <<>> \/ \E y : l = <<y>> /\ Embedded(y, c, i)
      BY <1>1, <2>1, TranslatedAbis
    <2>4. CASE l = <<>>
      BY <2>1, <2>4 DEF ToSet
    <2>5. CASE \E y : l = <<y>> /\ Embedded(y, c, i)
      <3>1. PICK y : l = <<y>> /\ Embedded(y, c, i)
        BY <2>5
      <3>2. ToSet(<<y>>) = {y}
        BY DEF ToSet
      <3> QED
        BY <2>1, <2>2, <3>1, <3>2
    <2> QED
      BY <2>3, <2>4, <2>5
  <1>6. \A i \in 1 .. N : (N - i) + 1 \in 1 .. N /\ seqs[i] = os[(N - i) + 1].abis
    BY <1>2, <1>3
  <1>7. seqs \in Seq(Seq(S)) /\ Len(seqs) = N
    <2>1. \A i \in 1 .. N : seqs[i] \in Seq(S)
      BY <1>5, <1>6
    <2> QED
      BY <1>2, <1>3, <2>1
  <1>8. PICK l : l = FlattenSeq(seqs)
    OBVIOUS
  <1>9. x.abis = l
    BY <1>1, <1>3, <1>8
  <1>10. Flat(l, seqs, N, S)
    BY <1>7, <1>8, FlattenFacts
  <1>11. /\ l \in Seq(S)
         /\ \A y \in ToSet(l) : \E i \in 1 .. N : y \in ToSet(seqs[i])
         /\ \A i \in 1 .. N : ToSet(seqs[i]) \subseteq ToSet(l)
         /\ \A i \in 1 .. N : seqs[i] # <<>> /\ (\A j \in i + 1 .. N : seqs[j] = <<>>) =>
               Last(l) = Last(seqs[i])
    BY <1>10 DEF Flat
  <1>12. IsList(l)
    BY <1>11 DEF IsList
  <1>13. \A y \in ToSet(l) : \E i \in 1 .. N : Embedded(y, c, i)
    BY <1>5, <1>6, <1>11
  <1>14. ASSUME NEW i \in 1 .. N
         PROVE  (N - i) + 1 \in 1 .. N /\ seqs[(N - i) + 1] = os[i].abis
    <2>1. (N - i) + 1 \in 1 .. N /\ (N - ((N - i) + 1)) + 1 = i
      BY <1>2
    <2> QED
      BY <1>6, <2>1
  <1>15. \A i \in 1 .. N : ToSet(os[i].abis) \subseteq ToSet(l)
    BY <1>11, <1>14
  <1>16. ASSUME NEW i \in 1 .. N, os[i].abis # <<>>, \A j \in 1 .. i - 1 : os[j].abis = <<>>
         PROVE  Last(l) = Last(os[i].abis)
    <2>1. PICK k \in 1 .. N : k = (N - i) + 1 /\ seqs[k] = os[i].abis
      BY <1>14
    <2>2. ASSUME NEW j \in k + 1 .. N
          PROVE  seqs[j] = <<>>
      <3>1. (N - j) + 1 \in 1 .. i - 1 /\ j \in 1 .. N
        BY <1>2, <2>1
      <3> QED
        BY <1>6, <1>16, <3>1
    <2> QED
      BY <1>11, <1>16, <2>1, <2>2
  <1> QED
    BY <1>9, <1>12, <1>13, <1>15, <1>16 DEF N, Foremost

(* An action abigen has collected is one of the first n inputs.               *)
LEMMA CollectedAction ==
    ASSUME NEW a, NEW c, NEW n \in Nat, CollectsUpto(a, c, n), NEW z \in a.actions
    PROVE  \E k \in 1 .. n : \E d \in Actions(c.inputs[k]) : d.mine /\ d.name = z.name
  <1>1. PICK S : S = Upto(c, n)
    OBVIOUS
  <1>2. Collects(a, S)
    BY <1>1 DEF CollectsUpto
  <1>3. z \in Added(S, "actions")
    BY <1>2, CollectedFacts DEF Parts
  <1>0. PICK s \in S : \E e \in Mine(s) : z \in New("actions", e)
    BY <1>3 DEF Added
  <1>4. PICK d \in Mine(s) : z \in New("actions", d)
    BY <1>0
  <1>5. d.kind = "action" /\ z = [name |-> d.name, def |-> d.method]
    BY <1>4 DEF New
  <1>6. d \in Actions(s) /\ d.mine /\ d.name = z.name
    BY <1>4, <1>5 DEF Mine, Actions
  <1>7. PICK k \in 1 .. n : s = c.inputs[k]
    BY <1>0, <1>1 DEF Upto
  <1> QED
    BY <1>6, <1>7

(* The first of the actions in s with the full name of d.                     *)
LEMMA FirstDeclaration ==
    ASSUME NEW s \in DOMAIN Decls, NEW d, \E e \in Actions(s) : FullName(e) = FullName(d)
    PROVE  \E j \in DOMAIN Decls[s] :
              /\ Decls[s][j].kind = "action" /\ FullName(Decls[s][j]) = FullName(d)
              /\ FirstOfName(s, j)
  <1> DEFINE T == {j \in DOMAIN Decls[s] : Decls[s][j].kind = "action"
                                          /\ FullName(Decls[s][j]) = FullName(d)}
  <1>1. DOMAIN Decls[s] = 1 .. Len(Decls[s]) /\ Len(Decls[s]) \in Nat
    BY DeclsAssumption
  <1>2. T \in SUBSET Nat
    BY <1>1
  <1>3. T # {}
    BY DEF Actions, ToSet
  <1> HIDE DEF T
  <1>4. PICK j \in T : \A k \in T : j <= k
    BY <1>2, <1>3, LeastNatural
  <1> USE DEF T
  <1>5. j \in 1 .. Len(Decls[s]) /\ j \in Nat
    BY <1>1, <1>4
  <1>6. ASSUME NEW k \in 1 .. j - 1, Decls[s][k].kind = "action"
        PROVE  FullName(Decls[s][k]) # FullName(Decls[s][j])
    <2>1. k \in DOMAIN Decls[s] /\ k < j /\ k \in Nat
      BY <1>1, <1>5
    <2>2. k \notin T
      BY <1>2, <1>4, <2>1
    <2> QED
      BY <1>4, <1>6, <2>1, <2>2
  <1>7. FirstOfName(s, j)
    BY <1>4, <1>6 DEF FirstOfName
  <1> QED
    BY <1>4, <1>7

(* Declarations of one full name, in sources that agree, are of one action.   *)
LEMMA OneAction ==
    ASSUME NEW sources, ActionsAgree(sources), NEW s \in sources, NEW t \in sources,
           NEW e \in Actions(s), NEW d \in Actions(t), FullName(e) = FullName(d)
    PROVE  e.name = d.name /\ e.mine = d.mine
  BY DEF ActionsAgree, FullName

(* Every action in the ABI made of a linked output has its stub there: that   *)
(* of the first declaration in the first input that declares it.              *)
LEMMA LinkedStubs ==
    ASSUME NEW p \in Procs, NEW c \in Commands[p], c.tool # "wasm-lld",
           ActionsAgree(Inputs(c)),
           NEW x, NEW os, LinkedFrom(x, os, c), x.abis # <<>>,
           NEW z \in writeABI(x.abis).objects["actions"]
    PROVE  z.name \in x.stubs
  <1> DEFINE N == Len(c.inputs)
  <1>1. N \in Nat
    BY CommandFacts
  <1>2. /\ IsList(x.abis)
        /\ \A y \in ToSet(x.abis) : \E i \in 1 .. N : Embedded(y, c, i)
    BY <1>1, LinkedAbis
  <1>3. PICK l : l = x.abis
    OBVIOUS
  <1>4. Len(l) \in Nat /\ l = [i \in 1 .. Len(l) |-> l[i]] /\ Len(l) # 0
    BY <1>2, <1>3 DEF IsList
  <1>5. PICK j \in 1 .. Len(l) : z \in l[j].objects["actions"]
    <2>1. "actions" \in Sections
      BY DEF Sections
    <2> QED
      BY <1>3, <1>4, <2>1, MergedFacts
  <1>6. l[j] \in ToSet(l)
    BY <1>4 DEF ToSet
  <1>7. PICK i \in 1 .. N : Embedded(l[j], c, i)
    BY <1>2, <1>3, <1>6
  <1>8. PICK a : CollectsUpto(a, c, i) /\ l[j] = to_json(a)
    BY <1>7 DEF Embedded
  <1>9. z \in a.actions
    BY <1>5, <1>8, JsonSections
  <1>10. PICK k \in 1 .. i : \E d \in Actions(c.inputs[k]) : d.mine /\ d.name = z.name
    BY <1>8, <1>9, CollectedAction
  <1>11. PICK d \in Actions(c.inputs[k]) : d.mine /\ d.name = z.name
    BY <1>10
  <1>12. \A m \in 1 .. N : c.inputs[m] \in DOMAIN Decls
    <2>1. Upto(c, N) \subseteq DOMAIN Decls
      BY <1>1, InputsAreSources
    <2> QED
      BY <2>1 DEF Upto
  <1>13. \A m \in 1 .. N : c.inputs[m] \in Inputs(c)
    BY CommandFacts
  <1> DEFINE T == {m \in 1 .. N : c.inputs[m] \notin Library
                                  /\ \E e \in Actions(c.inputs[m]) : FullName(e) = FullName(d)}
  <1>14. k \in T
    <2>1. k \in 1 .. N
      BY <1>1
    <2>2. c.inputs[k] \notin Library
      BY <1>11, <1>13, <2>1 DEF ActionsAgree
    <2> QED
      BY <2>1, <2>2
  <1>15. PICK m \in T : \A q \in T : m <= q
    <2>1. T \in SUBSET Nat /\ T # {}
      BY <1>1, <1>14
    <2> HIDE DEF T
    <2> QED
      BY <2>1, LeastNatural
  <1>16. PICK s : s = c.inputs[m] /\ s \in DOMAIN Decls /\ s \in Inputs(c) /\ c.inputs[k] \in Inputs(c)
    BY <1>12, <1>14, <1>15, <1>13
  <1>17. PICK J \in DOMAIN Decls[s] :
            /\ Decls[s][J].kind = "action" /\ FullName(Decls[s][J]) = FullName(d)
            /\ FirstOfName(s, J)
    BY <1>15, <1>16, FirstDeclaration
  <1>18. PICK e : e = Decls[s][J]
    OBVIOUS
  <1>19. e \in Actions(s) /\ FullName(e) = FullName(d)
    BY <1>17, <1>18 DEF Actions, ToSet
  <1>20. e.name = d.name /\ e.mine
    <2>1. e.name = d.name /\ e.mine = d.mine
      BY <1>16, <1>19, OneAction
    <2> QED
      BY <1>11, <2>1
  <1>21. FullName(e) \notin NamesUpto(c, m - 1)
    <2> SUFFICES ASSUME FullName(e) \in NamesUpto(c, m - 1)
                 PROVE  FALSE
      OBVIOUS
    <2>1. PICK r \in Upto(c, m - 1) \ Library : \E f \in Actions(r) : FullName(f) = FullName(e)
      BY DEF NamesUpto
    <2>2. PICK q \in 1 .. m - 1 : r = c.inputs[q]
      BY <2>1 DEF Upto
    <2>3. q \in T
      BY <1>1, <1>15, <1>19, <2>1, <2>2
    <2> QED
      BY <1>1, <1>15, <2>2, <2>3
  <1>22. e.name \in StubsFor(c, m)
    BY <1>16, <1>17, <1>18, <1>20, <1>21 DEF StubsFor
  <1>23. c.tool = "wasm-cpp"
    BY <1>7 DEF Embedded
  <1>24. m \in 1 .. N /\ c.inputs[m] \notin Library
    BY <1>15
  <1> HIDE DEF T, N
  <1>25. Translated(os[m], c, m) /\ x.stubs = UNION {os[h].stubs : h \in 1 .. N}
    BY <1>24 DEF LinkedFrom, N
  <1>26. os[m].stubs = StubsFor(c, m)
    BY <1>23, <1>24, <1>25 DEF Translated
  <1> QED
    BY <1>11, <1>20, <1>22, <1>24, <1>25, <1>26

(* The linked contract has a stub for every action its ABI lists if the       *)
(* sources it was built from agree, although abigen goes by the name of the   *)
(* action and codegen by those of method and class, one after the other, and  *)
(* by what it has visited (codegen.hpp:305-309).                              *)
THEOREM StubsForActions == AbsentIsNoContent => (Spec => []ActionsHaveStubs)
  <1> SUFFICES ASSUME AbsentIsNoContent
               PROVE  Spec => []ActionsHaveStubs
    OBVIOUS
  <1>1. IInv /\ Assembles => ActionsHaveStubs
    <2> SUFFICES ASSUME IInv, Assembles, NEW p \in Procs, Succeeded(p), alone[p],
                        files[AbiFile(cmd[p])] # Absent, ActionsAgree(Inputs(cmd[p])),
                        NEW z \in AbiOf(files[AbiFile(cmd[p])]).objects["actions"]
                 PROVE  z.name \in files[Output(cmd[p])].stubs
      BY DEF ActionsHaveStubs
    <2>1. exit[p] = "0" /\ cmd[p].link /\ cmd[p].tool # "wasm-lld" /\ pc[p] # "idle"
      BY DEF Succeeded, IInv, Places
    <2>2. cmd[p] \in Commands[p]
      BY <2>1 DEF IInv, Places
    <2>3. Assembly(cmd[p], pc[p], "0", at[p], files)
      BY <2>1 DEF Assembles
    <2>4. PICK x, y, c : x = files[Output(cmd[p])] /\ y = files[AbiFile(cmd[p])] /\ c = cmd[p]
      OBVIOUS
    <2>5. Together(x, y, c)
      BY <2>3, <2>4 DEF Assembly
    <2>6. Joint(x, c) /\ x.abis # <<>> /\ y = x
      BY <2>4, <2>5 DEF Together
    <2>7. PICK os : LinkedFrom(x, os, c)
      BY <2>6 DEF Joint
    <2>8. z \in writeABI(x.abis).objects["actions"]
      BY <2>4, <2>6 DEF AbiOf
    <2> QED
      BY <2>1, <2>2, <2>4, <2>6, <2>7, <2>8, LinkedStubs
  <1> QED
    BY <1>1, AssemblyInvariance, PTL

-----------------------------------------------------------------------------
(* Merging clauses *)

(* The rounds of merge_clauses *)
ClauseRounds(g, a, b, k) ==
    g = [n \in 0 .. k |-> IF n = 0 THEN a ELSE add_clause(g[n - 1], a, b[n])]

(* The rounds of merge_clauses, one by one. *)
LEMMA ClauseRoundsAre ==
    ASSUME NEW g, NEW a, NEW b, NEW k \in Nat, ClauseRounds(g, a, b, k)
    PROVE  /\ g = [n \in 0 .. k |-> g[n]] /\ g[0] = a
           /\ \A n \in 1 .. k : g[n] = add_clause(g[n - 1], a, b[n])
  <1> DEFINE R(n) == IF n = 0 THEN a ELSE add_clause(g[n - 1], a, b[n])
  <1>1. R(0) = a /\ \A n \in 1 .. k : R(n) = add_clause(g[n - 1], a, b[n])
    OBVIOUS
  <1>2. g = [n \in 0 .. k |-> R(n)]
    BY DEF ClauseRounds
  <1> HIDE DEF R
  <1>3. g = [n \in 0 .. k |-> g[n]] /\ \A n \in 0 .. k : g[n] = R(n)
    BY <1>2
  <1> QED
    BY <1>1, <1>3

(* merge_clauses has a value for every number of clauses. *)
LEMMA ClauseRoundsExist ==
    ASSUME NEW a, NEW b, NEW k \in Nat
    PROVE  \E g : ClauseRounds(g, a, b, k)
  <1> DEFINE T == {m \in Nat : \E g : ClauseRounds(g, a, b, m)}
  <1>1. 0 \in T
    <2>1. PICK g : g = [n \in 0 .. 0 |-> a]
      OBVIOUS
    <2>2. ClauseRounds(g, a, b, 0)
      BY <2>1 DEF ClauseRounds
    <2> QED
      BY <2>2
  <1>2. ASSUME NEW m \in Nat, m \in T PROVE m + 1 \in T
    <2>1. PICK g : ClauseRounds(g, a, b, m)
      BY <1>2
    <2>2. /\ g = [n \in 0 .. m |-> g[n]] /\ g[0] = a
          /\ \A n \in 1 .. m : g[n] = add_clause(g[n - 1], a, b[n])
      BY <2>1, ClauseRoundsAre
    <2>3. PICK x : x = add_clause(g[m], a, b[m + 1])
      OBVIOUS
    <2>4. PICK h : h = [n \in 0 .. m + 1 |-> IF n \in 0 .. m THEN g[n] ELSE x]
      OBVIOUS
    <2>5. h = [n \in 0 .. m + 1 |-> h[n]] /\ h[0] = a
      BY <2>2, <2>4
    <2>6. ASSUME NEW n \in 1 .. m + 1
          PROVE  h[n] = add_clause(h[n - 1], a, b[n])
      <3>1. CASE n \in 1 .. m
        <4>1. h[n] = g[n] /\ h[n - 1] = g[n - 1]
          BY <2>4, <3>1
        <4> QED
          BY <2>2, <3>1, <4>1
      <3>2. CASE n = m + 1
        <4>1. h[n] = x /\ h[n - 1] = g[m]
          BY <2>4, <3>2
        <4> QED
          BY <2>3, <3>2, <4>1
      <3> QED
        BY <3>1, <3>2
    <2>7. ClauseRounds(h, a, b, m + 1)
      <3>1. PICK j \in Nat : j = m + 1
        OBVIOUS
      <3>2. /\ h = [n \in 0 .. j |-> h[n]] /\ h[0] = a
            /\ \A n \in 1 .. j : h[n] = add_clause(h[n - 1], a, b[n])
        BY <2>5, <2>6, <3>1
      <3>3. ASSUME NEW n \in 0 .. j
            PROVE  h[n] = IF n = 0 THEN a ELSE add_clause(h[n - 1], a, b[n])
        <4>1. CASE n = 0
          BY <3>2, <4>1
        <4>2. CASE n # 0
          <5>1. n \in 1 .. j
            BY <4>2
          <5> QED
            BY <3>2, <4>2, <5>1
        <4> QED
          BY <4>1, <4>2
      <3> DEFINE R(n) == IF n = 0 THEN a ELSE add_clause(h[n - 1], a, b[n])
      <3>4. ClauseRounds(h, a, b, j)
        <4>1. h = [n \in 0 .. j |-> h[n]] /\ \A n \in 0 .. j : h[n] = R(n)
          BY <3>2, <3>3
        <4> HIDE DEF R
        <4>2. h = [n \in 0 .. j |-> R(n)]
          BY <4>1
        <4> QED
          BY <4>2 DEF ClauseRounds, R
      <3> QED
        BY <3>1, <3>4
    <2> QED
      BY <2>7
  <1>3. Nat \subseteq T
    <2> HIDE DEF T
    <2> QED
      BY <1>1, <1>2, NaturalInduction
  <1> QED
    BY <1>3

(* merge_clauses (abimerge.hpp:159-163) is the last of its rounds. *)
LEMMA MergeClausesRounds ==
    ASSUME NEW a, NEW b, Len(b) \in Nat
    PROVE  \E g : ClauseRounds(g, a, b, Len(b)) /\ merge_clauses(a, b) = g[Len(b)]
  <1>1. \E g : ClauseRounds(g, a, b, Len(b))
    BY ClauseRoundsExist
  <1>2. merge_clauses(a, b) = (CHOOSE g : ClauseRounds(g, a, b, Len(b)))[Len(b)]
    BY DEF merge_clauses, ClauseRounds
  <1> QED
    BY <1>1, <1>2

(* The clauses cl have one with the id of each in C. *)
HasIds(cl, C) == \A y \in C : \E i \in DOMAIN cl : cl[i].id = y.id

(* Merged clauses are some of those merged, and none come if all are there.  *)
LEMMA MergeClausesFacts ==
    ASSUME NEW C, NEW a \in Seq(C), NEW b \in Seq(C)
    PROVE  /\ merge_clauses(a, b) \in Seq(C)
           /\ HasIds(a, C) => merge_clauses(a, b) = a
  <1>1. PICK k \in Nat : k = Len(b)
    OBVIOUS
  <1>2. PICK g : /\ merge_clauses(a, b) = g[k] /\ g[0] = a
                 /\ \A n \in 1 .. k : g[n] = add_clause(g[n - 1], a, b[n])
    <2>1. PICK g : ClauseRounds(g, a, b, Len(b)) /\ merge_clauses(a, b) = g[Len(b)]
      BY MergeClausesRounds
    <2>2. ClauseRounds(g, a, b, k) /\ merge_clauses(a, b) = g[k]
      BY <1>1, <2>1
    <2>3. g[0] = a /\ \A n \in 1 .. k : g[n] = add_clause(g[n - 1], a, b[n])
      BY <2>2, ClauseRoundsAre
    <2> QED
      BY <2>2, <2>3
  <1>3. \A n \in 1 .. k : b[n] \in C
    BY <1>1
  <1> DEFINE All == HasIds(a, C)
             T == {n \in Nat : n \in 0 .. k => g[n] \in Seq(C) /\ (All => g[n] = a)}
  <1>4. 0 \in T
    BY <1>2
  <1>5. ASSUME NEW n \in Nat, n \in T PROVE n + 1 \in T
    <2> SUFFICES ASSUME n + 1 \in 0 .. k
                 PROVE  g[n + 1] \in Seq(C) /\ (All => g[n + 1] = a)
      OBVIOUS
    <2>1. n \in 0 .. k /\ n + 1 \in 1 .. k /\ (n + 1) - 1 = n
      BY <1>1
    <2>2. g[n] \in Seq(C) /\ (All => g[n] = a)
      BY <1>5, <2>1
    <2>3. PICK y \in C : y = b[n + 1]
      BY <1>3, <2>1
    <2>4. g[n + 1] = add_clause(g[n], a, y)
      BY <1>2, <2>1, <2>3
    <2>5. CASE \E i \in DOMAIN a : a[i].id = y.id
      <3>1. g[n + 1] = g[n]
        BY <2>4, <2>5 DEF add_clause
      <3> QED
        BY <2>2, <3>1
    <2>6. CASE ~\E i \in DOMAIN a : a[i].id = y.id
      <3>1. g[n + 1] = Append(g[n], y) /\ ~All
        BY <2>4, <2>6 DEF add_clause, HasIds
      <3> HIDE DEF All
      <3> QED
        BY <2>2, <3>1
    <2> QED
      BY <2>5, <2>6
  <1>6. Nat \subseteq T
    <2> HIDE DEF T
    <2> QED
      BY <1>4, <1>5, NaturalInduction
  <1> QED
    BY <1>1, <1>2, <1>6

-----------------------------------------------------------------------------
(* Unambiguous names *)

(* Types the ABI has under their name *)
Named(t) == Types[t].kind \in {"struct", "variant", "alias"}

(* What Unambiguous says of the declarations abigen looks at *)
Distinct(D) ==
    /\ \A d, e \in D : d.kind = "action" /\ e.kind = "action"
                       /\ (d.method = e.method \/ d.name = e.name) => d = e
    /\ \A d, e \in D : d.kind # "action" /\ e.kind # "action" /\ d.name = e.name => d.type = e.type
    /\ \A d, e \in D : \A t \in Reach(Roots(d)), u \in Reach(Roots(e)) :
          Named(t) /\ Named(u) /\ Types[t].name = Types[u].name => t = u
    /\ \A d, e \in D : d.kind = "action" =>
          \A t \in Reach(Roots(e)) : Named(t) => Types[t].name # d.method

(* Unambiguous names, said of the declarations one by one. *)
LEMMA UnambiguousDistinct ==
    ASSUME NEW S, S \subseteq DOMAIN Decls, Unambiguous(S)
    PROVE  Distinct(UNION {Mine(s) : s \in S})
  <1> DEFINE actions == UNION {{d \in Actions(s) : d.mine} : s \in S}
             tables == UNION {ToSet(Decls[s]) \ Actions(s) : s \in S}
             roots == {d.type : d \in tables} \union UNION {{u.type : u \in ToSet(d.params)} : d \in actions}
             types == {t \in Reach(roots) : Named(t)}
             D == UNION {Mine(s) : s \in S}
  <1>1. /\ \A t, u \in types : Types[t].name = Types[u].name => t = u
        /\ \A d, e \in actions : d.method = e.method \/ d.name = e.name => d = e
        /\ \A d, e \in tables : d.name = e.name => d.type = e.type
        /\ \A d \in actions, t \in types : Types[t].name # d.method
    BY DEF Unambiguous, Named
  <1>2. \A d \in D : d.kind = "action" => d \in actions
    BY DEF Mine, Actions
  <1>3. \A d \in D : d.kind # "action" => d \in tables
    BY DEF Mine, Actions
  <1>4. ASSUME NEW d \in D PROVE Roots(d) \subseteq roots
    <2>1. d.kind \in {"action", "table", "index"}
      BY <1>4, DeclarationFacts
    <2>2. CASE d.kind = "action"
      <3>1. Roots(d) = {u.type : u \in ToSet(d.params)} /\ d \in actions
        BY <1>2, <2>2 DEF Roots
      <3> HIDE DEF actions, tables
      <3> QED
        BY <3>1
    <2>3. CASE d.kind = "table"
      <3>1. Roots(d) = {d.type} /\ d \in tables
        BY <1>3, <2>3 DEF Roots
      <3> HIDE DEF actions, tables
      <3> QED
        BY <3>1
    <2>4. CASE d.kind = "index"
      BY <2>4 DEF Roots
    <2> QED
      BY <2>1, <2>2, <2>3, <2>4
  <1> HIDE DEF roots
  <1>5. \A d \in D : \A t \in Reach(Roots(d)) : Named(t) => t \in types
    BY <1>4 DEF Reach
  <1> HIDE DEF D, actions, tables, types
  <1>6. Distinct(D)
    BY <1>1, <1>2, <1>3, <1>5 DEF Distinct
  <1> QED
    BY <1>6 DEF D

(* The section of the ABI that part k goes to *)
Declared(S, s) ==
    CASE s = "structs" -> Added(S, "structs")
      [] s = "types" -> Added(S, "typedefs")
      [] s = "actions" -> Added(S, "actions")
      [] s = "tables" -> Added(S, "tables") \union Added(S, "ctables")
      [] s = "variants" -> Added(S, "variants")

(* What is added comes from a declaration. *)
LEMMA AddedIs ==
    ASSUME NEW S, NEW k, NEW o
    PROVE  o \in Added(S, k) <=> \E d \in UNION {Mine(s) : s \in S} : o \in New(k, d)
  BY DEF Added

(* OfKind selects reached types by kind. *)
LEMMA OfKindIs ==
    ASSUME NEW k \in {"struct", "variant", "alias"}, NEW ts, NEW t
    PROVE  t \in OfKind(k, ts) => t \in Reach(ts) /\ Named(t) /\ Types[t].kind = k
  BY DEF OfKind, Named

(* If names are unambiguous, all that the sources declare can be told apart  *)
(* by name.                                                                  *)
LEMMA DeclaredUnique ==
    ASSUME NEW S, S \subseteq DOMAIN Decls, Unambiguous(S), NEW s \in Sections
    PROVE  NamesUnique(Declared(S, s))
  <1>1. PICK D : D = UNION {Mine(q) : q \in S}
    OBVIOUS
  <1>2. Distinct(D)
    BY <1>1, UnambiguousDistinct
  <1>3. \A k, o : o \in Added(S, k) => \E d \in D : o \in New(k, d)
    BY <1>1, AddedIs
  <1>4. ASSUME NEW d \in D, NEW e \in D, NEW t, NEW u, NEW k \in {"struct", "variant", "alias"},
               t \in OfKind(k, Roots(d)), u \in OfKind(k, Roots(e)), Types[t].name = Types[u].name
        PROVE  t = u
    <2>1. t \in Reach(Roots(d)) /\ Named(t) /\ u \in Reach(Roots(e)) /\ Named(u)
      BY <1>4, OfKindIs
    <2> QED
      BY <1>2, <1>4, <2>1 DEF Distinct
  <1>5. NamesUnique(Added(S, "structs"))
    <2> SUFFICES ASSUME NEW x \in Added(S, "structs"), NEW y \in Added(S, "structs"), x.name = y.name
                 PROVE  x = y
      BY DEF NamesUnique
    <2>1. PICK d \in D : x \in New("structs", d)
      BY <1>3
    <2>2. PICK e \in D : y \in New("structs", e)
      BY <1>3
    <2>3. \/ \E t \in OfKind("struct", Roots(d)) : x = StructOf(t)
          \/ d.kind = "action" /\ x = ParamStruct(d)
      BY <2>1 DEF New
    <2>4. \/ \E t \in OfKind("struct", Roots(e)) : y = StructOf(t)
          \/ e.kind = "action" /\ y = ParamStruct(e)
      BY <2>2 DEF New
    <2>5. ASSUME NEW t \in OfKind("struct", Roots(d)), x = StructOf(t),
                 NEW u \in OfKind("struct", Roots(e)), y = StructOf(u)
          PROVE  x = y
      <3>1. Types[t].name = Types[u].name
        BY <2>5 DEF StructOf
      <3> QED
        BY <1>4, <2>5, <3>1
    <2>6. ASSUME d.kind = "action", x = ParamStruct(d), e.kind = "action", y = ParamStruct(e)
          PROVE  x = y
      <3>1. d.method = e.method
        BY <2>6 DEF ParamStruct
      <3>2. d = e
        BY <1>2, <2>6, <3>1 DEF Distinct
      <3> QED
        BY <2>6, <3>2
    <2>7. ASSUME NEW t \in OfKind("struct", Roots(d)), x = StructOf(t), e.kind = "action", y = ParamStruct(e)
          PROVE  FALSE
      <3>1. Types[t].name = e.method
        BY <2>7 DEF StructOf, ParamStruct
      <3>2. t \in Reach(Roots(d)) /\ Named(t)
        BY OfKindIs
      <3> QED
        BY <1>2, <2>7, <3>1, <3>2 DEF Distinct
    <2>8. ASSUME NEW t \in OfKind("struct", Roots(e)), y = StructOf(t), d.kind = "action", x = ParamStruct(d)
          PROVE  FALSE
      <3>1. Types[t].name = d.method
        BY <2>8 DEF StructOf, ParamStruct
      <3>2. t \in Reach(Roots(e)) /\ Named(t)
        BY OfKindIs
      <3> QED
        BY <1>2, <2>8, <3>1, <3>2 DEF Distinct
    <2> QED
      BY <2>3, <2>4, <2>5, <2>6, <2>7, <2>8
  <1>6. NamesUnique(Added(S, "typedefs"))
    <2> SUFFICES ASSUME NEW x \in Added(S, "typedefs"), NEW y \in Added(S, "typedefs"), x.name = y.name
                 PROVE  x = y
      BY DEF NamesUnique
    <2>1. PICK d \in D : x \in New("typedefs", d)
      BY <1>3
    <2>2. PICK e \in D : y \in New("typedefs", e)
      BY <1>3
    <2>3. PICK t \in OfKind("alias", Roots(d)) : x = TypedefOf(t)
      BY <2>1 DEF New
    <2>4. PICK u \in OfKind("alias", Roots(e)) : y = TypedefOf(u)
      BY <2>2 DEF New
    <2>5. Types[t].name = Types[u].name
      BY <2>3, <2>4 DEF TypedefOf
    <2> QED
      BY <1>4, <2>3, <2>4, <2>5
  <1>7. NamesUnique(Added(S, "variants"))
    <2> SUFFICES ASSUME NEW x \in Added(S, "variants"), NEW y \in Added(S, "variants"), x.name = y.name
                 PROVE  x = y
      BY DEF NamesUnique
    <2>1. PICK d \in D : x \in New("variants", d)
      BY <1>3
    <2>2. PICK e \in D : y \in New("variants", e)
      BY <1>3
    <2>3. PICK t \in OfKind("variant", Roots(d)) : x = VariantOf(t)
      BY <2>1 DEF New
    <2>4. PICK u \in OfKind("variant", Roots(e)) : y = VariantOf(u)
      BY <2>2 DEF New
    <2>5. Types[t].name = Types[u].name
      BY <2>3, <2>4 DEF VariantOf
    <2> QED
      BY <1>4, <2>3, <2>4, <2>5
  <1>8. NamesUnique(Added(S, "actions"))
    <2> SUFFICES ASSUME NEW x \in Added(S, "actions"), NEW y \in Added(S, "actions"), x.name = y.name
                 PROVE  x = y
      BY DEF NamesUnique
    <2>1. PICK d \in D : x \in New("actions", d)
      BY <1>3
    <2>2. PICK e \in D : y \in New("actions", e)
      BY <1>3
    <2>3. d.kind = "action" /\ x = [name |-> d.name, def |-> d.method]
      BY <2>1 DEF New
    <2>4. e.kind = "action" /\ y = [name |-> e.name, def |-> e.method]
      BY <2>2 DEF New
    <2>5. d = e
      BY <1>2, <2>3, <2>4 DEF Distinct
    <2> QED
      BY <2>3, <2>4, <2>5
  <1>9. NamesUnique(Added(S, "tables") \union Added(S, "ctables"))
    <2>1. ASSUME NEW x \in Added(S, "tables") \union Added(S, "ctables")
          PROVE  \E d \in D : d.kind # "action" /\ x = [name |-> d.name, def |-> Types[d.type].name]
      <3>1. CASE x \in Added(S, "tables")
        <4>1. PICK d \in D : x \in New("tables", d)
          BY <1>3, <3>1
        <4> QED
          BY <4>1 DEF New
      <3>2. CASE x \in Added(S, "ctables")
        <4>1. PICK d \in D : x \in New("ctables", d)
          BY <1>3, <3>2
        <4> QED
          BY <4>1 DEF New
      <3> QED
        BY <3>1, <3>2
    <2> SUFFICES ASSUME NEW x \in Added(S, "tables") \union Added(S, "ctables"),
                        NEW y \in Added(S, "tables") \union Added(S, "ctables"), x.name = y.name
                 PROVE  x = y
      BY DEF NamesUnique
    <2>2. PICK d \in D : d.kind # "action" /\ x = [name |-> d.name, def |-> Types[d.type].name]
      BY <2>1
    <2>3. PICK e \in D : e.kind # "action" /\ y = [name |-> e.name, def |-> Types[e.type].name]
      BY <2>1
    <2>4. d.type = e.type
      BY <1>2, <2>2, <2>3 DEF Distinct
    <2> QED
      BY <2>2, <2>3, <2>4
  <1> QED
    BY <1>5, <1>6, <1>7, <1>8, <1>9 DEF Declared, Sections

(* What abigen writes was declared in the sources it visited. *)
LEMMA JsonDeclared ==
    ASSUME NEW a, NEW T, NEW S, T \subseteq S, Collects(a, T), NEW s \in Sections
    PROVE  to_json(a).objects[s] \subseteq Declared(S, s)
  <1>1. \A k : Added(T, k) \subseteq Added(S, k)
    BY DEF Added
  <1>2. \A k \in Parts : a[k] \subseteq Added(S, k)
    BY <1>1, CollectedFacts
  <1>3. /\ a.structs \subseteq Added(S, "structs") /\ a.typedefs \subseteq Added(S, "typedefs")
        /\ a.actions \subseteq Added(S, "actions") /\ a.variants \subseteq Added(S, "variants")
        /\ a.tables \subseteq Added(S, "tables") /\ a.ctables \subseteq Added(S, "ctables")
    BY <1>2 DEF Parts
  <1>4. set_of_tables(a) \subseteq a.tables \union a.ctables
    BY TablesFacts
  <1>5. CASE s = "structs"
    BY <1>3, <1>5, JsonSections DEF Declared
  <1>6. CASE s = "types"
    BY <1>3, <1>6, JsonSections DEF Declared
  <1>7. CASE s = "actions"
    BY <1>3, <1>7, JsonSections DEF Declared
  <1>8. CASE s = "tables"
    BY <1>3, <1>4, <1>8, JsonSections DEF Declared
  <1>9. CASE s = "variants"
    BY <1>3, <1>9, JsonSections DEF Declared
  <1> QED
    BY <1>5, <1>6, <1>7, <1>8, <1>9 DEF Sections

-----------------------------------------------------------------------------
(* ABIs that can be joined *)

(* Clauses of C are told apart by their ids. *)
OneText(C) == \A x, y \in C : x.id = y.id => x = y

(* An ABI whose objects are among O[s], and whose clauses are in C *)
Within(abi, O, C) ==
    /\ abi.ok
    /\ \A s \in Sections : abi.objects[s] \subseteq O[s]
    /\ abi.clauses \in Seq(C)

(* struct_is_same and its like accept an object and itself                   *)
(* (abimerge.hpp:46-106).                                                    *)
LEMMA SameAsItself ==
    ASSUME NEW s, NEW x
    PROVE  is_same(s, x, x)
  BY DEF is_same

(* ABIs within sets in which names are unique can be joined.                 *)
LEMMA WithinMerge ==
    ASSUME NEW O, NEW C, OneText(C), \A s \in Sections : NamesUnique(O[s]),
           NEW a, Within(a, O, C), NEW b, Within(b, O, C), NEW c, c = merge(a, b)
    PROVE  /\ Within(c, O, C)
           /\ HasIds(a.clauses, C) =>
                 c.clauses = a.clauses
  <1>1. /\ c.ok = (a.ok /\ ~ClausesMalformed(a.clauses, b.clauses)
                   /\ \A s \in Sections : ~Malformed(s, a.objects[s], b.objects[s]))
        /\ \A s \in Sections : c.objects[s] = add_object(a.objects[s], b.objects[s])
        /\ c.clauses = merge_clauses(a.clauses, b.clauses)
    BY DEF merge
  <1>2. ~ClausesMalformed(a.clauses, b.clauses)
    <2> SUFFICES ASSUME NEW i \in DOMAIN a.clauses, NEW j \in DOMAIN b.clauses,
                        a.clauses[i].id = b.clauses[j].id
                 PROVE  a.clauses[i].body = b.clauses[j].body
      BY DEF ClausesMalformed
    <2>1. a.clauses \in Seq(C) /\ b.clauses \in Seq(C)
      BY DEF Within
    <2>2. a.clauses[i] \in C /\ b.clauses[j] \in C
      BY <2>1
    <2> QED
      BY <2>2 DEF OneText
  <1>3. ASSUME NEW s \in Sections
        PROVE  ~Malformed(s, a.objects[s], b.objects[s])
    <2> SUFFICES ASSUME NEW x \in a.objects[s], NEW y \in b.objects[s], x.name = y.name
                 PROVE  is_same(s, x, y)
      BY DEF Malformed
    <2>1. x \in O[s] /\ y \in O[s]
      BY DEF Within
    <2>2. x = y
      BY <2>1 DEF NamesUnique
    <2> QED
      BY <2>2, SameAsItself
  <1>4. ASSUME NEW s \in Sections
        PROVE  c.objects[s] \subseteq O[s]
    BY <1>1 DEF add_object, Within
  <1>5. /\ c.clauses \in Seq(C)
        /\ HasIds(a.clauses, C) =>
              c.clauses = a.clauses
    <2>1. PICK u \in Seq(C), v \in Seq(C) : u = a.clauses /\ v = b.clauses
      BY DEF Within
    <2>2. c.clauses = merge_clauses(u, v)
      BY <1>1, <2>1
    <2>3. /\ merge_clauses(u, v) \in Seq(C)
          /\ HasIds(u, C) => merge_clauses(u, v) = u
      BY MergeClausesFacts
    <2> QED
      BY <2>1, <2>2, <2>3
  <1> QED
    BY <1>1, <1>2, <1>3, <1>4, <1>5 DEF Within

(* ... all of them, and if the last one has all clauses they stay as they    *)
(* are there.                                                                *)
LEMMA WithinAll ==
    ASSUME NEW O, NEW C, OneText(C), \A s \in Sections : NamesUnique(O[s]),
           NEW abis, Len(abis) \in Nat \ {0}, \A i \in 1 .. Len(abis) : Within(abis[i], O, C)
    PROVE  /\ Within(writeABI(abis), O, C)
           /\ LET cl == Last(abis).clauses IN
              HasIds(cl, C) => writeABI(abis).clauses = cl
  <1> DEFINE N == Len(abis)
  <1>1. PICK g : MergeRounds(g, abis, N) /\ writeABI(abis) = g[N]
    BY WriteABIRounds
  <1>2. g[0] = Last(abis) /\ Last(abis) = abis[N]
    BY <1>1 DEF MergeRounds, Last
  <1>3. \A n \in 1 .. N : g[n] = merge(g[n - 1], abis[n])
    BY <1>1 DEF MergeRounds
  <1>4. PICK cl : cl = Last(abis).clauses
    OBVIOUS
  <1> DEFINE All == HasIds(cl, C)
             T == {n \in Nat : n <= N => Within(g[n], O, C) /\ (All => g[n].clauses = cl)}
  <1>5. 0 \in T
    <2>1. N \in 1 .. N
      OBVIOUS
    <2> HIDE DEF All
    <2> QED
      BY <1>2, <1>4, <2>1
  <1>6. ASSUME NEW n \in Nat, n \in T PROVE n + 1 \in T
    <2>1. SUFFICES ASSUME n + 1 <= N
                   PROVE  Within(g[n + 1], O, C) /\ (All => g[n + 1].clauses = cl)
      BY DEF All
    <2>2. Within(g[n], O, C) /\ (All => g[n].clauses = cl)
      BY <1>6, <2>1 DEF All
    <2>3. n + 1 \in 1 .. N /\ (n + 1) - 1 = n
      BY <2>1
    <2>4. PICK b, c, a : b = abis[n + 1] /\ c = g[n + 1] /\ a = g[n] /\ c = merge(a, b)
      BY <1>3, <2>3
    <2>5. Within(a, O, C) /\ Within(b, O, C)
      BY <2>2, <2>3, <2>4
    <2>6. /\ Within(c, O, C)
          /\ HasIds(a.clauses, C) =>
                c.clauses = a.clauses
      BY <2>4, <2>5, WithinMerge
    <2> QED
      BY <2>2, <2>4, <2>6
  <1>7. N \in T
    <2> HIDE DEF T
    <2>1. Nat \subseteq T
      BY <1>5, <1>6, NaturalInduction
    <2> QED
      BY <2>1
  <1> QED
    BY <1>1, <1>4, <1>7

(* The sections of the ABI of S, as a function *)
Sectioned(S) == [s \in Sections |-> Declared(S, s)]

(* The ABI embedded in an object has what the sources declare, and clauses   *)
(* of the file.                                                              *)
LEMMA EmbeddedWithin ==
    ASSUME NEW c, NEW i, NEW S, Upto(c, i) \subseteq S, NEW y, Embedded(y, c, i)
    PROVE  Within(y, Sectioned(S), ToSet(Clauses))
  <1>1. PICK a : CollectsUpto(a, c, i) /\ y = to_json(a)
    BY DEF Embedded
  <1>2. PICK T : T = Upto(c, i)
    OBVIOUS
  <1>3. Collects(a, T) /\ a.clauses \in Seq(ToSet(Clauses))
    BY <1>1, <1>2 DEF CollectsUpto, ClausesAre
  <1>4. y.ok /\ y.clauses = a.clauses
    BY <1>1, JsonSections
  <1>5. ASSUME NEW s \in Sections
        PROVE  y.objects[s] \subseteq Declared(S, s)
    BY <1>1, <1>2, <1>3, JsonDeclared
  <1> QED
    BY <1>3, <1>4, <1>5 DEF Within, Sectioned

(* Each action of input i is in its ABI, and the struct of its parameters.   *)
LEMMA EmbeddedAction ==
    ASSUME NamesUsable, NEW c, NEW i, NEW S, S \subseteq DOMAIN Decls, Unambiguous(S),
           Upto(c, i) \subseteq S, NEW a, CollectsUpto(a, c, i),
           NEW t \in Upto(c, i), NEW d \in Actions(t), d.mine
    PROVE  /\ ~is_empty(a) /\ Described(to_json(a), d)
  <1> DEFINE act == [name |-> d.name, def |-> d.method]
  <1>1. PICK T : T = Upto(c, i)
    OBVIOUS
  <1>2. Collects(a, T)
    BY <1>1 DEF CollectsUpto
  <1>3. d \in Mine(t) /\ d.kind = "action" /\ t \in T /\ t \in DOMAIN Decls
    BY <1>1 DEF Mine, Actions
  <1>4. d \in UNION {Mine(s) : s \in T} /\ d \in UNION {Mine(s) : s \in S}
    BY <1>1, <1>3
  <1>5. act \in New("actions", d) /\ ParamStruct(d) \in New("structs", d)
    BY <1>3 DEF New
  <1>6. act \in Added(T, "actions") /\ ParamStruct(d) \in Added(T, "structs")
        /\ act \in Added(S, "actions") /\ ParamStruct(d) \in Added(S, "structs")
    BY <1>4, <1>5, AddedIs
  <1>7. Added(T, "actions") \subseteq Added(S, "actions")
        /\ Added(T, "structs") \subseteq Added(S, "structs")
    BY <1>1 DEF Added
  <1>8. NamesUnique(Added(S, "actions")) /\ NamesUnique(Added(S, "structs"))
    <2>1. "actions" \in Sections /\ "structs" \in Sections
      BY DEF Sections
    <2>2. NamesUnique(Declared(S, "actions")) /\ NamesUnique(Declared(S, "structs"))
      BY <2>1, DeclaredUnique
    <2> QED
      BY <2>2 DEF Declared
  <1>9. act \in a.actions
    <2>1. "actions" \in Parts
      BY DEF Parts
    <2>2. PICK k : k = "actions"
      OBVIOUS
    <2>3. /\ a[k] \subseteq Added(T, k)
          /\ \A o \in Added(T, k) : \E z \in a[k] : z.name = o.name
      BY <1>2, <2>1, <2>2, CollectedFacts
    <2>4. PICK z \in a[k] : z.name = act.name
      BY <1>6, <2>2, <2>3
    <2>5. z \in Added(S, "actions")
      BY <1>7, <2>2, <2>3
    <2>6. z = act
      BY <1>6, <1>8, <2>4, <2>5 DEF NamesUnique
    <2> QED
      BY <2>2, <2>4, <2>6
  <1>10. ParamStruct(d) \in a.structs
    <2>1. "structs" \in Parts
      BY DEF Parts
    <2>2. PICK k : k = "structs"
      OBVIOUS
    <2>3. /\ a[k] \subseteq Added(T, k)
          /\ \A o \in Added(T, k) : \E z \in a[k] : z.name = o.name
      BY <1>2, <2>1, <2>2, CollectedFacts
    <2>4. PICK z \in a[k] : z.name = ParamStruct(d).name
      BY <1>6, <2>2, <2>3
    <2>5. z \in Added(S, "structs")
      BY <1>7, <2>2, <2>3
    <2>6. z = ParamStruct(d)
      BY <1>6, <1>8, <2>4, <2>5 DEF NamesUnique
    <2> QED
      BY <2>2, <2>4, <2>6
  <1>11. ~is_builtin_type(d.method)
    BY <1>3 DEF NamesUsable
  <1>12. ParamStruct(d).name = d.method /\ act.def = d.method
    BY DEF ParamStruct
  <1>13. validate_struct(a, ParamStruct(d))
    <2>1. PICK x : x = ParamStruct(d)
      OBVIOUS
    <2>2. \E z \in a.actions \union set_of_tables(a) : x.name = z.def
      BY <1>9, <1>12, <2>1
    <2>3. ~is_builtin_type(x.name)
      BY <1>11, <1>12, <2>1
    <2> HIDE DEF act
    <2>4. validate_struct(a, x)
      BY <2>2, <2>3 DEF validate_struct
    <2> QED
      BY <2>1, <2>4
  <1>14. ~is_empty(a)
    BY <1>9 DEF is_empty
  <1>15. act \in to_json(a).objects["actions"] /\ ParamStruct(d) \in to_json(a).objects["structs"]
    <2> HIDE DEF act
    <2> QED
      BY <1>9, <1>10, <1>13, JsonSections
  <1> QED
    BY <1>14, <1>15 DEF Described, ParamStruct

-----------------------------------------------------------------------------
(* The ABI of a build that succeeds *)

(* Sources without declarations leave abigen with nothing but clauses.       *)
LEMMA NothingCollected ==
    ASSUME NEW a, NEW c, NEW n \in Nat, CollectsUpto(a, c, n),
           \A j \in 1 .. n : Decls[c.inputs[j]] = <<>>
    PROVE  is_empty(a)
  <1>1. PICK T : T = Upto(c, n)
    OBVIOUS
  <1>2. Collects(a, T)
    BY <1>1 DEF CollectsUpto
  <1>3. ASSUME NEW k \in Parts
        PROVE  a[k] = {}
    <2>1. a[k] \subseteq Added(T, k)
      BY <1>2, CollectedFacts
    <2>2. ASSUME NEW o \in Added(T, k)
          PROVE  FALSE
      <3>1. PICK s \in T : \E d \in Mine(s) : o \in New(k, d)
        BY <2>2 DEF Added
      <3>2. PICK j \in 1 .. n : s = c.inputs[j]
        BY <1>1, <3>1 DEF Upto
      <3>3. Mine(s) = {}
        BY <3>2 DEF Mine, ToSet
      <3> QED
        BY <3>1, <3>3
    <2> QED
      BY <2>1, <2>2
  <1>4. a.structs = {} /\ a.typedefs = {} /\ a.actions = {} /\ a.tables = {} /\ a.ctables = {}
        /\ a.variants = {}
    BY <1>3 DEF Parts
  <1>5. a.clauses = <<>>
    BY DEF CollectsUpto, ClausesAre
  <1>6. set_of_tables(a) = {}
    BY <1>4, TablesNone
  <1> QED
    BY <1>4, <1>5, <1>6 DEF is_empty

(* The first ABI that is not empty has each clause as often as the file.     *)
LEMMA FirstClauses ==
    ASSUME NEW c, NEW n \in Nat \ {0}, NEW a, CollectsUpto(a, c, n), ~is_empty(a),
           \A j \in 1 .. n - 1 : \E b : CollectsUpto(b, c, j) /\ is_empty(b)
    PROVE  a.clauses = Clauses
  <1>1. CASE Clauses = <<>>
    <2>1. a.clauses \in Seq(ToSet(Clauses)) /\ ToSet(Clauses) = {}
      BY <1>1 DEF CollectsUpto, ClausesAre, ToSet
    <2>2. PICK cl, E : cl = a.clauses /\ E = ToSet(Clauses) /\ E = {}
      BY <2>1
    <2>3. cl \in Seq(E)
      BY <2>1, <2>2
    <2>4. cl = <<>>
      <3>1. Len(cl) = 0
        <4> SUFFICES ASSUME Len(cl) # 0 PROVE FALSE
          OBVIOUS
        <4>1. cl[1] \in E
          BY <2>3
        <4> QED
          BY <2>2, <4>1
      <3> QED
        BY <2>3, <3>1
    <2> QED
      BY <1>1, <2>2, <2>4
  <1>2. CASE Clauses # <<>>
    <2>1. ASSUME NEW j \in 1 .. n - 1
          PROVE  Decls[c.inputs[j]] = <<>>
      <3>1. PICK b : CollectsUpto(b, c, j) /\ is_empty(b)
        OBVIOUS
      <3>2. b.clauses = <<>>
        BY <3>1 DEF is_empty
      <3>3. j \in 1 .. j
        OBVIOUS
      <3> QED
        BY <1>2, <3>1, <3>2, <3>3 DEF CollectsUpto, ClausesAre
    <2>2. Decls[c.inputs[n]] # <<>>
      <3> SUFFICES ASSUME Decls[c.inputs[n]] = <<>> PROVE FALSE
        OBVIOUS
      <3>1. ASSUME NEW j \in 1 .. n PROVE Decls[c.inputs[j]] = <<>>
        BY <2>1
      <3> QED
        BY <3>1, NothingCollected
    <2>3. n \in 1 .. n /\ \A i \in 1 .. n : i # n => i \in 1 .. n - 1
      OBVIOUS
    <2> QED
      BY <2>1, <2>2, <2>3 DEF CollectsUpto, ClausesAre
  <1> QED
    BY <1>1, <1>2

(* The output linked from the objects of inputs with unambiguous names: its  *)
(* ABIs can be merged, and the result describes every action.                *)
LEMMA LinkedDescribes ==
    ASSUME NamesUsable, NEW p \in Procs, NEW c \in Commands[p], c.tool = "wasm-cpp",
           Unambiguous(Inputs(c)), NEW x, NEW os, LinkedFrom(x, os, c),
           NEW m, m = UNION {{d \in Actions(s) : d.mine} : s \in Inputs(c) \ Library}, m # {}
    PROVE  /\ x.abis # <<>> /\ writeABI(x.abis).ok
           /\ \A d \in m : Described(writeABI(x.abis), d)
           /\ Inputs(c) \cap Library = {} => writeABI(x.abis).clauses = Clauses
  <1> DEFINE N == Len(c.inputs)
             S == Inputs(c)
             C == ToSet(Clauses)
  <1>1. N \in Nat \ {0} /\ S = {c.inputs[i] : i \in 1 .. N}
    BY CommandFacts
  <1>2. \A i \in 1 .. N : Upto(c, i) \subseteq S /\ c.inputs[i] \in Upto(c, i)
    BY <1>1 DEF Upto
  <1>3. S \subseteq DOMAIN Decls
    <2>1. Upto(c, N) \subseteq DOMAIN Decls
      BY <1>1, InputsAreSources
    <2> QED
      BY <1>1, <2>1 DEF Upto
  <1>4. PICK l : l = x.abis
    OBVIOUS
  <1>5. /\ IsList(l)
        /\ \A y \in ToSet(l) : \E i \in 1 .. N : Embedded(y, c, i)
        /\ \A i \in 1 .. N : ToSet(os[i].abis) \subseteq ToSet(l)
        /\ \A i \in 1 .. N : Foremost(os, i) => Last(l) = Last(os[i].abis)
    <2>1. Len(c.inputs) \in Nat
      BY <1>1
    <2> HIDE DEF N
    <2>2. /\ IsList(x.abis)
          /\ \A y \in ToSet(x.abis) : \E i \in 1 .. Len(c.inputs) : Embedded(y, c, i)
          /\ \A i \in 1 .. Len(c.inputs) : ToSet(os[i].abis) \subseteq ToSet(x.abis)
          /\ \A i \in 1 .. Len(c.inputs) : Foremost(os, i) => Last(x.abis) = Last(os[i].abis)
      BY <2>1, LinkedAbis
    <2> QED
      BY <1>4, <2>2 DEF N
  <1>6. \A i \in 1 .. N : Translated(os[i], c, i)
    BY DEF LinkedFrom
  <1>7. \A i \in 1 .. N : c.inputs[i] \notin Library =>
              \E a : CollectsUpto(a, c, i) /\ os[i].abis = AbisOf(a)
    BY <1>6, TranslatedAbis
  <1> HIDE DEF N, S, C
  <1>8. Len(l) \in Nat /\ DOMAIN l = 1 .. Len(l) /\ l = [i \in 1 .. Len(l) |-> l[i]]
    BY <1>5 DEF IsList
  <1>9. \A i \in 1 .. Len(l) : l[i] \in ToSet(l)
    BY <1>8 DEF ToSet
  <1>10. ASSUME NEW d \in m
         PROVE  \E y \in ToSet(l) : Described(y, d)
    <2>1. PICK s \in S \ Library : d \in Actions(s) /\ d.mine
      BY DEF S
    <2>2. PICK i \in 1 .. N : s = c.inputs[i]
      BY <1>1, <2>1
    <2>3. PICK a : CollectsUpto(a, c, i) /\ os[i].abis = AbisOf(a)
      BY <1>7, <2>1, <2>2
    <2>4. ~is_empty(a) /\ Described(to_json(a), d)
      BY <1>2, <1>3, <2>1, <2>2, <2>3, EmbeddedAction DEF S
    <2>5. os[i].abis = <<to_json(a)>>
      BY <2>3, <2>4 DEF AbisOf
    <2>6. to_json(a) \in ToSet(os[i].abis)
      BY <2>5 DEF ToSet
    <2> QED
      BY <1>5, <2>4, <2>6
  <1>11. Len(l) # 0 /\ l # <<>>
    <2>1. PICK d \in m : TRUE
      OBVIOUS
    <2>2. PICK y \in ToSet(l) : TRUE
      BY <1>10, <2>1
    <2>3. PICK i \in DOMAIN l : TRUE
      BY <2>2 DEF ToSet
    <2> QED
      BY <1>8, <2>3
  <1>12. PICK O : O = Sectioned(S)
    OBVIOUS
  <1>13. ASSUME NEW i \in 1 .. Len(l)
         PROVE  Within(l[i], O, C)
    <2>1. PICK j \in 1 .. N : Embedded(l[i], c, j)
      BY <1>5, <1>9
    <2>2. PICK y : y = l[i]
      OBVIOUS
    <2>3. Upto(c, j) \subseteq S /\ Embedded(y, c, j)
      BY <1>2, <2>1, <2>2
    <2> QED
      BY <1>12, <2>2, <2>3, EmbeddedWithin DEF C
  <1>14. \A s \in Sections : O[s] = Declared(S, s) /\ NamesUnique(O[s])
    <2>1. \A s \in Sections : O[s] = Declared(S, s)
      BY <1>12 DEF Sectioned
    <2>2. \A s \in Sections : NamesUnique(Declared(S, s))
      BY <1>3, DeclaredUnique DEF S
    <2> QED
      BY <2>1, <2>2
  <1>15. OneText(C)
    BY DEF OneText, C, ToSet, NamesUsable
  <1>16. PICK W : W = writeABI(l)
    OBVIOUS
  <1>17. Within(W, O, C) /\ (HasIds(Last(l).clauses, C) => W.clauses = Last(l).clauses)
    BY <1>8, <1>11, <1>13, <1>14, <1>15, <1>16, WithinAll
  <1>18. ASSUME NEW d \in m
         PROVE  Described(W, d)
    <2>1. PICK y \in ToSet(l) : Described(y, d)
      BY <1>10
    <2>2. PICK i \in 1 .. Len(l) : y = l[i]
      BY <1>8, <2>1 DEF ToSet
    <2>3. ASSUME NEW s \in Sections, NEW o \in y.objects[s]
          PROVE  o \in W.objects[s]
      <3>1. Stands(writeABI(l), s, o)
        BY <1>8, <1>11, <2>2, <2>3, MergedFacts
      <3>2. PICK z \in W.objects[s] : z.name = o.name
        BY <1>16, <3>1 DEF Stands
      <3>3. Within(y, O, C)
        BY <1>13, <2>2
      <3>4. z \in O[s] /\ o \in O[s]
        BY <1>17, <2>3, <3>2, <3>3 DEF Within
      <3>5. z = o
        BY <1>14, <3>2, <3>4 DEF NamesUnique
      <3> QED
        BY <3>2, <3>5
    <2>4. "actions" \in Sections /\ "structs" \in Sections
      BY DEF Sections
    <2> QED
      BY <2>1, <2>3, <2>4 DEF Described
  <1>19. ASSUME S \cap Library = {}
         PROVE  W.clauses = Clauses
    <2> DEFINE T == {i \in 1 .. N : os[i].abis # <<>>}
    <2>1. T \in SUBSET Nat
      BY <1>1
    <2>2. T # {}
      <3>1. l[1] \in ToSet(l)
        BY <1>8, <1>9, <1>11
      <3>2. PICK d \in m : TRUE
        OBVIOUS
      <3>3. PICK s \in S \ Library : d \in Actions(s) /\ d.mine
        BY <3>2 DEF S
      <3>4. PICK i \in 1 .. N : s = c.inputs[i]
        BY <1>1, <3>3
      <3>5. PICK a : CollectsUpto(a, c, i) /\ os[i].abis = AbisOf(a)
        BY <1>7, <3>3, <3>4
      <3>6. ~is_empty(a)
        BY <1>2, <1>3, <3>3, <3>4, <3>5, EmbeddedAction DEF S
      <3>7. os[i].abis = <<to_json(a)>>
        BY <3>5, <3>6 DEF AbisOf
      <3>8. os[i].abis # <<>>
        BY <3>7
      <3> QED
        BY <3>8
    <2>3. PICK i \in T : \A j \in T : i <= j
      <3> HIDE DEF T
      <3> QED
        BY <2>1, <2>2, LeastNatural
    <2>4. i \in 1 .. N /\ os[i].abis # <<>> /\ \A j \in 1 .. i - 1 : j \in 1 .. N /\ os[j].abis = <<>>
      BY <1>1, <2>3
    <2> HIDE DEF T
    <2>5. \A j \in 1 .. N : c.inputs[j] \notin Library
      BY <1>1, <1>19
    <2>6. PICK a : CollectsUpto(a, c, i) /\ os[i].abis = AbisOf(a)
      BY <1>7, <2>4, <2>5
    <2>7. ~is_empty(a) /\ os[i].abis = <<to_json(a)>>
      BY <2>4, <2>6 DEF AbisOf
    <2>8. ASSUME NEW j \in 1 .. i - 1
          PROVE  \E b : CollectsUpto(b, c, j) /\ is_empty(b)
      <3>1. PICK b : CollectsUpto(b, c, j) /\ os[j].abis = AbisOf(b)
        BY <1>7, <2>4, <2>5
      <3>2. is_empty(b)
        BY <2>4, <3>1 DEF AbisOf
      <3> QED
        BY <3>1, <3>2
    <2>9. i \in Nat \ {0}
      BY <1>1, <2>4
    <2>10. a.clauses = Clauses
      BY <2>6, <2>7, <2>8, <2>9, FirstClauses
    <2>11. Last(l) = to_json(a)
      <3>1. Last(l) = Last(os[i].abis)
        BY <1>5, <2>4 DEF Foremost
      <3> QED
        BY <2>7, <3>1 DEF Last
    <2>12. Last(l).clauses = Clauses
      BY <2>10, <2>11, JsonSections
    <2>13. HasIds(Clauses, C)
      BY DEF HasIds, C, ToSet
    <2> QED
      BY <1>17, <2>12, <2>13
  <1> QED
    BY <1>4, <1>11, <1>16, <1>17, <1>18, <1>19 DEF Within, S

(* If names are unambiguous, a build that succeeds has written an ABI in     *)
(* which each action of each input has its own parameters and each clause    *)
(* stands as often as in its file, although every input adds all clauses     *)
(* again and the ABIs of the objects overlap (wasm-cpp.cpp.in:80-84,         *)
(* Writer.cpp:107-110).                                                      *)
THEOREM ActionsDescribed ==
    AbsentIsNoContent /\ NamesUsable => (Spec => []AbiDescribes)
  <1> SUFFICES ASSUME AbsentIsNoContent, NamesUsable
               PROVE  Spec => []AbiDescribes
    OBVIOUS
  <1>1. IInv /\ Assembles => AbiDescribes
    <2> SUFFICES ASSUME IInv, Assembles, NEW p \in Procs, NEW m,
                        m = UNION {{d \in Actions(s) : d.mine} : s \in Inputs(cmd[p]) \ Library},
                        Succeeded(p), alone[p], cmd[p].tool = "wasm-cpp", m # {},
                        Unambiguous(Inputs(cmd[p]))
                 PROVE  /\ files[AbiFile(cmd[p])] # Absent
                        /\ files[AbiFile(cmd[p])].by = p
                        /\ LET abi == AbiOf(files[AbiFile(cmd[p])]) IN
                           /\ \A d \in m : Described(abi, d)
                           /\ Inputs(cmd[p]) \cap Library = {} => abi.clauses = Clauses
      BY DEF AbiDescribes
    <2>1. exit[p] = "0" /\ cmd[p].link /\ cmd[p].tool # "wasm-lld" /\ pc[p] # "idle"
      BY DEF Succeeded, IInv, Places
    <2>2. cmd[p] \in Commands[p]
      BY <2>1 DEF IInv, Places
    <2>3. Assembly(cmd[p], pc[p], "0", at[p], files)
      BY <2>1 DEF Assembles
    <2>4. Building(p, cmd[p], pc[p], "0", at[p], files)
      BY <2>1 DEF IInv, Builds
    <2>5. PICK x, y, c : x = files[Output(cmd[p])] /\ y = files[AbiFile(cmd[p])] /\ c = cmd[p]
      OBVIOUS
    <2>6. x # Absent /\ x.by = p
      BY <2>4, <2>5 DEF Building
    <2>7. Together(x, y, c)
      BY <2>3, <2>5 DEF Assembly
    <2>8. Joint(x, c) /\ y = IF x.abis # <<>> /\ writeABI(x.abis).ok THEN x ELSE Absent
      BY <2>6, <2>7 DEF Together
    <2>9. PICK os : LinkedFrom(x, os, c)
      BY <2>8 DEF Joint
    <2>10. /\ x.abis # <<>> /\ writeABI(x.abis).ok
           /\ \A d \in m : Described(writeABI(x.abis), d)
           /\ Inputs(c) \cap Library = {} => writeABI(x.abis).clauses = Clauses
      <3>1. c \in Commands[p] /\ c.tool = "wasm-cpp" /\ Unambiguous(Inputs(c))
            /\ m = UNION {{d \in Actions(s) : d.mine} : s \in Inputs(c) \ Library}
        BY <2>2, <2>5
      <3> QED
        BY <2>9, <3>1, LinkedDescribes
    <2>11. y = x
      BY <2>8, <2>10
    <2> QED
      BY <2>5, <2>6, <2>10, <2>11 DEF AbiOf
  <1> QED
    BY <1>1, AssemblyInvariance, PTL
=============================================================================

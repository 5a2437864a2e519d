----------------------------- MODULE Build_proof -----------------------------
(***************************************************************************)
(* Proofs about the two commands that share an output directory, for any   *)
(* set of models and dialects, any number of compile and compile_dylib     *)
(* runs, any functions, and a kill between any two steps: a library with   *)
(* SFA symbols is of one run and of one compile, the staleness check       *)
(* cannot be passed over, only a module with all its stages is linked, and *)
(* it is what they make of the function, each once and in their order.     *)
(*                                                                         *)
(* None of these is inductive.  The first three speak of the library on    *)
(* disk, and hold because of what is true at the step that linked it: what *)
(* the running command has read and written so far (RunKept) and what the  *)
(* files of a finished compile say (FilesKept, StampKept).  The last two   *)
(* need to know which stages the module went through (StagesKept) and what *)
(* they left of it (BodyKept).                                             *)
(***************************************************************************)
EXTENDS Build, SequenceTheorems, TLAPS

-----------------------------------------------------------------------------
(* What a file can hold, and what the commands carry with them. *)

Files == {"model.mlir", "constants.pth", "metadata.json", "constants.bin", "model.ll", "dylib"}

Tags == [run : Nat, mlir : Nat, meta : Nat, consts : Nat, dialect : Dialects, checked : BOOLEAN]
Texts == [gen : Nat, whole : BOOLEAN]
Metas == [gen : Nat, whole : BOOLEAN, hash : Dialects \cup {"none"}]
Bins == [run : Nat, mlir : Nat]
Libs == [code : Tags, abi : {None} \cup Tags, bin : Bins]
Runs == [kind : {m.kind : m \in Models}, consts : BOOLEAN,
         dialect : Dialects, stamped : BOOLEAN, done : BOOLEAN]

InCompile == {"passes", "mlir", "pth", "bin", "meta", "hook"}
AfterRead == {"bin", "fresh", "lower", "stage", "wait", "join", "link", "embed", "relink"}
AfterBin == AfterRead \ {"bin"}

Procs == [cmd : {"idle", "compile", "dylib"}, pc : {"", "read"} \cup InCompile \cup AfterRead,
          n : Nat, tag : {None} \cup Tags, stage : Nat]

DiskOK ==
    /\ DOMAIN disk = Files
    /\ disk["model.mlir"] \in {None} \cup Texts
    /\ disk["constants.pth"] \in {None} \cup Texts
    /\ disk["metadata.json"] \in {None} \cup Metas
    /\ disk["constants.bin"] \in {None} \cup Bins
    /\ disk["model.ll"] \in {None} \cup Tags
    /\ disk["dylib"] \in {None} \cup Libs

(* Where a command stands; from its second step on compile_dylib carries a *)
(* record of what it read, and constants.bin is of this run once written.  *)
Compile(pc) == proc.cmd = "compile" /\ proc.pc \in pc
Dylib(pc) == proc.cmd = "dylib" /\ proc.pc \in pc

CommandOK ==
    \/ proc = Idle
    \/ /\ Compile(InCompile)
       /\ proc.n = Len(compiles) /\ Len(compiles) > 0
    \/ Dylib({"read"}) /\ disk["model.mlir"] # None
    \/ Dylib(AfterRead) /\ proc.tag \in Tags

TypeOK ==
    /\ dialect \in Dialects
    /\ compiles \in Seq(Runs)
    /\ dylibs \in Nat
    /\ proc \in Procs
    /\ DiskOK
    /\ CommandOK
    /\ Dylib(AfterBin) => disk["constants.bin"] \in Bins
    /\ Dylib({"embed", "relink"}) => disk["model.ll"] = proc.tag
    /\ Compile({"hook"}) => disk["metadata.json"] \in Metas

(* The compile_dylib run that is on its way has written what it will link. *)
RunKept ==
    /\ Dylib(AfterRead) => proc.tag.run = dylibs
    /\ Dylib(AfterBin) => disk["constants.bin"].run = dylibs
    /\ SymbolsMatchCode

(* A library or a command that read the directory knows a compile that can *)
(* no longer end: it ended or it was cut short.                            *)
Past(t) ==
    /\ t.mlir \in 1 .. Len(compiles)
    /\ proc.cmd = "compile" => t.mlir < Len(compiles)

OfOneCompile(t) ==
    compiles[t.mlir].done =>
        /\ t.meta = t.mlir
        /\ t.consts = IF compiles[t.mlir].consts THEN t.mlir ELSE 0

(* The files of a compile: of the running one as far as it has come, and   *)
(* all of them when the one that wrote the text has ended.                 *)
FilesKept ==
    /\ proc.cmd = "compile" => ~ compiles[Len(compiles)].done
    /\ disk["model.mlir"] # None => disk["model.mlir"].gen \in 1 .. Len(compiles)
    /\ Compile({"pth", "bin", "meta", "hook"}) =>
          disk["model.mlir"] # None /\ disk["model.mlir"].gen = Len(compiles)
    /\ Compile({"bin", "meta", "hook"}) /\ compiles[Len(compiles)].consts =>
          disk["constants.pth"] # None /\ disk["constants.pth"].gen = Len(compiles)
    /\ Compile({"hook"}) => disk["metadata.json"].gen = Len(compiles)
    /\ disk["model.mlir"] # None /\ compiles[disk["model.mlir"].gen].done =>
          /\ disk["metadata.json"] # None
          /\ disk["metadata.json"].gen = disk["model.mlir"].gen
          /\ compiles[disk["model.mlir"].gen].consts =>
                disk["constants.pth"] # None /\ disk["constants.pth"].gen = disk["model.mlir"].gen

(* What compile_dylib read, and what its libraries say, about that compile. *)
TagsKept ==
    /\ Dylib(AfterRead) =>
          /\ disk["model.mlir"] # None /\ proc.tag.mlir = disk["model.mlir"].gen
          /\ OfOneCompile(proc.tag)
    /\ disk["dylib"] # None => Past(disk["dylib"].code)
    /\ disk["dylib"] # None /\ disk["dylib"].abi # None => Past(disk["dylib"].abi)
    /\ OneGeneration

(* The metadata of a stamped compile carries its dialect, and a run that   *)
(* git let pass works with that dialect.                                   *)
Fresh(t) ==
    compiles[t.mlir].done /\ compiles[t.mlir].stamped /\ t.checked =>
        t.dialect = compiles[t.mlir].dialect

StampKept ==
    /\ proc.cmd = "compile" =>
          ~ compiles[Len(compiles)].stamped /\ compiles[Len(compiles)].dialect = dialect
    /\ disk["model.mlir"] # None /\ compiles[disk["model.mlir"].gen].done
         /\ compiles[disk["model.mlir"].gen].stamped =>
          disk["metadata.json"].hash = compiles[disk["model.mlir"].gen].dialect
    /\ Dylib(AfterRead) => proc.tag.dialect = dialect /\ Fresh(proc.tag)
    /\ StaleIsRefused

(* The stages behind the current one were applied, and a pass thread works *)
(* only while its stage is waited for.                                     *)
StagesKept ==
    /\ DOMAIN mod = {"orig", "body", "applied", "torn"}
    /\ worker \in {"none", "running", "done", "failed"}
    /\ worker # "none" => Dylib({"wait", "join"})
    /\ Dylib({"stage", "wait", "join"}) => proc.stage \in DOMAIN STAGES
    /\ Dylib({"wait", "join"}) => ~ STAGES[proc.stage].action
    /\ Dylib({"stage", "wait", "join"}) =>
          \A k \in DOMAIN STAGES : k < proc.stage /\ ~ STAGES[k].warn_only => k \in mod.applied
    /\ Dylib({"stage"}) => ~ mod.torn
    /\ worker = "done" => ~ mod.torn /\ proc.stage \in mod.applied
    /\ Dylib({"link"}) => ~ mod.torn /\ \A k \in DOMAIN STAGES : ~ STAGES[k].warn_only => k \in mod.applied

Kept == TypeOK /\ RunKept /\ FilesKept /\ TagsKept /\ StampKept

IInv == Kept /\ StagesKept

-----------------------------------------------------------------------------
(* A missing file is not a record of any of the kinds a command writes. *)
LEMMA NoneIsNoRecord ==
    /\ None \notin Tags
    /\ None \notin Texts
    /\ None \notin Metas
    /\ None \notin Bins
    /\ None \notin Libs
  BY DEF None, Tags, Texts, Metas, Bins, Libs

(* The types hold initially. *)
LEMMA TypeInit == Init => TypeOK
<1>. SUFFICES ASSUME Init PROVE TypeOK
  OBVIOUS
<1>1. dialect \in Dialects /\ compiles \in Seq(Runs) /\ dylibs \in Nat
  BY DEF Init
<1>2. proc = Idle /\ proc \in Procs
  BY DEF Init, Idle, Procs
<1>3. DiskOK
  BY DEF Init, DiskOK, Files
<1>4. proc.cmd = "idle"
  BY <1>2 DEF Idle
<1>. QED
  BY <1>1, <1>2, <1>3, <1>4 DEF TypeOK, CommandOK, Compile, Dylib

(* The steps the actions are made of: ending a command, moving it on, and
   writing one file. *)
LEMMA IdleFacts == Idle \in Procs /\ Idle.cmd = "idle" /\ Idle.pc = "" /\ Idle.tag = None
  BY DEF Idle, Procs

(* The record of a compile that has just begun. *)
LEMMA StartFacts ==
    ASSUME NEW k \in Nat
    PROVE  LET p == [Idle EXCEPT !.cmd = "compile", !.pc = "passes", !.n = k]
           IN  p \in Procs /\ p.cmd = "compile" /\ p.pc = "passes" /\ p.n = k
  BY DEF Idle, Procs, InCompile

(* The contents of the text and metadata files. *)
LEMMA TextFacts ==
    ASSUME NEW k \in Nat, NEW whole \in BOOLEAN, NEW hash \in Dialects \cup {"none"}
    PROVE  /\ LET text == [gen |-> k, whole |-> whole]
              IN  text \in Texts /\ text.gen = k /\ text # None
           /\ LET meta == [gen |-> k, whole |-> whole, hash |-> hash]
              IN  meta \in Metas /\ meta.gen = k /\ meta.hash = hash /\ meta # None
  BY NoneIsNoRecord DEF Texts, Metas

(* A command that moves on changes nothing of its record but where it is. *)
LEMMA GoFacts ==
    ASSUME proc \in Procs, NEW pc \in {"", "read"} \cup InCompile \cup AfterRead, Go(pc)
    PROVE  /\ proc' \in Procs
           /\ proc'.cmd = proc.cmd /\ proc'.pc = pc /\ proc'.n = proc.n /\ proc'.tag = proc.tag
           /\ proc'.stage = proc.stage
  BY DEF Go, Procs

(* Writing a file leaves the other files alone. *)
LEMMA WriteFacts ==
    ASSUME DOMAIN disk = Files, NEW f \in Files, NEW content, disk' = [disk EXCEPT ![f] = content]
    PROVE  /\ DOMAIN disk' = Files
           /\ disk'[f] = content
           /\ \A g \in Files : g # f => disk'[g] = disk[g]
  OBVIOUS

(* Replacing an entry of the history of compiles, and in particular setting
   the marks of its end. *)
LEMMA StampFacts ==
    ASSUME NEW s \in Seq(Runs), NEW n \in 1 .. Len(s), NEW r \in Runs, NEW t, t = [s EXCEPT ![n] = r],
           r.kind = s[n].kind /\ r.consts = s[n].consts /\ r.dialect = s[n].dialect
    PROVE  /\ t \in Seq(Runs)
           /\ Len(t) = Len(s)
           /\ \A i \in 1 .. Len(s) :
                 /\ t[i].kind = s[i].kind
                 /\ t[i].consts = s[i].consts
                 /\ t[i].dialect = s[i].dialect
                 /\ i # n => t[i] = s[i]
           /\ t[n] = r
<1>1. t \in Seq(Runs) /\ Len(t) = Len(s) /\ t[n] = r /\ \A i \in 1 .. Len(s) : i # n => t[i] = s[i]
  BY ExceptSeq
<1>2. ASSUME NEW i \in 1 .. Len(s)
      PROVE  t[i].kind = s[i].kind /\ t[i].consts = s[i].consts /\ t[i].dialect = s[i].dialect
  <2>1. CASE i = n
    BY <1>1, <2>1, Zenon
  <2>2. CASE i # n
    BY <1>1, <2>2, Zenon
  <2>. QED
    BY <2>1, <2>2
<1>. QED
  BY <1>1, <1>2, Zenon

-----------------------------------------------------------------------------
(* Steps that touch no file: a command that ends, and compile_dylib moving on. *)

(* A command that ends, whether it succeeded, failed or was killed. *)
LEMMA EndKeeps ==
    ASSUME Kept, proc' = Idle, UNCHANGED <<dialect, compiles, disk>>, dylibs' \in Nat
    PROVE  Kept'
<1>1. proc' \in Procs /\ proc'.cmd = "idle"
  BY IdleFacts
<1>. USE DEF Compile, Dylib
<1>2. TypeOK'
  BY <1>1 DEF Kept, TypeOK, DiskOK, CommandOK
<1>3. RunKept'
  BY <1>1 DEF Kept, RunKept, SymbolsMatchCode
<1>4. FilesKept'
  BY <1>1 DEF Kept, FilesKept
<1>5. TagsKept'
  BY <1>1 DEF Kept, TagsKept, Past, OneGeneration
<1>6. StampKept'
  BY <1>1 DEF Kept, StampKept, StaleIsRefused
<1>. QED
  BY <1>2, <1>3, <1>4, <1>5, <1>6 DEF Kept

(* compile_dylib moves on to its next step. *)
LEMMA MoveKeeps ==
    ASSUME Kept, Dylib(AfterBin), proc' \in Procs, proc'.cmd = "dylib", proc'.pc \in AfterBin,
           proc'.pc \in {"embed", "relink"} => proc.pc \in {"embed", "relink"},
           proc'.tag = proc.tag, UNCHANGED <<dialect, compiles, disk, dylibs>>
    PROVE  Kept'
<1>0. Dylib(AfterRead) /\ proc'.pc \in AfterRead
  BY DEF AfterBin, Dylib
<1>1. proc.tag \in Tags
  BY <1>0, IdleFacts DEF Kept, TypeOK, CommandOK, Dylib, Compile, AfterRead
<1>. USE DEF Compile, Dylib
<1>2. TypeOK'
  BY <1>0, <1>1 DEF Kept, TypeOK, DiskOK, CommandOK
<1>3. RunKept'
  BY <1>0 DEF Kept, RunKept, SymbolsMatchCode
<1>4. FilesKept'
  BY <1>0 DEF Kept, FilesKept
<1>5. TagsKept'
  BY <1>0 DEF Kept, TagsKept, Past, OfOneCompile, OneGeneration
<1>6. StampKept'
  BY <1>0 DEF Kept, StampKept, Fresh, StaleIsRefused
<1>. QED
  BY <1>2, <1>3, <1>4, <1>5, <1>6 DEF Kept

(* A step that touches neither the directory nor the command. *)
LEMMA StillKeeps ==
    ASSUME Kept, UNCHANGED <<dialect, compiles, disk, dylibs, proc>>
    PROVE  Kept'
<1>. USE DEF Compile, Dylib
<1>1. TypeOK'
  BY DEF Kept, TypeOK, DiskOK, CommandOK
<1>2. RunKept'
  BY DEF Kept, RunKept, SymbolsMatchCode
<1>3. FilesKept'
  BY DEF Kept, FilesKept
<1>4. TagsKept'
  BY DEF Kept, TagsKept, Past, OfOneCompile, OneGeneration
<1>5. StampKept'
  BY DEF Kept, StampKept, Fresh, StaleIsRefused
<1>. QED
  BY <1>1, <1>2, <1>3, <1>4, <1>5 DEF Kept

-----------------------------------------------------------------------------
(* The steps of compile. *)

(* compile begins, with a number of its own. *)
LEMMA StartCompileKeeps ==
    ASSUME Kept, StartCompile, UNCHANGED dylibs
    PROVE  Kept'
<1>1. PICK m \in Models :
         compiles' = Append(compiles, [kind |-> m.kind, consts |-> m.consts, dialect |-> dialect,
                                       stamped |-> FALSE, done |-> FALSE])
  BY DEF StartCompile
<1>. DEFINE r == [kind |-> m.kind, consts |-> m.consts, dialect |-> dialect,
                  stamped |-> FALSE, done |-> FALSE]
<1>2. r \in Runs /\ ~ r.done /\ ~ r.stamped /\ r.dialect = dialect
  BY BuildAssumption DEF Runs, Kept, TypeOK
<1>3. compiles \in Seq(Runs) /\ Len(compiles) \in Nat
  BY LenProperties DEF Kept, TypeOK
<1>. HIDE DEF r
<1>4. /\ compiles' \in Seq(Runs) /\ Len(compiles') = Len(compiles) + 1
      /\ compiles'[Len(compiles) + 1] = r
      /\ \A i \in 1 .. Len(compiles) : compiles'[i] = compiles[i]
  BY <1>1, <1>2, <1>3, AppendProperties DEF r
<1>5. /\ proc' \in Procs
      /\ proc'.cmd = "compile" /\ proc'.pc = "passes" /\ proc'.n = Len(compiles) + 1
  <2>1. proc' = [Idle EXCEPT !.cmd = "compile", !.pc = "passes", !.n = Len(compiles) + 1]
    BY DEF StartCompile
  <2>2. Len(compiles) + 1 \in Nat
    BY <1>3
  <2>. QED
    BY <2>1, <2>2, StartFacts, Zenon
<1>6. UNCHANGED <<dialect, disk>> /\ proc.cmd = "idle"
  BY IdleFacts DEF StartCompile
<1>. USE DEF Compile, Dylib
<1>7. TypeOK'
  BY <1>3, <1>4, <1>5, <1>6 DEF Kept, TypeOK, DiskOK, CommandOK, InCompile
<1>8. RunKept'
  BY <1>5, <1>6 DEF Kept, RunKept, SymbolsMatchCode
<1>9. FilesKept'
  BY <1>2, <1>3, <1>4, <1>5, <1>6 DEF Kept, FilesKept
<1>10. TagsKept'
  BY <1>2, <1>3, <1>4, <1>5, <1>6 DEF Kept, TagsKept, Past, OneGeneration
<1>11. StampKept'
  BY <1>2, <1>3, <1>4, <1>5, <1>6 DEF Kept, StampKept, FilesKept, TagsKept, Past, StaleIsRefused
<1>. QED
  BY <1>7, <1>8, <1>9, <1>10, <1>11 DEF Kept

(* A compile at one of its steps is the last one. *)
LEMMA AtCompile ==
    ASSUME Kept, proc.cmd = "compile"
    PROVE  /\ proc.n = Len(compiles) /\ Len(compiles) \in 1 .. Len(compiles) /\ Len(compiles) \in Nat
           /\ proc.pc \in InCompile
           /\ compiles \in Seq(Runs) /\ DOMAIN disk = Files
<1>1. proc.n = Len(compiles) /\ Len(compiles) > 0 /\ proc.pc \in InCompile
  BY IdleFacts DEF Kept, TypeOK, CommandOK, Compile, Dylib
<1>2. compiles \in Seq(Runs) /\ DOMAIN disk = Files
  BY DEF Kept, TypeOK, DiskOK
<1>3. Len(compiles) \in Nat
  BY <1>2, LenProperties
<1>. QED
  BY <1>1, <1>2, <1>3

(* compile converts, splits and runs its passes. *)
LEMMA CompileMlirKeeps ==
    ASSUME Kept, CompileMlir, UNCHANGED dylibs
    PROVE  Kept'
<1>1. CASE Fail
  BY <1>1, EndKeeps DEF Fail, Exit, Kept, TypeOK
<1>2. CASE Go("mlir") /\ UNCHANGED <<dialect, compiles, disk, mod, worker>>
  <2>1. Compile({"passes"})
    BY DEF CompileMlir, Compiling, Compile
  <2>2. proc'.cmd = "compile" /\ proc'.pc = "mlir" /\ proc'.n = proc.n /\ proc' \in Procs
    BY <1>2, <2>1, GoFacts DEF Kept, TypeOK, InCompile, Compile
  <2>. USE DEF Compile, Dylib
  <2>3. TypeOK'
    BY <1>2, <2>1, <2>2, AtCompile DEF Kept, TypeOK, DiskOK, CommandOK, InCompile
  <2>4. RunKept'
    BY <1>2, <2>2 DEF Kept, RunKept, SymbolsMatchCode
  <2>5. FilesKept'
    BY <1>2, <2>1, <2>2 DEF Kept, FilesKept
  <2>6. TagsKept'
    BY <1>2, <2>1, <2>2 DEF Kept, TagsKept, Past, OneGeneration
  <2>7. StampKept'
    BY <1>2, <2>1, <2>2 DEF Kept, StampKept, StaleIsRefused
  <2>. QED
    BY <2>3, <2>4, <2>5, <2>6, <2>7 DEF Kept
<1>. QED
  BY <1>1, <1>2 DEF CompileMlir

(* compile writes model.mlir. *)
LEMMA SaveTextKeeps ==
    ASSUME Kept, SaveText, UNCHANGED dylibs
    PROVE  Kept'
<1>. DEFINE text == [gen |-> proc.n, whole |-> TRUE]
<1>1. Compile({"mlir"}) /\ UNCHANGED <<dialect, compiles>>
  BY DEF SaveText, Compiling, Compile
<1>2. /\ proc.n = Len(compiles) /\ Len(compiles) \in 1 .. Len(compiles) /\ Len(compiles) \in Nat
      /\ compiles \in Seq(Runs) /\ DOMAIN disk = Files
  BY <1>1, AtCompile DEF Compile
<1>3. PICK pc \in {"pth", "bin"} : Go(pc) /\ (pc = "bin" => ~ compiles[proc.n].consts)
  BY DEF SaveText, ThisCompile
<1>4. proc'.cmd = "compile" /\ proc'.pc = pc /\ proc'.n = proc.n /\ proc' \in Procs
  BY <1>1, <1>3, GoFacts DEF Kept, TypeOK, InCompile, Compile
<1>5. text \in Texts /\ text.gen = Len(compiles) /\ text # None
  BY <1>2, TextFacts
<1>6. disk' = [disk EXCEPT !["model.mlir"] = text]
  BY DEF SaveText, Write
<1>. HIDE DEF text
<1>7. /\ DOMAIN disk' = Files /\ disk'["model.mlir"] = text
      /\ \A g \in Files : g # "model.mlir" => disk'[g] = disk[g]
  BY <1>2, <1>6, WriteFacts DEF Files
<1>. USE DEF Compile, Dylib
<1>8. TypeOK'
  BY <1>1, <1>2, <1>4, <1>5, <1>7 DEF Kept, TypeOK, DiskOK, CommandOK, InCompile, Files
<1>9. RunKept'
  BY <1>4, <1>7 DEF Kept, RunKept, SymbolsMatchCode, Files
<1>10. FilesKept'
  BY <1>1, <1>2, <1>3, <1>4, <1>5, <1>7 DEF Kept, FilesKept, Files
<1>11. TagsKept'
  BY <1>1, <1>4, <1>7 DEF Kept, TagsKept, Past, OneGeneration, Files
<1>12. StampKept'
  BY <1>1, <1>2, <1>4, <1>5, <1>7 DEF Kept, FilesKept, StampKept, StaleIsRefused, Files
<1>. QED
  BY <1>8, <1>9, <1>10, <1>11, <1>12 DEF Kept

(* compile writes constants.pth. *)
LEMMA SaveConstantsKeeps ==
    ASSUME Kept, SaveConstants, UNCHANGED dylibs
    PROVE  Kept'
<1>. DEFINE text == [gen |-> proc.n, whole |-> TRUE]
<1>1. Compile({"pth"}) /\ UNCHANGED <<dialect, compiles>>
  BY DEF SaveConstants, Compiling, Compile
<1>2. /\ proc.n = Len(compiles) /\ Len(compiles) \in 1 .. Len(compiles) /\ Len(compiles) \in Nat
      /\ compiles \in Seq(Runs) /\ DOMAIN disk = Files
  BY <1>1, AtCompile DEF Compile
<1>3. proc'.cmd = "compile" /\ proc'.pc = "bin" /\ proc'.n = proc.n /\ proc' \in Procs
  BY <1>1, GoFacts DEF SaveConstants, Kept, TypeOK, InCompile, Compile
<1>4. text \in Texts /\ text.gen = Len(compiles) /\ text # None
  BY <1>2, TextFacts
<1>5. disk' = [disk EXCEPT !["constants.pth"] = text]
  BY DEF SaveConstants, Write
<1>. HIDE DEF text
<1>6. /\ DOMAIN disk' = Files /\ disk'["constants.pth"] = text
      /\ \A g \in Files : g # "constants.pth" => disk'[g] = disk[g]
  BY <1>2, <1>5, WriteFacts DEF Files
<1>. USE DEF Compile, Dylib
<1>7. TypeOK'
  BY <1>1, <1>2, <1>3, <1>4, <1>6 DEF Kept, TypeOK, DiskOK, CommandOK, InCompile, Files
<1>8. RunKept'
  BY <1>3, <1>6 DEF Kept, RunKept, SymbolsMatchCode, Files
<1>9. FilesKept'
  BY <1>1, <1>2, <1>3, <1>4, <1>6 DEF Kept, FilesKept, Files
<1>10. TagsKept'
  BY <1>1, <1>3, <1>6 DEF Kept, TagsKept, Past, OneGeneration, Files
<1>11. StampKept'
  BY <1>1, <1>2, <1>3, <1>4, <1>6 DEF Kept, FilesKept, StampKept, StaleIsRefused, Files
<1>. QED
  BY <1>7, <1>8, <1>9, <1>10, <1>11 DEF Kept

(* compile writes constants.bin. *)
LEMMA SaveBinKeeps ==
    ASSUME Kept, SaveBin, UNCHANGED dylibs
    PROVE  Kept'
<1>. DEFINE text == [run |-> 0, mlir |-> proc.n]
<1>1. Compile({"bin"}) /\ UNCHANGED <<dialect, compiles>>
  BY DEF SaveBin, Compiling, Compile
<1>2. /\ proc.n = Len(compiles) /\ Len(compiles) \in 1 .. Len(compiles) /\ Len(compiles) \in Nat
      /\ compiles \in Seq(Runs) /\ DOMAIN disk = Files
  BY <1>1, AtCompile DEF Compile
<1>3. proc'.cmd = "compile" /\ proc'.pc = "meta" /\ proc'.n = proc.n /\ proc' \in Procs
  BY <1>1, GoFacts DEF SaveBin, Kept, TypeOK, InCompile, Compile
<1>4. text \in Bins
  BY <1>2, SMT DEF Bins
<1>5. disk' = [disk EXCEPT !["constants.bin"] = text] \/ UNCHANGED disk
  BY DEF SaveBin, Write
<1>. HIDE DEF text
<1>6. /\ DOMAIN disk' = Files /\ disk'["constants.bin"] \in {text, disk["constants.bin"]}
      /\ \A g \in Files : g # "constants.bin" => disk'[g] = disk[g]
  BY <1>2, <1>5, WriteFacts DEF Files
<1>. USE DEF Compile, Dylib
<1>7. TypeOK'
  BY <1>1, <1>2, <1>3, <1>4, <1>6 DEF Kept, TypeOK, DiskOK, CommandOK, InCompile, Files
<1>8. RunKept'
  BY <1>3, <1>6 DEF Kept, RunKept, SymbolsMatchCode, Files
<1>9. FilesKept'
  BY <1>1, <1>2, <1>3, <1>4, <1>6 DEF Kept, FilesKept, Files
<1>10. TagsKept'
  BY <1>1, <1>3, <1>6 DEF Kept, TagsKept, Past, OneGeneration, Files
<1>11. StampKept'
  BY <1>1, <1>2, <1>3, <1>4, <1>6 DEF Kept, FilesKept, StampKept, StaleIsRefused, Files
<1>. QED
  BY <1>7, <1>8, <1>9, <1>10, <1>11 DEF Kept

(* The end of a compile: its metadata is written, and its entry marked. *)
LEMMA EndCompileKeeps ==
    ASSUME Kept, Compile({"meta", "hook"}), NEW meta \in Metas, NEW r \in Runs,
           meta.gen = Len(compiles), meta # None,
           disk' = [disk EXCEPT !["metadata.json"] = meta],
           compiles' = [compiles EXCEPT ![Len(compiles)] = r],
           r.kind = compiles[Len(compiles)].kind, r.consts = compiles[Len(compiles)].consts,
           r.dialect = compiles[Len(compiles)].dialect, r.stamped => meta.hash = dialect,
           proc' = Idle, UNCHANGED <<dialect, dylibs>>
    PROVE  Kept'
<1>1. /\ proc.n = Len(compiles) /\ Len(compiles) \in 1 .. Len(compiles) /\ Len(compiles) \in Nat
      /\ compiles \in Seq(Runs) /\ DOMAIN disk = Files
  BY AtCompile DEF Compile
<1>2. proc' \in Procs /\ proc'.cmd = "idle"
  BY IdleFacts
<1>3. /\ compiles' \in Seq(Runs) /\ Len(compiles') = Len(compiles) /\ compiles'[Len(compiles)] = r
      /\ \A i \in 1 .. Len(compiles) :
            /\ compiles'[i].consts = compiles[i].consts /\ compiles'[i].dialect = compiles[i].dialect
            /\ i # Len(compiles) => compiles'[i] = compiles[i]
  BY <1>1, StampFacts
<1>4. /\ DOMAIN disk' = Files /\ disk'["metadata.json"] = meta
      /\ \A g \in Files : g # "metadata.json" => disk'[g] = disk[g]
  BY <1>1, WriteFacts DEF Files
<1>. USE DEF Compile, Dylib
<1>5. TypeOK'
  BY <1>1, <1>2, <1>3, <1>4 DEF Kept, TypeOK, DiskOK, CommandOK, Files
<1>6. RunKept'
  BY <1>2, <1>4 DEF Kept, RunKept, SymbolsMatchCode, Files
<1>7. FilesKept'
  BY <1>1, <1>2, <1>3, <1>4, ZenonT(60) DEF Kept, FilesKept, Files
<1>a. disk'["dylib"] = disk["dylib"] /\ disk'["model.mlir"] = disk["model.mlir"]
  BY <1>4 DEF Files
<1>b. ASSUME NEW t, Past(t)
      PROVE  t.mlir \in 1 .. Len(compiles) /\ compiles'[t.mlir] = compiles[t.mlir]
  <2>1. t.mlir \in 1 .. Len(compiles) /\ t.mlir # Len(compiles)
    BY <1>b, <1>1 DEF Past
  <2>. QED
    BY <1>3, <2>1, Zenon
<1>c. /\ disk["dylib"] # None => Past(disk["dylib"].code)
      /\ disk["dylib"] # None /\ disk["dylib"].abi # None => Past(disk["dylib"].abi)
  BY DEF Kept, TagsKept
<1>8. TagsKept'
  <2>1. (OneGeneration)'
    BY <1>a, <1>b, <1>c DEF Kept, TagsKept, OneGeneration
  <2>. QED
    BY <1>2, <1>3, <1>a, <1>b, <1>c, <2>1 DEF TagsKept, Past
<1>9. StampKept'
  <2>1. (StaleIsRefused)'
    BY <1>a, <1>b, <1>c DEF Kept, StampKept, StaleIsRefused
  <2>2. disk["model.mlir"] # None /\ disk["model.mlir"].gen = Len(compiles)
    BY DEF Kept, FilesKept
  <2>3. r.dialect = dialect
    BY DEF Kept, StampKept
  <2>. QED
    BY <1>2, <1>3, <1>4, <1>a, <2>1, <2>2, <2>3 DEF StampKept
<1>. QED
  BY <1>5, <1>6, <1>7, <1>8, <1>9 DEF Kept

(* compile writes metadata.json. *)
LEMMA SaveMetadataKeeps ==
    ASSUME Kept, SaveMetadata, UNCHANGED dylibs
    PROVE  Kept'
<1>. DEFINE meta == [gen |-> proc.n, whole |-> TRUE, hash |-> "none"]
            r == [compiles[Len(compiles)] EXCEPT !.done = TRUE]
<1>1. Compile({"meta"}) /\ UNCHANGED dialect
  BY DEF SaveMetadata, Compiling, Compile
<1>2. /\ proc.n = Len(compiles) /\ Len(compiles) \in 1 .. Len(compiles) /\ Len(compiles) \in Nat
      /\ compiles \in Seq(Runs) /\ DOMAIN disk = Files
  BY <1>1, AtCompile DEF Compile
<1>3. meta \in Metas /\ meta.gen = Len(compiles) /\ meta # None
  BY <1>2, TextFacts
<1>4. disk' = [disk EXCEPT !["metadata.json"] = meta]
  BY DEF SaveMetadata, Write
<1>5. CASE proc' = Idle /\ compiles' = [compiles EXCEPT ![proc.n].done = TRUE]
  <2>1. compiles[Len(compiles)] \in Runs /\ ~ compiles[Len(compiles)].stamped
    BY <1>1, <1>2 DEF Kept, StampKept, Compile
  <2>2. /\ r \in Runs /\ ~ r.stamped
        /\ r.kind = compiles[Len(compiles)].kind /\ r.consts = compiles[Len(compiles)].consts
        /\ r.dialect = compiles[Len(compiles)].dialect
    BY <2>1 DEF Runs
  <2>3. compiles' = [compiles EXCEPT ![Len(compiles)] = r]
    BY <1>2, <1>5
  <2>4. Compile({"meta", "hook"})
    BY <1>1 DEF Compile
  <2>. HIDE DEF meta, r
  <2>. QED
    BY <1>1, <1>3, <1>4, <1>5, <2>2, <2>3, <2>4, EndCompileKeeps
<1>6. CASE Go("hook") /\ UNCHANGED compiles
  <2>1. proc'.cmd = "compile" /\ proc'.pc = "hook" /\ proc'.n = proc.n /\ proc' \in Procs
    BY <1>1, <1>6, GoFacts DEF Kept, TypeOK, InCompile, Compile
  <2>. HIDE DEF meta
  <2>2. /\ DOMAIN disk' = Files /\ disk'["metadata.json"] = meta
        /\ \A g \in Files : g # "metadata.json" => disk'[g] = disk[g]
    BY <1>2, <1>4, WriteFacts DEF Files
  <2>. USE DEF Compile, Dylib
  <2>3. TypeOK'
    BY <1>1, <1>2, <1>3, <1>6, <2>1, <2>2 DEF Kept, TypeOK, DiskOK, CommandOK, InCompile, Files
  <2>4. RunKept'
    BY <2>1, <2>2 DEF Kept, RunKept, SymbolsMatchCode, Files
  <2>5. FilesKept'
    BY <1>1, <1>2, <1>3, <1>6, <2>1, <2>2 DEF Kept, FilesKept, Files
  <2>6. TagsKept'
    BY <1>1, <1>6, <2>1, <2>2 DEF Kept, TagsKept, Past, OneGeneration, Files
  <2>7. StampKept'
    BY <1>1, <1>2, <1>3, <1>6, <2>1, <2>2 DEF Kept, FilesKept, StampKept, StaleIsRefused, Files
  <2>. QED
    BY <2>3, <2>4, <2>5, <2>6, <2>7 DEF Kept
<1>. QED
  BY <1>5, <1>6 DEF SaveMetadata

(* compile records the dialect in metadata.json, for RWKV models. *)
LEMMA RwkvPostHookKeeps ==
    ASSUME Kept, RwkvPostHook, UNCHANGED dylibs
    PROVE  Kept'
<1>1. PICK git \in BOOLEAN :
         /\ disk' = [disk EXCEPT !["metadata.json"] =
                       [disk["metadata.json"] EXCEPT !.hash = IF git THEN dialect ELSE @]]
         /\ compiles' = [compiles EXCEPT ![proc.n].done = TRUE, ![proc.n].stamped = git]
  BY DEF RwkvPostHook, Write
<1>. DEFINE meta == [disk["metadata.json"] EXCEPT !.hash = IF git THEN dialect ELSE @]
            r == [compiles[Len(compiles)] EXCEPT !.done = TRUE, !.stamped = git]
<1>2. Compile({"hook"}) /\ proc' = Idle /\ UNCHANGED dialect
  BY DEF RwkvPostHook, Compiling, Compile
<1>3. /\ proc.n = Len(compiles) /\ Len(compiles) \in 1 .. Len(compiles) /\ Len(compiles) \in Nat
      /\ compiles \in Seq(Runs) /\ DOMAIN disk = Files
  BY <1>2, AtCompile DEF Compile
<1>4. disk["metadata.json"] \in Metas /\ disk["metadata.json"].gen = Len(compiles) /\ dialect \in Dialects
  BY <1>2 DEF Kept, TypeOK, FilesKept, Compile
<1>5. meta \in Metas /\ meta.gen = Len(compiles) /\ meta # None /\ (git => meta.hash = dialect)
  BY <1>4, NoneIsNoRecord DEF Metas
<1>6. /\ r \in Runs /\ r.stamped = git
      /\ r.kind = compiles[Len(compiles)].kind /\ r.consts = compiles[Len(compiles)].consts
      /\ r.dialect = compiles[Len(compiles)].dialect
  <2>1. compiles[Len(compiles)] \in Runs
    BY <1>3
  <2>. QED
    BY <2>1 DEF Runs
<1>7. compiles' = [compiles EXCEPT ![Len(compiles)] = r]
  BY <1>1, <1>3
<1>8. Compile({"meta", "hook"})
  BY <1>2 DEF Compile
<1>9. disk' = [disk EXCEPT !["metadata.json"] = meta]
  BY <1>1
<1>. HIDE DEF meta, r
<1>. QED
  BY <1>2, <1>5, <1>6, <1>7, <1>8, <1>9, EndCompileKeeps

-----------------------------------------------------------------------------
(* The steps of compile_dylib. *)

(* A run past its first step carries what it read. *)
LEMMA AtDylib ==
    ASSUME Kept, Dylib(AfterRead)
    PROVE  /\ proc.tag \in Tags /\ proc.tag # None /\ proc \in Procs
           /\ compiles \in Seq(Runs) /\ Len(compiles) \in Nat /\ DOMAIN disk = Files
           /\ Past(proc.tag)
<1>1. proc.tag \in Tags
  BY IdleFacts DEF Kept, TypeOK, CommandOK, Dylib, Compile, AfterRead
<1>2. compiles \in Seq(Runs) /\ DOMAIN disk = Files /\ proc \in Procs
  BY DEF Kept, TypeOK, DiskOK
<1>3. Past(proc.tag)
  BY DEF Kept, TagsKept, FilesKept, Past, Dylib
<1>. QED
  BY <1>1, <1>2, <1>3, NoneIsNoRecord, LenProperties

(* compile_dylib begins. *)
LEMMA StartDylibKeeps ==
    ASSUME Kept, StartDylib
    PROVE  Kept'
<1>1. dylibs' \in Nat /\ UNCHANGED <<dialect, compiles, disk>> /\ proc = Idle
  BY DEF StartDylib, Kept, TypeOK
<1>2. CASE proc' = Idle
  BY <1>1, <1>2, EndKeeps
<1>3. CASE proc' = [Idle EXCEPT !.cmd = "dylib", !.pc = "read"] /\ Exists("model.mlir")
  <2>1. proc' \in Procs /\ proc'.cmd = "dylib" /\ proc'.pc = "read"
    BY <1>3 DEF Idle, Procs
  <2>2. proc.cmd = "idle" /\ disk["model.mlir"] # None
    BY <1>1, <1>3, IdleFacts DEF Exists
  <2>. USE DEF Compile, Dylib, AfterRead, AfterBin
  <2>3. TypeOK'
    BY <1>1, <2>1, <2>2 DEF Kept, TypeOK, DiskOK, CommandOK
  <2>4. RunKept'
    BY <1>1, <2>1 DEF Kept, RunKept, SymbolsMatchCode
  <2>5. FilesKept'
    BY <1>1, <2>1 DEF Kept, FilesKept
  <2>6. TagsKept'
    BY <1>1, <2>1, <2>2 DEF Kept, TagsKept, Past, OneGeneration
  <2>7. StampKept'
    BY <1>1, <2>1 DEF Kept, StampKept, StaleIsRefused
  <2>. QED
    BY <2>3, <2>4, <2>5, <2>6, <2>7 DEF Kept
<1>. QED
  BY <1>2, <1>3 DEF StartDylib

(* compile_dylib reads the artifact and takes its tag from it. *)
LEMMA ReadArtifactKeeps ==
    ASSUME Kept, ReadArtifact
    PROVE  Kept'
<1>. DEFINE meta == IF Exists("metadata.json") THEN disk["metadata.json"].gen ELSE 0
            tag == [run |-> dylibs, mlir |-> disk["model.mlir"].gen, meta |-> meta,
                    consts |-> Restored(meta), dialect |-> dialect, checked |-> FALSE]
<1>1. Dylib({"read"}) /\ dylibs' = dylibs
  BY DEF ReadArtifact, Building, Dylib
<1>2. CASE Fail
  BY <1>1, <1>2, EndKeeps DEF Fail, Exit, Kept, TypeOK
<1>3. CASE proc' = [proc EXCEPT !.pc = "bin", !.tag = tag] /\ UNCHANGED <<dialect, compiles, disk, mod, worker>>
  <2>1. disk["model.mlir"] # None /\ disk["model.mlir"].gen \in Nat /\ proc \in Procs
    BY <1>1, IdleFacts DEF Kept, TypeOK, CommandOK, DiskOK, Dylib, Compile, AfterRead, Texts
  <2>2. meta \in Nat
    BY DEF Exists, Kept, TypeOK, DiskOK, Metas
  <2>3. Restored(meta) \in Nat
    BY <2>2 DEF Restored, Exists, Kept, TypeOK, DiskOK, Texts
  <2>4. tag \in Tags /\ tag.run = dylibs /\ tag.mlir = disk["model.mlir"].gen /\ tag.dialect = dialect
        /\ ~ tag.checked /\ tag.meta = meta /\ tag.consts = Restored(meta)
    BY <2>1, <2>2, <2>3 DEF Tags, Kept, TypeOK
  <2>5. OfOneCompile(tag)
    BY <2>1, <2>4 DEF OfOneCompile, Restored, Exists, Kept, FilesKept, TypeOK
  <2>. HIDE DEF tag, meta
  <2>6. proc' \in Procs /\ proc'.cmd = "dylib" /\ proc'.pc = "bin" /\ proc'.tag = tag
    BY <1>1, <1>3, <2>1, <2>4 DEF Procs, Dylib, AfterRead
  <2>. USE DEF Compile, Dylib, AfterRead, AfterBin
  <2>7. TypeOK'
    BY <1>1, <1>3, <2>4, <2>6 DEF Kept, TypeOK, DiskOK, CommandOK
  <2>8. RunKept'
    BY <1>1, <1>3, <2>4, <2>6 DEF Kept, RunKept, SymbolsMatchCode
  <2>9. FilesKept'
    BY <1>3, <2>6 DEF Kept, FilesKept
  <2>10. TagsKept'
    BY <1>1, <1>3, <2>1, <2>4, <2>5, <2>6 DEF Kept, TagsKept, Past, OfOneCompile, OneGeneration
  <2>11. StampKept'
    BY <1>3, <2>4, <2>6 DEF Kept, StampKept, Fresh, StaleIsRefused
  <2>. QED
    BY <2>7, <2>8, <2>9, <2>10, <2>11 DEF Kept
<1>. QED
  BY <1>2, <1>3 DEF ReadArtifact

(* compile_dylib replaces constants.bin. *)
LEMMA WriteConstantsBinKeeps ==
    ASSUME Kept, WriteConstantsBin
    PROVE  Kept'
<1>. DEFINE bin == [run |-> dylibs, mlir |-> proc.tag.mlir]
<1>1. Dylib({"bin"}) /\ Dylib(AfterRead) /\ UNCHANGED <<dialect, compiles, dylibs>>
  BY DEF WriteConstantsBin, Building, Dylib, AfterRead
<1>2. /\ proc.tag \in Tags /\ proc \in Procs /\ DOMAIN disk = Files /\ dylibs \in Nat
  BY <1>1, AtDylib DEF Kept, TypeOK
<1>3. proc'.cmd = "dylib" /\ proc'.pc = "fresh" /\ proc'.tag = proc.tag /\ proc' \in Procs
  BY <1>1, <1>2, GoFacts DEF WriteConstantsBin, AfterRead, Dylib
<1>4. bin \in Bins /\ bin.run = dylibs
  BY <1>2 DEF Bins, Tags
<1>5. disk' = [disk EXCEPT !["constants.bin"] = bin]
  BY DEF WriteConstantsBin, Write
<1>. HIDE DEF bin
<1>6. /\ DOMAIN disk' = Files /\ disk'["constants.bin"] = bin
      /\ \A g \in Files : g # "constants.bin" => disk'[g] = disk[g]
  BY <1>2, <1>5, WriteFacts DEF Files
<1>. USE DEF Compile, Dylib, AfterRead, AfterBin
<1>7. TypeOK'
  BY <1>1, <1>2, <1>3, <1>4, <1>6 DEF Kept, TypeOK, DiskOK, CommandOK, Files
<1>8. RunKept'
  BY <1>1, <1>3, <1>4, <1>6 DEF Kept, RunKept, SymbolsMatchCode, Files
<1>9. FilesKept'
  BY <1>1, <1>3, <1>6 DEF Kept, FilesKept, Files
<1>10. TagsKept'
  BY <1>1, <1>3, <1>6 DEF Kept, TagsKept, Past, OfOneCompile, OneGeneration, Files
<1>11. StampKept'
  BY <1>1, <1>3, <1>6 DEF Kept, StampKept, Fresh, StaleIsRefused, Files
<1>. QED
  BY <1>7, <1>8, <1>9, <1>10, <1>11 DEF Kept

(* compile_dylib compares the recorded dialect with its own. *)
LEMMA CheckFreshnessKeeps ==
    ASSUME Kept, CheckFreshness
    PROVE  Kept'
<1>1. /\ Dylib({"fresh"}) /\ Dylib(AfterRead) /\ Dylib(AfterBin)
      /\ dylibs' = dylibs /\ dylibs \in Nat
  BY DEF CheckFreshness, Building, Dylib, AfterRead, AfterBin, Kept, TypeOK
<1>2. PICK git \in BOOLEAN :
         \/ Fail
         \/ /\ ~ Stale(git)
            /\ proc' = [proc EXCEPT !.pc = "lower", !.tag.checked = git]
            /\ UNCHANGED <<dialect, compiles, disk>>
  BY DEF CheckFreshness
<1>3. CASE Fail
  BY <1>1, <1>3, EndKeeps DEF Fail, Exit
<1>4. CASE /\ ~ Stale(git)
           /\ proc' = [proc EXCEPT !.pc = "lower", !.tag.checked = git]
           /\ UNCHANGED <<dialect, compiles, disk>>
  <2>. DEFINE tag == [proc.tag EXCEPT !.checked = git]
  <2>1. /\ proc.tag \in Tags /\ proc \in Procs /\ Past(proc.tag)
        /\ compiles \in Seq(Runs) /\ Len(compiles) \in Nat
    BY <1>1, AtDylib
  <2>2. /\ tag \in Tags /\ tag.checked = git /\ tag.run = proc.tag.run /\ tag.mlir = proc.tag.mlir
        /\ tag.meta = proc.tag.meta /\ tag.consts = proc.tag.consts /\ tag.dialect = proc.tag.dialect
    BY <2>1 DEF Tags
  <2>3. proc' = [proc EXCEPT !.pc = "lower", !.tag = tag]
    BY <1>4
  <2>. HIDE DEF tag
  <2>4. proc' \in Procs /\ proc'.cmd = "dylib" /\ proc'.pc = "lower" /\ proc'.tag = tag
    BY <1>1, <2>1, <2>2, <2>3 DEF Procs, Dylib, AfterRead
  <2>5. Fresh(tag)
    <3>. SUFFICES ASSUME compiles[tag.mlir].done, compiles[tag.mlir].stamped, git
                  PROVE  tag.dialect = compiles[tag.mlir].dialect
      BY <2>2 DEF Fresh
    <3>1. disk["model.mlir"] # None /\ tag.mlir = disk["model.mlir"].gen /\ tag.dialect = dialect
      BY <1>1, <2>2 DEF Kept, TagsKept, StampKept
    <3>2. disk["metadata.json"] # None /\ disk["metadata.json"].hash = compiles[tag.mlir].dialect
      BY <3>1 DEF Kept, FilesKept, StampKept
    <3>3. compiles[tag.mlir].dialect # "none"
      <4>1. compiles[tag.mlir] \in Runs
        BY <2>1, <2>2 DEF Past
      <4>. QED
        BY <4>1, BuildAssumption DEF Runs
    <3>. QED
      BY <1>4, <3>1, <3>2, <3>3 DEF Stale, Exists
  <2>. USE DEF Compile, Dylib, AfterRead, AfterBin
  <2>6. TypeOK'
    BY <1>1, <1>4, <2>2, <2>4 DEF Kept, TypeOK, DiskOK, CommandOK
  <2>7. RunKept'
    BY <1>1, <1>4, <2>2, <2>4 DEF Kept, RunKept, SymbolsMatchCode
  <2>8. FilesKept'
    BY <1>4, <2>4 DEF Kept, FilesKept
  <2>9. TagsKept'
    BY <1>1, <1>4, <2>2, <2>4 DEF Kept, TagsKept, Past, OfOneCompile, OneGeneration
  <2>10. StampKept'
    BY <1>1, <1>4, <2>2, <2>4, <2>5 DEF Kept, StampKept, Fresh, StaleIsRefused
  <2>. QED
    BY <2>6, <2>7, <2>8, <2>9, <2>10 DEF Kept
<1>. QED
  BY <1>2, <1>3, <1>4

(* Lowering and the stages touch no file. *)
LEMMA SfLoweringKeeps ==
    ASSUME Kept, SfLowering
    PROVE  Kept'
<1>1. Dylib(AfterBin) /\ proc \in Procs /\ proc.cmd = "dylib" /\ dylibs' = dylibs /\ dylibs \in Nat
  BY DEF SfLowering, Building, Dylib, AfterRead, AfterBin, Kept, TypeOK
<1>2. CASE Fail
  BY <1>1, <1>2, EndKeeps DEF Fail, Exit
<1>3. CASE proc' = [proc EXCEPT !.pc = "stage", !.stage = 1] /\ UNCHANGED <<dialect, compiles, disk>>
  <2>1. proc' \in Procs /\ proc'.cmd = "dylib" /\ proc'.pc = "stage" /\ proc'.tag = proc.tag
    BY <1>1, <1>3 DEF Procs, AfterRead
  <2>2. proc'.pc \in AfterBin
    BY <2>1 DEF AfterBin, AfterRead
  <2>. QED
    BY <1>1, <1>3, <2>1, <2>2, MoveKeeps
<1>. QED
  BY <1>2, <1>3 DEF SfLowering

(* The result of a stage, a failure of one that may only warn included. *)
LEMMA StageResultKeeps ==
    ASSUME Kept, Dylib({"stage", "wait", "join"}), NEW success \in BOOLEAN, StageResult(success),
           UNCHANGED <<dialect, compiles, disk, dylibs>>
    PROVE  Kept'
<1>1. Dylib(AfterBin) /\ proc \in Procs /\ proc.cmd = "dylib" /\ dylibs \in Nat
  BY DEF Dylib, AfterRead, AfterBin, Kept, TypeOK
<1>2. CASE proc' = Idle
  BY <1>1, <1>2, EndKeeps
<1>3. CASE proc' = [proc EXCEPT !.stage = @ + 1,
                                !.pc = IF proc.stage = Len(STAGES) THEN "link" ELSE "stage"]
  <2>. DEFINE pc == IF proc.stage = Len(STAGES) THEN "link" ELSE "stage"
  <2>1. pc \in AfterBin /\ pc \in AfterRead /\ pc \notin {"embed", "relink"}
    BY DEF AfterBin, AfterRead
  <2>a. proc' = [proc EXCEPT !.stage = proc.stage + 1, !.pc = pc]
    BY <1>3
  <2>b. proc.stage + 1 \in Nat
    <3>1. proc.stage \in Nat
      BY <1>1 DEF Procs
    <3>. QED
      BY <3>1
  <2>. HIDE DEF pc
  <2>2. proc' \in Procs /\ proc'.cmd = "dylib" /\ proc'.pc = pc /\ proc'.tag = proc.tag
    BY <1>1, <2>1, <2>a, <2>b DEF Procs
  <2>. QED
    BY <1>1, <2>1, <2>2, MoveKeeps
<1>. QED
  BY <1>2, <1>3 DEF StageResult

(* The steps of the stage pipeline and of its worker touch no file. *)
LEMMA StagesKeep ==
    ASSUME Kept,
           RunAction \/ SubmitPass \/ PassEnds \/ FutureResult \/ FutureTimeout \/ LeavePool
    PROVE  Kept'
<1>1. proc \in Procs /\ UNCHANGED <<dialect, compiles, disk, dylibs>>
  BY DEF Kept, TypeOK, RunAction, SubmitPass, PassEnds, FutureResult, FutureTimeout, LeavePool, LeaveStage
<1>2. CASE RunAction
  BY <1>1, <1>2, StageResultKeeps DEF RunAction, Building, Dylib
<1>3. CASE SubmitPass \/ FutureTimeout
  <2>1. PICK pc \in {"wait", "join"} : Go(pc)
    BY <1>3 DEF SubmitPass, FutureTimeout
  <2>2. Dylib(AfterBin) /\ pc \in AfterBin /\ pc \in AfterRead /\ pc \notin {"embed", "relink"}
    BY <1>3 DEF SubmitPass, FutureTimeout, Building, Dylib, AfterBin, AfterRead
  <2>3. proc' \in Procs /\ proc'.cmd = proc.cmd /\ proc'.pc = pc /\ proc'.tag = proc.tag
    BY <1>1, <2>1, <2>2, GoFacts
  <2>4. proc'.cmd = "dylib"
    BY <2>2, <2>3 DEF Dylib
  <2>. QED
    BY <1>1, <2>2, <2>3, <2>4, MoveKeeps
<1>4. CASE FutureResult
  BY <1>1, <1>4, StageResultKeeps DEF FutureResult, LeaveStage, Building, Dylib
<1>5. CASE LeavePool
  BY <1>1, <1>5, StageResultKeeps DEF LeavePool, LeaveStage, Building, Dylib
<1>6. CASE PassEnds
  BY <1>6, StillKeeps DEF PassEnds
<1>. QED
  BY <1>2, <1>3, <1>4, <1>5, <1>6

(* The linker takes the module's code to model.ll and, when it gets that   *)
(* far, a library without symbols.                                         *)
LEMMA LinkKeeps ==
    ASSUME Kept, Link
    PROVE  Kept'
<1>. DEFINE lib == [code |-> proc.tag, abi |-> None, bin |-> disk["constants.bin"]]
<1>1. Dylib({"link"}) /\ Dylib(AfterRead) /\ Dylib(AfterBin) /\ UNCHANGED <<dialect, compiles, dylibs>>
  BY DEF Link, Building, Dylib, AfterRead, AfterBin, Exit
<1>2. /\ proc.tag \in Tags /\ proc.tag # None /\ proc \in Procs /\ Past(proc.tag) /\ DOMAIN disk = Files
      /\ disk["constants.bin"] \in Bins /\ dylibs \in Nat
  BY <1>1, AtDylib DEF Kept, TypeOK
<1>3. lib \in Libs /\ lib.code = proc.tag /\ lib.abi = None
  BY <1>2 DEF Libs
<1>4. /\ \/ disk' = disk
         \/ disk' = [disk EXCEPT !["model.ll"] = proc.tag]
         \/ disk' = [disk EXCEPT !["model.ll"] = proc.tag, !["dylib"] = lib]
      /\ \/ proc' = Idle
         \/ Go("embed") /\ disk' = [disk EXCEPT !["model.ll"] = proc.tag, !["dylib"] = lib]
  BY DEF Link, LinkOutcomes, Exit
<1>. HIDE DEF lib
<1>5. /\ DOMAIN disk' = Files
      /\ disk'["dylib"] \in {disk["dylib"], lib}
      /\ disk'["model.ll"] \in {disk["model.ll"], proc.tag}
      /\ disk'["model.mlir"] = disk["model.mlir"]
      /\ disk'["metadata.json"] = disk["metadata.json"]
      /\ disk'["constants.pth"] = disk["constants.pth"]
      /\ disk'["constants.bin"] = disk["constants.bin"]
  BY <1>2, <1>4 DEF Files
<1>6. /\ proc' \in Procs
      /\ \/ proc'.cmd = "idle" /\ proc' = Idle
         \/ /\ proc'.cmd = "dylib" /\ proc'.pc = "embed" /\ proc'.tag = proc.tag
            /\ disk'["model.ll"] = proc.tag
  <2>1. CASE proc' = Idle
    BY <2>1, IdleFacts
  <2>2. CASE Go("embed") /\ disk' = [disk EXCEPT !["model.ll"] = proc.tag, !["dylib"] = lib]
    <3>1. disk'["model.ll"] = proc.tag
      BY <1>2, <2>2 DEF Files
    <3>. QED
      BY <1>1, <1>2, <2>2, <3>1, GoFacts DEF AfterRead, Dylib
  <2>. QED
    BY <1>4, <2>1, <2>2
<1>. USE DEF Compile, Dylib, AfterRead, AfterBin
<1>7. TypeOK'
  <2>1. DiskOK'
    BY <1>2, <1>3, <1>5 DEF Kept, TypeOK, DiskOK
  <2>. QED
    BY <1>1, <1>2, <1>5, <1>6, <2>1 DEF Kept, TypeOK, CommandOK
<1>8. RunKept'
  BY <1>1, <1>3, <1>5, <1>6 DEF Kept, RunKept, SymbolsMatchCode
<1>9. FilesKept'
  BY <1>1, <1>5, <1>6 DEF Kept, FilesKept
<1>10. TagsKept'
  <2>1. (OneGeneration)'
    BY <1>1, <1>3, <1>5 DEF Kept, TagsKept, OneGeneration
  <2>. QED
    BY <1>1, <1>2, <1>3, <1>5, <1>6, <2>1 DEF Kept, TagsKept, Past, OfOneCompile
<1>11. StampKept'
  BY <1>1, <1>3, <1>5, <1>6 DEF Kept, StampKept, Fresh, StaleIsRefused
<1>. QED
  BY <1>7, <1>8, <1>9, <1>10, <1>11 DEF Kept

(* compile_dylib writes the symbols of the library. *)
LEMMA EmbedKeeps ==
    ASSUME Kept, Embed
    PROVE  Kept'
<1>1. Dylib({"embed"}) /\ Dylib(AfterBin) /\ proc \in Procs /\ proc.cmd = "dylib" /\ dylibs' = dylibs
      /\ dylibs \in Nat
  BY DEF Embed, Building, Dylib, AfterRead, AfterBin, Kept, TypeOK
<1>2. CASE Fail
  BY <1>1, <1>2, EndKeeps DEF Fail, Exit
<1>3. CASE Go("relink") /\ UNCHANGED <<dialect, compiles, disk, dylibs, mod, worker>>
  <2>1. proc' \in Procs /\ proc'.cmd = "dylib" /\ proc'.pc = "relink" /\ proc'.tag = proc.tag
    BY <1>1, <1>3, GoFacts DEF AfterRead
  <2>2. proc'.pc \in AfterBin /\ proc.pc \in {"embed", "relink"}
    BY <1>1, <2>1 DEF AfterBin, AfterRead, Dylib
  <2>. QED
    BY <1>1, <1>3, <2>1, <2>2, MoveKeeps
<1>. QED
  BY <1>2, <1>3 DEF Embed

(* The second link takes its code from the model.ll of this run. *)
LEMMA RelinkKeeps ==
    ASSUME Kept, Relink
    PROVE  Kept'
<1>. DEFINE lib == [code |-> disk["model.ll"], bin |-> disk["constants.bin"], abi |-> proc.tag]
<1>1. Dylib({"relink"}) /\ Dylib(AfterRead) /\ Dylib(AfterBin) /\ Dylib({"embed", "relink"})
      /\ UNCHANGED <<dialect, compiles, dylibs>> /\ proc' = Idle
  BY DEF Relink, Building, Dylib, AfterRead, AfterBin, Exit, Fail
<1>2. /\ proc.tag \in Tags /\ proc.tag # None /\ Past(proc.tag) /\ DOMAIN disk = Files
      /\ disk["constants.bin"] \in Bins /\ dylibs \in Nat /\ disk["model.ll"] = proc.tag
  BY <1>1, AtDylib DEF Kept, TypeOK
<1>3. CASE UNCHANGED disk
  BY <1>1, <1>2, <1>3, EndKeeps
<1>4. CASE disk' = [disk EXCEPT !["dylib"] = lib]
  <2>1. lib \in Libs /\ lib.code = proc.tag /\ lib.abi = proc.tag /\ lib.bin = disk["constants.bin"]
    BY <1>2 DEF Libs
  <2>. HIDE DEF lib
  <2>2. /\ DOMAIN disk' = Files /\ disk'["dylib"] = lib
        /\ \A g \in Files : g # "dylib" => disk'[g] = disk[g]
    BY <1>2, <1>4, WriteFacts DEF Files
  <2>3. proc' \in Procs /\ proc'.cmd = "idle"
    BY <1>1, IdleFacts
  <2>. USE DEF Compile, Dylib
  <2>4. TypeOK'
    BY <1>1, <1>2, <2>1, <2>2, <2>3 DEF Kept, TypeOK, DiskOK, CommandOK, Files
  <2>5. RunKept'
    BY <1>1, <2>1, <2>2, <2>3 DEF Kept, RunKept, SymbolsMatchCode
  <2>6. FilesKept'
    BY <1>1, <2>2, <2>3 DEF Kept, FilesKept, Files
  <2>7. TagsKept'
    BY <1>1, <1>2, <2>1, <2>2, <2>3 DEF Kept, TagsKept, Past, OfOneCompile, OneGeneration, Files
  <2>8. StampKept'
    BY <1>1, <2>1, <2>2, <2>3 DEF Kept, StampKept, Fresh, StaleIsRefused, Files
  <2>. QED
    BY <2>4, <2>5, <2>6, <2>7, <2>8 DEF Kept
<1>. QED
  BY <1>3, <1>4 DEF Relink, Fail, Write

-----------------------------------------------------------------------------
(* A kill leaves at worst the file being written in part, and never makes  *)
(* a compile look finished.                                                *)
LEMMA KillKeeps ==
    ASSUME Kept, Kill
    PROVE  Kept'
<1>1. proc' = Idle /\ proc # Idle /\ UNCHANGED <<dialect, compiles, dylibs>> /\ dylibs \in Nat
  BY DEF Kill, Kept, TypeOK
<1>2. proc' \in Procs /\ proc'.cmd = "idle"
  BY <1>1, IdleFacts
<1>3. CASE UNCHANGED disk
  BY <1>1, <1>3, EndKeeps
<1>4. ASSUME NEW f \in {"model.mlir", "constants.pth", "constants.bin", "metadata.json", "dylib"}, NEW content,
             disk' = [disk EXCEPT ![f] = content],
             f = "model.mlir" => content \in Texts /\ content.gen = proc.n,
             f = "constants.pth" => content \in Texts,
             f = "metadata.json" => content \in Metas,
             f = "dylib" => content = None,
             f = "constants.bin" => content \in Bins,
             f \notin {"constants.bin", "dylib"} => proc.cmd = "compile",
             f = "constants.pth" => proc.pc = "pth",
             f = "metadata.json" => proc.pc \in {"meta", "hook"}
      PROVE  Kept'
  <2>1. DOMAIN disk = Files /\ compiles \in Seq(Runs)
    BY DEF Kept, TypeOK, DiskOK
  <2>2. /\ DOMAIN disk' = Files /\ disk'[f] = content
        /\ \A g \in Files : g # f => disk'[g] = disk[g]
    BY <1>4, <2>1, WriteFacts DEF Files
  <2>3. f \notin {"constants.bin", "dylib"} =>
                       /\ proc.n = Len(compiles) /\ Len(compiles) \in 1 .. Len(compiles)
                       /\ ~ compiles[Len(compiles)].done
    BY <1>4, AtCompile DEF Kept, FilesKept
  <2>4. f \in {"constants.pth", "metadata.json"} =>
           disk["model.mlir"] # None /\ disk["model.mlir"].gen = Len(compiles)
    BY <1>4 DEF Kept, FilesKept, Compile
  <2>. USE DEF Compile, Dylib
  <2>5. TypeOK'
    BY <1>1, <1>2, <1>4, <2>2 DEF Kept, TypeOK, DiskOK, CommandOK, Files
  <2>6. RunKept'
    BY <1>2, <1>4, <2>2 DEF Kept, RunKept, SymbolsMatchCode, Files
  <2>7. FilesKept'
    BY <1>1, <1>2, <1>4, <2>2, <2>3, <2>4 DEF Kept, FilesKept, Files
  <2>8. TagsKept'
    BY <1>1, <1>2, <1>4, <2>2 DEF Kept, TagsKept, Past, OneGeneration, Files
  <2>9. StampKept'
    BY <1>1, <1>2, <1>4, <2>2, <2>3, <2>4 DEF Kept, StampKept, StaleIsRefused, Files
  <2>. QED
    BY <2>5, <2>6, <2>7, <2>8, <2>9 DEF Kept
<1>5. CASE Compiling("mlir") /\ Partial("model.mlir", [gen |-> proc.n, whole |-> FALSE])
  <2>1. [gen |-> proc.n, whole |-> FALSE] \in Texts /\ [gen |-> proc.n, whole |-> FALSE].gen = proc.n
    BY DEF Kept, TypeOK, Procs, Texts
  <2>. QED
    BY <1>3, <1>4, <1>5, <2>1 DEF Compiling, Partial
<1>6. CASE Compiling("pth") /\ Partial("constants.pth", [gen |-> proc.n, whole |-> FALSE])
  <2>1. [gen |-> proc.n, whole |-> FALSE] \in Texts
    BY DEF Kept, TypeOK, Procs, Texts
  <2>. QED
    BY <1>3, <1>4, <1>6, <2>1 DEF Compiling, Partial
<1>7. CASE /\ Compiling("meta") \/ Compiling("hook")
           /\ Partial("metadata.json", [gen |-> proc.n, whole |-> FALSE, hash |-> "none"])
  <2>1. [gen |-> proc.n, whole |-> FALSE, hash |-> "none"] \in Metas
    BY DEF Kept, TypeOK, Procs, Metas
  <2>. QED
    BY <1>3, <1>4, <1>7, <2>1 DEF Compiling, Partial
<1>8. CASE Partial("dylib", None)
  BY <1>3, <1>4, <1>8 DEF Partial
<1>9. CASE Partial("constants.bin", [run |-> 0, mlir |-> 0])
  <2>1. [run |-> 0, mlir |-> 0] \in Bins
    BY DEF Bins
  <2>. QED
    BY <1>3, <1>4, <1>9, <2>1 DEF Partial
<1>. QED
  BY <1>3, <1>5, <1>6, <1>7, <1>8, <1>9 DEF Kill

(* A commit to the dialect, at any time. *)
LEMMA CommitDialectKeeps ==
    ASSUME Kept, CommitDialect
    PROVE  Kept'
<1>1. proc = Idle /\ dialect' \in Dialects /\ UNCHANGED <<compiles, disk, dylibs, proc>>
  BY DEF CommitDialect
<1>2. proc.cmd = "idle" /\ proc'.cmd = "idle"
  BY <1>1, IdleFacts
<1>. USE DEF Compile, Dylib
<1>3. TypeOK'
  BY <1>1, <1>2 DEF Kept, TypeOK, DiskOK, CommandOK
<1>4. RunKept'
  BY <1>1, <1>2 DEF Kept, RunKept, SymbolsMatchCode
<1>5. FilesKept'
  BY <1>1, <1>2 DEF Kept, FilesKept
<1>6. TagsKept'
  BY <1>1, <1>2 DEF Kept, TagsKept, Past, OneGeneration
<1>7. StampKept'
  BY <1>1, <1>2 DEF Kept, StampKept, StaleIsRefused
<1>. QED
  BY <1>3, <1>4, <1>5, <1>6, <1>7 DEF Kept

(* What the directory and the running command promise is kept by every step. *)
LEMMA KeptNext == Kept /\ [Next]_vars => Kept'
<1>. SUFFICES ASSUME Kept, [Next]_vars PROVE Kept'
  OBVIOUS
<1>1. CASE /\ \/ StartCompile \/ CompileMlir \/ SaveText \/ SaveConstants \/ SaveBin
              \/ SaveMetadata \/ RwkvPostHook
           /\ UNCHANGED dylibs
  BY <1>1, StartCompileKeeps, CompileMlirKeeps, SaveTextKeeps, SaveConstantsKeeps, SaveBinKeeps,
     SaveMetadataKeeps, RwkvPostHookKeeps
<1>2. CASE StartDylib \/ ReadArtifact \/ WriteConstantsBin \/ CheckFreshness \/ SfLowering
  BY <1>2, StartDylibKeeps, ReadArtifactKeeps, WriteConstantsBinKeeps, CheckFreshnessKeeps, SfLoweringKeeps
<1>3. CASE RunAction \/ SubmitPass \/ PassEnds \/ FutureResult \/ FutureTimeout \/ LeavePool
  BY <1>3, StagesKeep
<1>4. CASE Link \/ Embed \/ Relink \/ Kill \/ CommitDialect
  BY <1>4, LinkKeeps, EmbedKeeps, RelinkKeeps, KillKeeps, CommitDialectKeeps
<1>5. CASE UNCHANGED vars
  BY <1>5, StillKeeps DEF vars
<1>. QED
  BY <1>1, <1>2, <1>3, <1>4, <1>5 DEF Next

-----------------------------------------------------------------------------
(* The stages. *)

(* The last stage only warns; the passes that run in a thread never do. *)
LEMMA StageFacts ==
    /\ Len(STAGES) = 13 /\ DOMAIN STAGES = 1 .. 13
    /\ \A k \in DOMAIN STAGES : STAGES[k].warn_only => STAGES[k].action
  BY DEF STAGES, Pass, Action

ModFields == {"orig", "body", "applied", "torn"}
StagePcs == {"stage", "wait", "join", "link"}

(* Outside the stages there is no thread and nothing to say of the module. *)
LEMMA OutsideStages ==
    ASSUME worker' = "none", DOMAIN mod' = ModFields, ~ Dylib(StagePcs)'
    PROVE  StagesKept'
  BY DEF StagesKept, Dylib, StagePcs, ModFields

(* A command that is not waiting for a pass has no thread. *)
LEMMA NoThread ==
    ASSUME StagesKept, ~ Dylib({"wait", "join"})
    PROVE  worker = "none" /\ DOMAIN mod = ModFields
  BY DEF StagesKept, Dylib, ModFields

(* Nothing is applied to a module that is not there. *)
LEMMA NoModuleFacts == DOMAIN NoModule = ModFields /\ NoModule.applied = {} /\ ~ NoModule.torn
  BY DEF NoModule, ModFields

(* No stage runs during the steps of compile. *)
LEMMA CompileOutside ==
    ASSUME TypeOK, StagesKept,
           \/ StartCompile \/ CompileMlir \/ SaveText \/ SaveConstants \/ SaveBin
           \/ SaveMetadata \/ RwkvPostHook
    PROVE  StagesKept' /\ ~ Dylib(StagePcs)'
<1>1. ~ Dylib({"wait", "join"})
  BY IdleFacts DEF StartCompile, CompileMlir, SaveText, SaveConstants, SaveBin, SaveMetadata, RwkvPostHook,
     Compiling, Dylib
<1>2. worker = "none" /\ DOMAIN mod = ModFields
  BY <1>1, NoThread
<1>3. worker' = "none" /\ DOMAIN mod' = ModFields
  BY <1>2, NoModuleFacts DEF StartCompile, CompileMlir, SaveText, SaveConstants, SaveBin, SaveMetadata,
     RwkvPostHook, Fail, Exit
<1>4. proc'.cmd # "dylib"
  <2>1. proc \in Procs
    BY DEF TypeOK
  <2>2. CASE StartCompile
    <3>1. proc' = [Idle EXCEPT !.cmd = "compile", !.pc = "passes", !.n = Len(compiles) + 1]
      BY <2>2 DEF StartCompile
    <3>. QED
      BY <3>1 DEF Idle
  <2>3. ASSUME proc.cmd = "compile", NEW pc \in InCompile, Go(pc) PROVE proc'.cmd # "dylib"
    BY <2>1, <2>3, GoFacts
  <2>4. CASE proc' = Idle
    BY <2>4, IdleFacts
  <2>. QED
    BY <2>2, <2>3, <2>4 DEF CompileMlir, SaveText, SaveConstants, SaveBin, SaveMetadata, RwkvPostHook,
       Compiling, Fail, Exit, InCompile
<1>5. ~ Dylib(StagePcs)'
  BY <1>4 DEF Dylib
<1>. QED
  BY <1>3, <1>5, OutsideStages

(* No stage runs during the other steps of compile_dylib, nor after a kill. *)
LEMMA DylibOutside ==
    ASSUME TypeOK, StagesKept,
           \/ StartDylib \/ ReadArtifact \/ WriteConstantsBin \/ CheckFreshness
           \/ Link \/ Embed \/ Relink \/ Kill \/ CommitDialect
    PROVE  StagesKept' /\ ~ Dylib(StagePcs)'
<1>0. proc \in Procs
  BY DEF TypeOK
<1>1. ~ Kill => ~ Dylib({"wait", "join"})
  BY IdleFacts DEF StartDylib, ReadArtifact, WriteConstantsBin, CheckFreshness, Link, Embed, Relink,
     CommitDialect, Building, Dylib
<1>2. ~ Kill => worker = "none" /\ DOMAIN mod = ModFields
  BY <1>1, NoThread
<1>3. worker' = "none" /\ DOMAIN mod' = ModFields
  BY <1>2, NoModuleFacts DEF StartDylib, ReadArtifact, WriteConstantsBin, CheckFreshness, Link, Embed, Relink,
     Kill, CommitDialect, Fail, Exit
<1>4. ~ Dylib(StagePcs)'
  <2>1. CASE proc' = Idle
    BY <2>1, IdleFacts DEF Dylib
  <2>2. ASSUME NEW pc \in {"fresh", "embed", "relink"}, Go(pc) PROVE proc'.pc = pc
    BY <1>0, <2>2, GoFacts DEF AfterRead
  <2>3. CASE StartDylib
    BY <2>1, <2>3 DEF StartDylib, Idle, Dylib, StagePcs
  <2>4. CASE ReadArtifact
    <3>1. CASE proc'.pc = "bin"
      BY <3>1 DEF Dylib, StagePcs
    <3>2. proc' = Idle \/ \E tag : proc' = [proc EXCEPT !.pc = "bin", !.tag = tag]
      BY <2>4 DEF ReadArtifact, Fail, Exit
    <3>. QED
      BY <1>0, <2>1, <3>1, <3>2 DEF Procs
  <2>5. CASE CheckFreshness
    <3>1. CASE proc'.pc = "lower"
      BY <3>1 DEF Dylib, StagePcs
    <3>2. proc' = Idle \/ \E git \in BOOLEAN : proc' = [proc EXCEPT !.pc = "lower", !.tag.checked = git]
      BY <2>5 DEF CheckFreshness, Fail, Exit
    <3>. QED
      BY <1>0, <2>1, <3>1, <3>2 DEF Procs
  <2>6. CASE WriteConstantsBin \/ Link \/ Embed \/ Relink
    BY <2>1, <2>2, <2>6 DEF WriteConstantsBin, Link, Embed, Relink, Fail, Exit, Dylib, StagePcs
  <2>7. CASE Kill
    BY <2>1, <2>7 DEF Kill
  <2>8. CASE CommitDialect
    BY <2>8, IdleFacts DEF CommitDialect, Dylib
  <2>. QED
    BY <2>3, <2>4, <2>5, <2>6, <2>7, <2>8
<1>. QED
  BY <1>3, <1>4, OutsideStages

(* The pipeline starts with a module to which nothing was applied. *)
LEMMA SfLoweringStages ==
    ASSUME TypeOK, StagesKept, SfLowering
    PROVE  StagesKept'
<1>0. proc \in Procs /\ proc.cmd = "dylib" /\ proc.pc = "lower"
  BY DEF TypeOK, SfLowering, Building
<1>1. worker = "none"
  BY <1>0, NoThread DEF Dylib
<1>2. CASE Fail
  <2>1. proc' = Idle /\ mod' = NoModule /\ worker' = "none"
    BY <1>1, <1>2 DEF Fail, Exit
  <2>. QED
    BY <2>1, IdleFacts, NoModuleFacts, OutsideStages DEF Dylib
<1>3. ASSUME NEW f, mod' = [NoModule EXCEPT !.orig = f, !.body = f],
             proc' = [proc EXCEPT !.pc = "stage", !.stage = 1], worker' = worker
      PROVE  StagesKept'
  <2>1. proc'.cmd = "dylib" /\ proc'.pc = "stage" /\ proc'.stage = 1
    BY <1>0, <1>3 DEF Procs
  <2>2. DOMAIN mod' = {"orig", "body", "applied", "torn"} /\ ~ mod'.torn
    BY <1>3 DEF NoModule
  <2>3. worker' = "none"
    BY <1>1, <1>3
  <2>. QED
    BY <2>1, <2>2, <2>3, StageFacts DEF StagesKept, Dylib
<1>. QED
  BY <1>2, <1>3 DEF SfLowering

(* Applying a stage marks it; what was applied before stays applied. *)
LEMMA AppliedFacts ==
    ASSUME DOMAIN mod = ModFields, NEW k, mod' = Applied(k)
    PROVE  DOMAIN mod' = ModFields /\ mod'.applied = mod.applied \cup {k} /\ ~ mod'.torn
  BY DEF Applied, ModFields

(* The stage that ended is behind: it was applied or it only warns. *)
LEMMA NextStage ==
    ASSUME TypeOK, StagesKept, Dylib({"stage", "wait", "join"}), NEW success \in BOOLEAN,
           StageResult(success), worker' = "none", DOMAIN mod' = ModFields,
           proc' # Idle => /\ mod.applied \subseteq mod'.applied /\ ~ mod'.torn
                           /\ proc.stage \in mod'.applied \/ Stage.warn_only
    PROVE  StagesKept'
<1>1. proc \in Procs /\ proc.stage \in DOMAIN STAGES /\ proc.cmd = "dylib"
  BY DEF TypeOK, StagesKept, Dylib
<1>2. CASE proc' = Idle
  BY <1>2, IdleFacts, OutsideStages DEF Dylib
<1>3. CASE proc' # Idle
  <2>. DEFINE pc == IF proc.stage = Len(STAGES) THEN "link" ELSE "stage"
  <2>1. proc' = [proc EXCEPT !.stage = proc.stage + 1, !.pc = pc]
    BY <1>3 DEF StageResult
  <2>2. proc'.cmd = "dylib" /\ proc'.pc = pc /\ proc'.stage = proc.stage + 1
    BY <1>1, <2>1 DEF Procs
  <2>3. ASSUME NEW k \in DOMAIN STAGES, k < proc.stage + 1, ~ STAGES[k].warn_only
        PROVE  k \in mod'.applied
    <3>1. CASE k = proc.stage
      BY <1>3, <2>3, <3>1 DEF Stage
    <3>2. CASE k < proc.stage
      <4>1. k \in mod.applied
        BY <2>3, <3>2 DEF StagesKept
      <4>. QED
        BY <1>3, <4>1
    <3>. QED
      BY <1>1, <2>3, <3>1, <3>2, StageFacts
  <2>4. CASE proc.stage = Len(STAGES)
    <3>1. proc'.pc = "link"
      BY <2>2, <2>4
    <3>2. \A k \in DOMAIN STAGES : ~ STAGES[k].warn_only => k \in mod'.applied
      BY <2>3, <2>4, StageFacts
    <3>. QED
      BY <1>3, <2>2, <3>1, <3>2 DEF StagesKept, Dylib, ModFields
  <2>5. CASE proc.stage # Len(STAGES)
    <3>1. proc'.pc = "stage"
      BY <2>2, <2>5
    <3>2. proc.stage + 1 \in DOMAIN STAGES
      BY <1>1, <2>5, StageFacts
    <3>. QED
      BY <1>3, <2>2, <2>3, <3>1, <3>2 DEF StagesKept, Dylib, ModFields
  <2>. QED
    BY <2>4, <2>5
<1>. QED
  BY <1>2, <1>3

(* A stage that is a Python action. *)
LEMMA RunActionStages ==
    ASSUME TypeOK, StagesKept, RunAction
    PROVE  StagesKept'
<1>1. Dylib({"stage"}) /\ Dylib({"stage", "wait", "join"}) /\ ~ Dylib({"wait", "join"}) /\ worker' = worker
  BY DEF RunAction, Building, Dylib
<1>2. worker' = "none" /\ DOMAIN mod = ModFields /\ ~ mod.torn
  BY <1>1, NoThread DEF StagesKept
<1>3. CASE mod' = Applied(proc.stage) /\ StageResult(TRUE)
  <2>1. DOMAIN mod' = ModFields /\ mod'.applied = mod.applied \cup {proc.stage} /\ ~ mod'.torn
    BY <1>2, <1>3, AppliedFacts
  <2>. QED
    BY <1>1, <1>2, <1>3, <2>1, NextStage
<1>4. CASE StageResult(FALSE) /\ mod' = IF proc'.cmd = "idle" THEN NoModule ELSE mod
  <2>1. DOMAIN mod' = ModFields
    BY <1>2, <1>4, NoModuleFacts
  <2>2. proc' # Idle => Stage.warn_only /\ proc'.cmd = "dylib"
    <3>1. proc \in Procs /\ proc.cmd = "dylib"
      BY <1>1 DEF TypeOK, Dylib
    <3>. QED
      BY <1>4, <3>1 DEF StageResult, Procs
  <2>3. proc' # Idle => mod' = mod
    BY <1>4, <2>2
  <2>. QED
    BY <1>1, <1>2, <1>4, <2>1, <2>2, <2>3, NextStage
<1>. QED
  BY <1>3, <1>4 DEF RunAction

(* A stage is given to the worker. *)
LEMMA SubmitPassStages ==
    ASSUME TypeOK, StagesKept, SubmitPass
    PROVE  StagesKept'
<1>1. proc \in Procs /\ proc.cmd = "dylib" /\ proc.pc = "stage" /\ ~ STAGES[proc.stage].action
  BY DEF SubmitPass, Building, TypeOK, Stage
<1>2. proc'.cmd = "dylib" /\ proc'.pc = "wait" /\ proc'.stage = proc.stage
  BY <1>1, GoFacts DEF SubmitPass, AfterRead
<1>3. DOMAIN mod' = {"orig", "body", "applied", "torn"} /\ mod'.applied = mod.applied /\ worker' = "running"
  BY DEF SubmitPass, StagesKept
<1>. QED
  BY <1>1, <1>2, <1>3 DEF StagesKept, Dylib

(* The worker ends its pass, in time or late. *)
LEMMA PassEndsStages ==
    ASSUME TypeOK, StagesKept, PassEnds
    PROVE  StagesKept'
<1>1. proc' = proc /\ Dylib({"wait", "join"}) /\ DOMAIN mod = ModFields
  BY DEF PassEnds, StagesKept, ModFields
<1>2. CASE worker' = "done" /\ mod' = Applied(proc.stage)
  <2>1. DOMAIN mod' = ModFields /\ mod'.applied = mod.applied \cup {proc.stage} /\ ~ mod'.torn
    BY <1>1, <1>2, AppliedFacts
  <2>. QED
    BY <1>1, <1>2, <2>1 DEF StagesKept, Dylib, ModFields
<1>3. CASE worker' = "failed" /\ UNCHANGED mod
  BY <1>1, <1>3 DEF StagesKept, Dylib
<1>. QED
  BY <1>2, <1>3 DEF PassEnds

(* A pass that failed, or that timed out, ends the command: its stage is   *)
(* not one that only warns.                                                *)
LEMMA LeaveStageStages ==
    ASSUME TypeOK, StagesKept, Dylib({"wait", "join"}), NEW success \in BOOLEAN, LeaveStage(success),
           success => worker = "done"
    PROVE  StagesKept'
<1>1. /\ Dylib({"stage", "wait", "join"}) /\ DOMAIN mod = ModFields /\ proc \in Procs /\ proc.cmd = "dylib"
      /\ ~ Stage.warn_only
  BY StageFacts DEF StagesKept, Dylib, ModFields, TypeOK, Stage
<1>2. StageResult(success) /\ worker' = "none" /\ mod' = IF proc'.cmd = "idle" THEN NoModule ELSE mod
  BY DEF LeaveStage
<1>3. DOMAIN mod' = ModFields
  BY <1>1, <1>2, NoModuleFacts
<1>4. proc' # Idle => success /\ proc'.cmd = "dylib"
  BY <1>1, <1>2 DEF StageResult, Procs
<1>5. proc' # Idle => mod' = mod /\ ~ mod.torn /\ proc.stage \in mod.applied
  BY <1>2, <1>4 DEF StagesKept
<1>. QED
  BY <1>1, <1>2, <1>3, <1>5, NextStage

(* A pass takes too long; the pipeline still has to leave the pool. *)
LEMMA FutureTimeoutStages ==
    ASSUME TypeOK, StagesKept, FutureTimeout
    PROVE  StagesKept'
<1>1. proc \in Procs /\ proc.cmd = "dylib" /\ proc.pc = "wait" /\ UNCHANGED <<mod, worker>>
  BY DEF FutureTimeout, Building, TypeOK
<1>2. proc'.cmd = "dylib" /\ proc'.pc = "join" /\ proc'.stage = proc.stage
  BY <1>1, GoFacts DEF FutureTimeout, AfterRead
<1>. QED
  BY <1>1, <1>2 DEF StagesKept, Dylib

(* Every step keeps what is known of the stages. *)
LEMMA StagesNext == TypeOK /\ StagesKept /\ [Next]_vars => StagesKept'
<1>. SUFFICES ASSUME TypeOK, StagesKept, [Next]_vars PROVE StagesKept'
  OBVIOUS
<1>1. CASE \/ StartCompile \/ CompileMlir \/ SaveText \/ SaveConstants \/ SaveBin
           \/ SaveMetadata \/ RwkvPostHook
  BY <1>1, CompileOutside
<1>2. CASE \/ StartDylib \/ ReadArtifact \/ WriteConstantsBin \/ CheckFreshness
           \/ Link \/ Embed \/ Relink \/ Kill \/ CommitDialect
  BY <1>2, DylibOutside
<1>3. CASE FutureResult
  BY <1>3, LeaveStageStages DEF FutureResult, Building, Dylib
<1>4. CASE LeavePool
  BY <1>4, LeaveStageStages DEF LeavePool, Building, Dylib
<1>5. CASE SfLowering \/ RunAction \/ SubmitPass \/ PassEnds \/ FutureTimeout
  BY <1>5, SfLoweringStages, RunActionStages, SubmitPassStages, PassEndsStages, FutureTimeoutStages
<1>6. CASE UNCHANGED vars
  BY <1>6 DEF vars, StagesKept, Dylib
<1>. QED
  BY <1>1, <1>2, <1>3, <1>4, <1>5, <1>6 DEF Next

-----------------------------------------------------------------------------
(* The function being lowered: what the stages made of it. *)

(* What all the stages make of a function, and what the first k of them do. *)
Whole(f) == Lowered(f, FALSE)

Through(k, f) ==
    IF k < 5 THEN f
    ELSE IF k < 7 THEN InsertIdentityCopies(f)
    ELSE IF k < 8 THEN Bufferize(InsertIdentityCopies(f))
    ELSE Whole(f)

(* A bufferized function names its output buffers. *)
LEMMA BufferizedHasOutputs == ASSUME NEW fn PROVE "out" \in DOMAIN Bufferize(fn)
  BY DEF Bufferize

(* Which of the stages rewrite the function themselves. *)
LEMMA StageNames ==
    /\ \A k \in 1 .. 13 : STAGES[k].name = "C2.5" <=> k = 5
    /\ \A k \in 1 .. 13 : STAGES[k].name = "C3" <=> k = 7
    /\ \A k \in 1 .. 13 : STAGES[k].name = "C4" <=> k = 8
  BY DEF STAGES, Pass, Action

(* A stage turns what the ones before it made into what it makes itself. *)
LEMMA StageAdds ==
    ASSUME NEW k \in 1 .. 13, NEW f
    PROVE  Transform(STAGES[k].name, Through(k - 1, f)) = Through(k, f)
<1>1. /\ \A j \in Int : j < 5 => Through(j, f) = f
      /\ \A j \in Int : j \in {5, 6} => Through(j, f) = InsertIdentityCopies(f)
      /\ Through(7, f) = Bufferize(InsertIdentityCopies(f))
      /\ \A j \in Int : j > 7 => Through(j, f) = Whole(f)
  BY DEF Through
<1>2. CASE k = 5
  <2>1. STAGES[k].name = "C2.5" /\ Through(k - 1, f) = f /\ Through(k, f) = InsertIdentityCopies(f)
    BY <1>1, <1>2, StageNames
  <2>. QED
    BY <2>1 DEF Transform
<1>3. CASE k = 7
  <2>1. /\ STAGES[k].name = "C3"
        /\ Through(k - 1, f) = InsertIdentityCopies(f)
        /\ Through(k, f) = Bufferize(InsertIdentityCopies(f))
    BY <1>1, <1>3, StageNames
  <2>. QED
    BY <2>1 DEF Transform
<1>4. CASE k = 8
  <2>1. /\ STAGES[k].name = "C4"
        /\ Through(k - 1, f) = Bufferize(InsertIdentityCopies(f))
        /\ Through(k, f) = Whole(f)
    BY <1>1, <1>4, StageNames
  <2>. QED
    BY <2>1, BufferizedHasOutputs, Zenon DEF Transform, Whole, Lowered
<1>5. CASE k \notin {5, 7, 8}
  <2>1. \A body : Transform(STAGES[k].name, body) = body
    BY <1>5, StageNames DEF Transform
  <2>2. CASE k < 5 \/ k = 6
    BY <1>1, <2>1, <2>2
  <2>3. CASE k > 8
    BY <1>1, <2>1, <2>3
  <2>. QED
    BY <1>5, <2>2, <2>3
<1>. QED
  BY <1>2, <1>3, <1>4, <1>5

(* The chain of insertvalues numbers the fields of a descriptor of any    *)
(* rank as the bare memref has them (_build_struct_chain).                 *)
LEMMA DescriptorInPlace ==
    ASSUME NEW rank \in Nat, NEW elt, elt # "index"
    PROVE  Descriptor(rank, elt) = MemrefFields(rank)
<1>. DEFINE n == 3 + 2 * rank
            At(vi) == Position(vi, rank)
            Fields == {<<0>>, <<1>>, <<2>>} \cup {<<f, i>> : f \in {3, 4}, i \in 0 .. rank - 1}
            Operand(p) == IF Len(p) = 1 THEN p[1] ELSE IF p[1] = 3 THEN 3 + p[2] ELSE 3 + rank + p[2]
<1>1. \A vi \in 0 .. n - 1 : At(vi) \in Fields /\ Operand(At(vi)) = vi
  BY DEF Position
<1>2. ASSUME NEW p \in Fields
      PROVE  Operand(p) \in 0 .. n - 1 /\ At(Operand(p)) = p
  <2>1. CASE p \in {<<0>>, <<1>>, <<2>>}
    BY <2>1 DEF Position
  <2>2. CASE p \in {<<f, i>> : f \in {3, 4}, i \in 0 .. rank - 1}
    <3>1. PICK f \in {3, 4}, i \in 0 .. rank - 1 : p = <<f, i>>
      BY <2>2
    <3>2. CASE f = 3
      BY <3>1, <3>2 DEF Position
    <3>3. CASE f = 4
      BY <3>1, <3>3 DEF Position
    <3>. QED
      BY <3>2, <3>3
  <2>. QED
    BY <2>1, <2>2
<1>3. {At(vi) : vi \in 0 .. n - 1} = Fields
  BY <1>1, <1>2
<1>4. ASSUME NEW p \in Fields
      PROVE  (CHOOSE vi \in 0 .. n - 1 : At(vi) = p) = Operand(p)
  BY <1>1, <1>2
<1>5. Descriptor(rank, elt) = [p \in {At(vi) : vi \in 0 .. n - 1} |-> CHOOSE vi \in 0 .. n - 1 : At(vi) = p]
  BY DEF Descriptor, StridedRank
<1>6. MemrefFields(rank) = [p \in Fields |-> Operand(p)]
  BY DEF MemrefFields
<1>. QED
  BY <1>3, <1>4, <1>5, <1>6

-----------------------------------------------------------------------------
(* The stages behind the module: the one a thread has ended counts. *)
Behind == IF worker = "done" THEN proc.stage ELSE proc.stage - 1

(* The module holds what the stages behind it make of the function. *)
BodyKept ==
    Dylib(StagePcs) =>
        /\ mod.body = Through(Behind, mod.orig)
        /\ proc.pc = "link" => proc.stage = 14

(* Applying the stage at hand is one stage further. *)
LEMMA AppliedBody ==
    ASSUME TypeOK, StagesKept, BodyKept, Dylib({"stage", "wait", "join"}), worker # "done",
           mod' = Applied(proc.stage)
    PROVE  mod'.body = Through(proc.stage, mod'.orig)
<1>1. proc.stage \in 1 .. 13 /\ DOMAIN mod = ModFields
  BY StageFacts DEF StagesKept, ModFields
<1>2. mod.body = Through(proc.stage - 1, mod.orig)
  BY DEF BodyKept, Behind, Dylib, StagePcs
<1>3. mod'.orig = mod.orig /\ mod'.body = Transform(STAGES[proc.stage].name, mod.body)
  BY <1>1 DEF Applied, ModFields
<1>. QED
  BY <1>1, <1>2, <1>3, StageAdds

(* Only the last stage may fail and be passed over, and it adds nothing. *)
LEMMA WarningAddsNothing ==
    ASSUME NEW k \in 1 .. 13, STAGES[k].warn_only, NEW f
    PROVE  Through(k - 1, f) = Through(k, f)
<1>1. k = 13
  BY DEF STAGES, Pass, Action
<1>. QED
  BY <1>1 DEF Through

(* A stage that is behind leaves the module as it is. *)
LEMMA NextBody ==
    ASSUME TypeOK, StagesKept, Dylib({"stage", "wait", "join"}), NEW success \in BOOLEAN,
           StageResult(success), worker' = "none",
           proc' # Idle => mod'.body = Through(proc.stage, mod'.orig)
    PROVE  BodyKept'
<1>1. proc \in Procs /\ proc.stage \in 1 .. 13
  BY StageFacts DEF TypeOK, StagesKept
<1>2. CASE proc' = Idle
  BY <1>2, IdleFacts DEF BodyKept, Dylib
<1>3. CASE proc' # Idle
  <2>. DEFINE pc == IF proc.stage = Len(STAGES) THEN "link" ELSE "stage"
  <2>1. proc' = [proc EXCEPT !.stage = proc.stage + 1, !.pc = pc]
    BY <1>3 DEF StageResult
  <2>2. proc'.pc = pc /\ proc'.stage = proc.stage + 1
    BY <1>1, <2>1 DEF Procs
  <2>3. proc'.pc = "link" => proc'.stage = 14
    BY <2>2, StageFacts
  <2>4. Behind' = proc.stage
    BY <1>1, <2>2 DEF Behind
  <2>. QED
    BY <1>3, <2>3, <2>4 DEF BodyKept
<1>. QED
  BY <1>2, <1>3

(* A stage that is an action applies, fails the command, or only warns. *)
LEMMA RunActionBody ==
    ASSUME TypeOK, StagesKept, BodyKept, RunAction
    PROVE  BodyKept'
<1>1. Dylib({"stage"}) /\ Dylib({"stage", "wait", "join"}) /\ ~ Dylib({"wait", "join"}) /\ worker' = worker
  BY DEF RunAction, Building, Dylib
<1>2. worker' = "none" /\ worker = "none" /\ proc.stage \in 1 .. 13 /\ proc \in Procs
  BY <1>1, NoThread, StageFacts DEF StagesKept, TypeOK
<1>3. CASE mod' = Applied(proc.stage) /\ StageResult(TRUE)
  <2>1. mod'.body = Through(proc.stage, mod'.orig)
    BY <1>1, <1>2, <1>3, AppliedBody
  <2>. QED
    BY <1>1, <1>2, <1>3, <2>1, NextBody
<1>4. CASE StageResult(FALSE) /\ mod' = IF proc'.cmd = "idle" THEN NoModule ELSE mod
  <2>1. ASSUME proc' # Idle PROVE mod'.body = Through(proc.stage, mod'.orig)
    <3>1. STAGES[proc.stage].warn_only /\ proc'.cmd = "dylib"
      BY <1>1, <1>2, <1>4, <2>1 DEF StageResult, Stage, Procs, Dylib
    <3>2. mod' = mod
      BY <1>4, <3>1
    <3>3. mod.body = Through(proc.stage - 1, mod.orig)
      BY <1>1, <1>2 DEF BodyKept, Behind, Dylib, StagePcs
    <3>. QED
      BY <1>2, <3>1, <3>2, <3>3, WarningAddsNothing
  <2>. QED
    BY <1>1, <1>2, <1>4, <2>1, NextBody
<1>. QED
  BY <1>3, <1>4 DEF RunAction

(* A pass that ended in time is behind; any other ends the command. *)
LEMMA LeaveStageBody ==
    ASSUME TypeOK, StagesKept, BodyKept, Dylib({"wait", "join"}), NEW success \in BOOLEAN,
           LeaveStage(success), success => worker = "done"
    PROVE  BodyKept'
<1>1. /\ Dylib({"stage", "wait", "join"}) /\ proc \in Procs /\ proc.cmd = "dylib"
      /\ ~ Stage.warn_only
  BY StageFacts DEF StagesKept, Dylib, TypeOK, Stage
<1>2. StageResult(success) /\ worker' = "none" /\ mod' = IF proc'.cmd = "idle" THEN NoModule ELSE mod
  BY DEF LeaveStage
<1>3. ASSUME proc' # Idle PROVE mod'.body = Through(proc.stage, mod'.orig)
  <2>1. success /\ proc'.cmd = "dylib"
    BY <1>1, <1>2, <1>3 DEF StageResult, Procs
  <2>2. mod' = mod /\ worker = "done"
    BY <1>2, <2>1
  <2>. QED
    BY <2>2 DEF BodyKept, Behind, Dylib, StagePcs
<1>. QED
  BY <1>1, <1>2, <1>3, NextBody

(* The other steps of a stage: its start, and what its thread does. *)
LEMMA ThreadBody ==
    ASSUME TypeOK, StagesKept, BodyKept, SfLowering \/ SubmitPass \/ PassEnds \/ FutureTimeout
    PROVE  BodyKept'
<1>0. proc \in Procs
  BY DEF TypeOK
<1>1. CASE SfLowering
  <2>0. worker = "none" /\ worker' = "none"
    BY <1>1, NoThread DEF SfLowering, Building, Dylib, Fail, Exit
  <2>1. CASE Fail
    BY <2>1, IdleFacts DEF Fail, Exit, BodyKept, Dylib
  <2>2. ASSUME NEW f, mod' = [NoModule EXCEPT !.orig = f, !.body = f],
               proc' = [proc EXCEPT !.pc = "stage", !.stage = 1]
        PROVE  BodyKept'
    <3>1. proc'.pc = "stage" /\ proc'.stage = 1
      BY <1>0, <2>2 DEF Procs
    <3>2. mod'.body = f /\ mod'.orig = f
      BY <2>2 DEF NoModule
    <3>3. Behind' = 0
      BY <2>0, <3>1 DEF Behind
    <3>4. Through(0, f) = f
      BY DEF Through
    <3>. QED
      BY <3>1, <3>2, <3>3, <3>4 DEF BodyKept
  <2>. QED
    BY <1>1, <2>1, <2>2 DEF SfLowering
<1>2. CASE SubmitPass
  <2>1. proc.cmd = "dylib" /\ proc.pc = "stage" /\ worker' = "running"
    BY <1>2 DEF SubmitPass, Building
  <2>2. worker = "none" /\ DOMAIN mod = ModFields
    BY <2>1, NoThread DEF Dylib
  <2>3. mod'.body = mod.body /\ mod'.orig = mod.orig
    BY <1>2, <2>2 DEF SubmitPass, ModFields
  <2>4. proc'.cmd = "dylib" /\ proc'.pc = "wait" /\ proc'.stage = proc.stage
    BY <1>0, <1>2, <2>1, GoFacts DEF SubmitPass, AfterRead
  <2>5. Behind' = Behind
    BY <2>1, <2>2, <2>4 DEF Behind
  <2>6. mod.body = Through(Behind, mod.orig)
    BY <2>1 DEF BodyKept, Dylib, StagePcs
  <2>. QED
    BY <2>3, <2>4, <2>5, <2>6 DEF BodyKept
<1>3. CASE PassEnds
  <2>1. proc' = proc /\ Dylib({"wait", "join"}) /\ worker = "running"
    BY <1>3 DEF PassEnds, StagesKept
  <2>2. Dylib({"stage", "wait", "join"}) /\ proc.pc # "link"
    BY <2>1 DEF Dylib
  <2>3. CASE worker' = "done" /\ mod' = Applied(proc.stage)
    <3>1. mod'.body = Through(proc.stage, mod'.orig)
      BY <2>1, <2>2, <2>3, AppliedBody
    <3>2. Behind' = proc.stage
      BY <2>1, <2>3 DEF Behind
    <3>. QED
      BY <2>1, <2>2, <3>1, <3>2 DEF BodyKept
  <2>4. CASE worker' = "failed" /\ UNCHANGED mod
    <3>1. Behind' = Behind
      BY <2>1, <2>4 DEF Behind
    <3>. QED
      BY <2>1, <2>4, <3>1 DEF BodyKept, Dylib
  <2>. QED
    BY <1>3, <2>3, <2>4 DEF PassEnds
<1>4. CASE FutureTimeout
  <2>1. proc.cmd = "dylib" /\ proc.pc = "wait" /\ UNCHANGED <<mod, worker>>
    BY <1>4 DEF FutureTimeout, Building
  <2>2. proc'.cmd = "dylib" /\ proc'.pc = "join" /\ proc'.stage = proc.stage
    BY <1>0, <1>4, <2>1, GoFacts DEF FutureTimeout, AfterRead
  <2>3. Behind' = Behind
    BY <2>1, <2>2 DEF Behind
  <2>4. mod.body = Through(Behind, mod.orig)
    BY <2>1 DEF BodyKept, Dylib, StagePcs
  <2>. QED
    BY <2>1, <2>2, <2>3, <2>4 DEF BodyKept
<1>. QED
  BY <1>1, <1>2, <1>3, <1>4

(* Every step keeps the module what its stages make of the function. *)
LEMMA BodyNext == TypeOK /\ StagesKept /\ BodyKept /\ [Next]_vars => BodyKept'
<1>. SUFFICES ASSUME TypeOK, StagesKept, BodyKept, [Next]_vars PROVE BodyKept'
  OBVIOUS
<1>0. ~ Dylib(StagePcs)' => BodyKept'
  BY DEF BodyKept
<1>1. CASE \/ StartCompile \/ CompileMlir \/ SaveText \/ SaveConstants \/ SaveBin
           \/ SaveMetadata \/ RwkvPostHook
  BY <1>0, <1>1, CompileOutside
<1>2. CASE \/ StartDylib \/ ReadArtifact \/ WriteConstantsBin \/ CheckFreshness
           \/ Link \/ Embed \/ Relink \/ Kill \/ CommitDialect
  BY <1>0, <1>2, DylibOutside
<1>3. CASE FutureResult
  BY <1>3, LeaveStageBody DEF FutureResult, Building, Dylib
<1>4. CASE LeavePool
  BY <1>4, LeaveStageBody DEF LeavePool, Building, Dylib
<1>5. CASE SfLowering \/ RunAction \/ SubmitPass \/ PassEnds \/ FutureTimeout
  BY <1>5, RunActionBody, ThreadBody
<1>6. CASE UNCHANGED vars
  BY <1>6 DEF vars, BodyKept, Behind, Dylib
<1>. QED
  BY <1>1, <1>2, <1>3, <1>4, <1>5, <1>6 DEF Next

-----------------------------------------------------------------------------
(* An empty directory satisfies the invariant. *)
LEMMA IInvInit == Init => IInv
<1>. SUFFICES ASSUME Init PROVE IInv
  OBVIOUS
<1>1. TypeOK
  BY TypeInit
<1>2. /\ proc.cmd = "idle" /\ worker = "none" /\ DOMAIN mod = ModFields
      /\ disk["model.mlir"] = None /\ disk["dylib"] = None
  BY IdleFacts, NoModuleFacts DEF Init
<1>. QED
  BY <1>1, <1>2 DEF IInv, Kept, RunKept, SymbolsMatchCode, FilesKept, TagsKept, OneGeneration, StampKept,
     StaleIsRefused, StagesKept, Compile, Dylib, ModFields

(* The books of the build: every state of the two commands satisfies IInv. *)
THEOREM BuildKept == Spec => []IInv
<1>1. IInv /\ [Next]_vars => IInv'
  BY KeptNext, StagesNext DEF IInv, Kept
<1>. QED
  BY IInvInit, <1>1, PTL DEF Spec

(* SymbolsMatchCode: a library that carries the SFA symbols has the code   *)
(* and the constants of the run that wrote them (compile_dylib.py main,    *)
(* _sfa_relink_dylib).                                                     *)
THEOREM SymbolsOfOneRun == Spec => []SymbolsMatchCode
<1>1. IInv => SymbolsMatchCode
  BY DEF IInv, Kept, RunKept
<1>. QED
  BY <1>1, BuildKept, PTL

(* OneGeneration: such a library mixes no two compiles, unless the compile *)
(* that wrote its text was cut short (save_mlir_module_artifact).          *)
THEOREM LibraryOfOneCompile == Spec => []OneGeneration
<1>1. IInv => OneGeneration
  BY DEF IInv, Kept, TagsKept
<1>. QED
  BY <1>1, BuildKept, PTL

(* StaleIsRefused: a stamped model is never lowered by another dialect     *)
(* when git answered (_check_sf_dialect_freshness, _rwkv_post_hook).       *)
THEOREM StaleNeverLinked == Spec => []StaleIsRefused
<1>1. IInv => StaleIsRefused
  BY DEF IInv, Kept, StampKept
<1>. QED
  BY <1>1, BuildKept, PTL

(* LinkedWhole: only a module with every stage applied, and with no thread *)
(* working on it, reaches the linker (run_stages, Stage.run).              *)
THEOREM OnlyWholeModulesLinked == Spec => []LinkedWhole
<1>1. IInv => LinkedWhole
  <2>1. ASSUME IInv, proc.pc = "link" PROVE Dylib({"link"})
    BY <2>1, IdleFacts DEF IInv, Kept, TypeOK, CommandOK, Dylib, Compile, InCompile
  <2>. QED
    BY <2>1 DEF IInv, StagesKept, LinkedWhole, Dylib
<1>. QED
  BY <1>1, BuildKept, PTL

(* What a module with all its stages is, and how its buffers are described *)
(* (run_stages, Stage.run, _build_struct_chain): the linker gets what the  *)
(* identity copies, the bufferization and the BLAS rewrite make of the     *)
(* function, each of them once and in this order, whatever stage failed,   *)
(* warned or ran into its timeout before; and the descriptor of a memref   *)
(* of any rank has every field in its place, but for memrefs of index.     *)
LinkedLowered ==
    proc.pc = "link" =>
        /\ mod.body = Lowered(mod.orig, FALSE)
        /\ \A v \in DOMAIN mod.body.ty :
              LET t == mod.body.ty[v]
              IN  t.rank \in Nat /\ t.elt # "index" => Descriptor(t.rank, t.elt) = MemrefFields(t.rank)

(* LinkedLowered holds in every run of the commands. *)
THEOREM LoweredOnceInOrder == Spec => []LinkedLowered
<1>1. Init => BodyKept
  BY IdleFacts DEF Init, BodyKept, Dylib
<1>2. IInv /\ BodyKept /\ [Next]_vars => BodyKept'
  BY BodyNext DEF IInv, Kept
<1>3. IInv /\ BodyKept => LinkedLowered
  <2>. SUFFICES ASSUME IInv, BodyKept, proc.pc = "link" PROVE LinkedLowered
    BY DEF LinkedLowered
  <2>1. Dylib({"link"}) /\ worker = "none"
    BY IdleFacts DEF IInv, Kept, TypeOK, CommandOK, Dylib, Compile, InCompile, StagesKept
  <2>2. mod.body = Through(13, mod.orig)
    BY <2>1 DEF BodyKept, Behind, Dylib, StagePcs
  <2>3. Through(13, mod.orig) = Whole(mod.orig)
    BY DEF Through
  <2>4. mod.body = Lowered(mod.orig, FALSE)
    BY <2>2, <2>3, Zenon DEF Whole
  <2>. QED
    BY <2>4, DescriptorInPlace DEF LinkedLowered
<1>. QED
  BY <1>1, <1>2, <1>3, BuildKept, PTL DEF Spec

=============================================================================

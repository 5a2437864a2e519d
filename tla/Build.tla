------------------------------- MODULE Build -------------------------------
(***************************************************************************)
(* The two commands that turn a model into a library, as they meet on disk *)
(* in one output directory: compile (src/compiler/compile.py and           *)
(* pipeline/__init__.py, ending in artifact/serialize.py) and              *)
(* compile_dylib (src/compiler/compile_dylib.py), which reads what the     *)
(* first one wrote, runs the lowering stages on worker threads with        *)
(* timeouts (pipeline/stages.py, stages_utils.py) and links twice.         *)
(* Either command may be killed between any two steps and in the middle of *)
(* a write; any tool may fail.  One command runs at a time.                *)
(*                                                                         *)
(* A file's content is where it came from: the number of the compile that  *)
(* wrote it, or the record of the compile_dylib run that derived it.       *)
(***************************************************************************)
EXTENDS Lowering

CONSTANTS
    Models,        \* what compile.py compiles: a kind ("rwkv" has a post-compile
                   \* hook), and whether the export found constants
    Dialects,      \* the git trees of sf-dialect/ a command can find at HEAD
    MaxCompiles,   \* bound on the compile runs
    MaxDylibs,     \* bound on the compile_dylib runs
    Bodies(_, _)   \* the functions lowered by the n-th compile_dylib after c compiles

(* A tree is named by its hash: never by the mark of a metadata without one. *)
ASSUME BuildAssumption ==
    /\ \A m \in Models : m.consts \in BOOLEAN
    /\ "none" \notin Dialects

VARIABLES
    dialect,       \* the sf-dialect tree at HEAD
    compiles,      \* the compile runs begun so far
    dylibs,        \* how many compile_dylib runs were begun
    disk,          \* the artifact directory
    proc,          \* the command that is running
    mod,           \* the ir.Module its stages work on
    worker         \* the thread of the stage that is running

vars == <<dialect, compiles, dylibs, disk, proc, mod, worker>>

None == [none |-> TRUE]
Exists(f) == disk[f] # None

Idle == [cmd |-> "idle", pc |-> "", n |-> 0, tag |-> None, stage |-> 0]

-----------------------------------------------------------------------------
(***************************************************************************)
(* BUILTIN_STAGES without its first one, which compile_dylib skips.  The   *)
(* passes of phases D and E differ only in name to this model: one stands  *)
(* for D1 to D4, and one for E1 to E9.                                     *)
(***************************************************************************)
Action(name) == [name |-> name, action |-> TRUE, warn_only |-> FALSE]
Pass(name) == [name |-> name, action |-> FALSE, warn_only |-> FALSE]

STAGES ==
    <<Pass("A2"), Pass("A3"), Action("C1"), Action("C2"), Action("C2.5"), Action("C2.6"),
      Pass("C3"), Action("C4"), Pass("C4.1"), Pass("D"), Pass("E"), Pass("E10"),
      [name |-> "module-verify", action |-> TRUE, warn_only |-> TRUE]>>

(* What a stage does to the body being lowered; the other stages keep what *)
(* it computes.                                                            *)
Transform(name, body) ==
    CASE name = "C2.5" -> InsertIdentityCopies(body)
      [] name = "C3" -> Bufferize(body)
      [] name = "C4" /\ "out" \in DOMAIN body -> LowerMatmulsToBlas(body, FALSE)
      [] OTHER -> body

NoModule == [orig |-> None, body |-> None, applied |-> {}, torn |-> FALSE]
Applied(k) == [mod EXCEPT !.applied = @ \cup {k}, !.torn = FALSE, !.body = Transform(STAGES[k].name, @)]

Init ==
    /\ dialect \in Dialects
    /\ compiles = <<>>
    /\ dylibs = 0
    /\ disk = [f \in {"model.mlir", "constants.pth", "metadata.json", "constants.bin",
                      "model.ll", "dylib"} |-> None]
    /\ proc = Idle
    /\ mod = NoModule
    /\ worker = "none"

Go(pc) == proc' = [proc EXCEPT !.pc = pc]
Exit == proc' = Idle /\ mod' = NoModule /\ UNCHANGED <<dialect, compiles, worker>>
Fail == Exit /\ UNCHANGED disk
Write(f, content) == disk' = [disk EXCEPT ![f] = content]

-----------------------------------------------------------------------------
(***************************************************************************)
(* compile: export, convert, passes (any of which may raise before a file  *)
(* is touched), then save_mlir_module_artifact's writes in their order and *)
(* the post-compile hook.  A compile with no export-time constants leaves  *)
(* constants.pth as it finds it.                                           *)
(***************************************************************************)
StartCompile ==
    /\ proc = Idle /\ Len(compiles) < MaxCompiles
    /\ \E m \in Models :
         compiles' = Append(compiles, [kind |-> m.kind, consts |-> m.consts, dialect |-> dialect,
                                       stamped |-> FALSE, done |-> FALSE])
    /\ proc' = [Idle EXCEPT !.cmd = "compile", !.pc = "passes", !.n = Len(compiles) + 1]
    /\ UNCHANGED <<dialect, disk, mod, worker>>

ThisCompile == compiles[proc.n]
Compiling(pc) == proc.cmd = "compile" /\ proc.pc = pc

(* _apply_mlir_passes: with the bindings, a failing canonicalize is fatal  *)
(* and failing C++ fusion passes are replaced by the Python ones.          *)
PassesRaise(bindings, canonicalize, cpp, python) ==
    \/ bindings /\ ~canonicalize
    \/ ~(bindings /\ cpp) /\ ~python

CompileMlir ==
    /\ Compiling("passes")
    /\ \E bindings, canonicalize, cpp, python \in BOOLEAN :
         IF PassesRaise(bindings, canonicalize, cpp, python) THEN Fail
         ELSE Go("mlir") /\ UNCHANGED <<dialect, compiles, disk, mod, worker>>

SaveText ==
    /\ Compiling("mlir")
    /\ Write("model.mlir", [gen |-> proc.n, whole |-> TRUE])
    /\ Go(IF ThisCompile.consts THEN "pth" ELSE "bin")
    /\ UNCHANGED <<dialect, compiles, mod, worker>>

SaveConstants ==
    /\ Compiling("pth")
    /\ Write("constants.pth", [gen |-> proc.n, whole |-> TRUE])
    /\ Go("bin")
    /\ UNCHANGED <<dialect, compiles, mod, worker>>

(* A model none of whose weights finds a key leaves constants.bin as it    *)
(* finds it.                                                               *)
SaveBin ==
    /\ Compiling("bin")
    /\ \/ Write("constants.bin", [run |-> 0, mlir |-> proc.n])
       \/ UNCHANGED disk
    /\ Go("meta")
    /\ UNCHANGED <<dialect, compiles, mod, worker>>

SaveMetadata ==
    /\ Compiling("meta")
    /\ Write("metadata.json", [gen |-> proc.n, whole |-> TRUE, hash |-> "none"])
    /\ IF ThisCompile.kind = "rwkv"
       THEN Go("hook") /\ UNCHANGED compiles
       ELSE proc' = Idle /\ compiles' = [compiles EXCEPT ![proc.n].done = TRUE]
    /\ UNCHANGED <<dialect, mod, worker>>

(* _rwkv_post_hook stamps the metadata with the dialect's tree, when git   *)
(* can tell it.                                                            *)
RwkvPostHook ==
    /\ Compiling("hook")
    /\ \E git \in BOOLEAN :
         /\ Write("metadata.json", [disk["metadata.json"] EXCEPT
                                      !.hash = IF git THEN dialect ELSE @])
         /\ compiles' = [compiles EXCEPT ![proc.n].done = TRUE, ![proc.n].stamped = git]
    /\ proc' = Idle
    /\ UNCHANGED <<dialect, mod, worker>>

-----------------------------------------------------------------------------
(***************************************************************************)
(* compile_dylib.  Reading: a missing model.mlir ends it, an unreadable    *)
(* metadata.json or constants.pth raises; the line parser takes a          *)
(* truncated model.mlir as it is.  Constants are restored for the names    *)
(* the metadata classifies as constants.                                   *)
(***************************************************************************)
RestoredAny(meta) == IF Exists("constants.pth") THEN disk["constants.pth"].gen ELSE 0

Restored(meta) ==
    IF meta = 0 \/ ~compiles[meta].consts \/ ~Exists("constants.pth") THEN 0
    ELSE disk["constants.pth"].gen

StartDylib ==
    /\ proc = Idle /\ dylibs < MaxDylibs
    /\ dylibs' = dylibs + 1
    /\ proc' = IF Exists("model.mlir") THEN [Idle EXCEPT !.cmd = "dylib", !.pc = "read"] ELSE Idle
    /\ UNCHANGED <<dialect, compiles, disk, mod, worker>>

Building(pc) == proc.cmd = "dylib" /\ proc.pc = pc

ReadArtifact ==
    /\ Building("read")
    /\ LET meta == IF Exists("metadata.json") THEN disk["metadata.json"].gen ELSE 0
       IN  IF \/ Exists("metadata.json") /\ ~disk["metadata.json"].whole
              \/ Exists("constants.pth") /\ ~disk["constants.pth"].whole
           THEN Fail
           ELSE /\ proc' = [proc EXCEPT !.pc = "bin",
                              !.tag = [run |-> dylibs, mlir |-> disk["model.mlir"].gen,
                                       meta |-> meta, consts |-> Restored(meta),
                                       dialect |-> dialect, checked |-> FALSE]]
                /\ UNCHANGED <<dialect, compiles, disk, mod, worker>>
    /\ UNCHANGED dylibs

(* constants.bin is written before the staleness check.                    *)
WriteConstantsBinOnce ==
    /\ Building("bin")
    /\ IF Exists("constants.bin") THEN UNCHANGED disk ELSE Write("constants.bin", [run |-> dylibs, mlir |-> proc.tag.mlir])
    /\ Go("fresh")
    /\ UNCHANGED <<dialect, compiles, dylibs, mod, worker>>

WriteConstantsBin ==
    /\ Building("bin")
    /\ Write("constants.bin", [run |-> dylibs, mlir |-> proc.tag.mlir])
    /\ Go("fresh")
    /\ UNCHANGED <<dialect, compiles, dylibs, mod, worker>>

(* _check_sf_dialect_freshness: only a hash that git contradicts stops it. *)
StaleOnGitError(git) ==
    /\ Exists("metadata.json") /\ disk["metadata.json"].hash # "none"
    /\ ~git /\ disk["metadata.json"].hash # dialect

Stale(git) ==
    /\ Exists("metadata.json") /\ disk["metadata.json"].hash # "none"
    /\ git /\ disk["metadata.json"].hash # dialect

CheckFreshness ==
    /\ Building("fresh")
    /\ \E git \in BOOLEAN :
         IF Stale(git) THEN Fail
         ELSE /\ proc' = [proc EXCEPT !.pc = "lower", !.tag.checked = git]
              /\ UNCHANGED <<dialect, compiles, disk, mod, worker>>
    /\ UNCHANGED dylibs

(* The sf-to-linalg pipeline, which leaves only debug files when it fails. *)
SfLowering ==
    /\ Building("lower")
    /\ \/ \E f \in Bodies(dylibs, Len(compiles)) :
             /\ mod' = [NoModule EXCEPT !.orig = f, !.body = f]
             /\ proc' = [proc EXCEPT !.pc = "stage", !.stage = 1]
             /\ UNCHANGED <<dialect, compiles, disk, worker>>
       \/ Fail
    /\ UNCHANGED dylibs

-----------------------------------------------------------------------------
(***************************************************************************)
(* run_stages and Stage.run.  An action runs in the caller, whatever its   *)
(* timeout says; a pass pipeline runs in a pool of one thread, and the     *)
(* caller waits for it with the timeout.  Leaving the pool's scope joins   *)
(* the thread, so a stage that timed out is left only once its pass ended. *)
(***************************************************************************)
Stage == STAGES[proc.stage]

StageResult(success) ==
    IF ~success /\ ~Stage.warn_only
    THEN proc' = Idle
    ELSE proc' = [proc EXCEPT !.stage = @ + 1,
                              !.pc = IF proc.stage = Len(STAGES) THEN "link" ELSE "stage"]

RunAction ==
    /\ Building("stage") /\ Stage.action
    /\ \/ mod' = Applied(proc.stage) /\ StageResult(TRUE)
       \/ /\ StageResult(FALSE)
          /\ mod' = IF proc'.cmd = "idle" THEN NoModule ELSE mod
    /\ UNCHANGED <<dialect, compiles, disk, dylibs, worker>>

SubmitPass ==
    /\ Building("stage") /\ ~Stage.action
    /\ worker' = "running"
    /\ mod' = [mod EXCEPT !.torn = TRUE]
    /\ Go("wait")
    /\ UNCHANGED <<dialect, compiles, disk, dylibs>>

PassEnds ==
    /\ worker = "running"
    /\ \/ worker' = "done" /\ mod' = Applied(proc.stage)
       \/ worker' = "failed" /\ UNCHANGED mod
    /\ UNCHANGED <<dialect, compiles, disk, dylibs, proc>>

LeaveStage(success) ==
    /\ StageResult(success)
    /\ worker' = "none"
    /\ mod' = IF proc'.cmd = "idle" THEN NoModule ELSE mod
    /\ UNCHANGED <<dialect, compiles, disk, dylibs>>

FutureResult ==
    /\ Building("wait") /\ worker \in {"done", "failed"}
    /\ LeaveStage(worker = "done")

FutureTimeout ==
    /\ Building("wait") /\ worker = "running"
    /\ Go("join")
    /\ UNCHANGED <<dialect, compiles, disk, dylibs, mod, worker>>

LeavePoolAtOnce ==
    /\ Building("join")
    /\ StageResult(FALSE)
    /\ mod' = NoModule
    /\ UNCHANGED <<dialect, compiles, disk, dylibs, worker>>

LeavePool ==
    /\ Building("join") /\ worker # "running"
    /\ LeaveStage(FALSE)

-----------------------------------------------------------------------------
(***************************************************************************)
(* Linking, twice: once from the module, without the SFA symbols, and once *)
(* more from the files the first link left, with them.  Any tool may fail. *)
(***************************************************************************)
(* mlir-translate, llc and cc: each is found or not, exits or times out,   *)
(* and must leave a file that is not empty; model.ll is copied into the    *)
(* directory between the first two.                                        *)
LinkOutcomes == {"not translated", "not linked", "linked"}

Link ==
    /\ Building("link")
    /\ \E outcome \in LinkOutcomes :
         /\ disk' = CASE outcome = "not translated" -> disk
                      [] outcome = "not linked" -> [disk EXCEPT !["model.ll"] = proc.tag]
                      [] outcome = "linked" ->
                            [disk EXCEPT !["model.ll"] = proc.tag,
                                         !["dylib"] = [code |-> proc.tag, abi |-> None,
                                                       bin |-> disk["constants.bin"]]]
         /\ IF outcome = "linked"
            THEN Go("embed") /\ mod' = NoModule /\ UNCHANGED <<dialect, compiles, worker>>
            ELSE Exit
    /\ UNCHANGED dylibs

Embed ==
    /\ Building("embed")
    /\ \/ Fail /\ UNCHANGED dylibs
       \/ Go("relink") /\ UNCHANGED <<dialect, compiles, disk, dylibs, mod, worker>>

Relink ==
    /\ Building("relink")
    /\ \/ Fail
       \/ /\ Write("dylib", [code |-> disk["model.ll"], bin |-> disk["constants.bin"],
                            abi |-> proc.tag])
          /\ Exit
    /\ UNCHANGED dylibs

-----------------------------------------------------------------------------
(***************************************************************************)
(* The user interrupts a command: the file it is writing may be left       *)
(* truncated, a link may leave no library.                                 *)
(***************************************************************************)
Partial(f, content) == disk' \in {disk, [disk EXCEPT ![f] = content]}

Kill ==
    /\ proc # Idle
    /\ CASE Compiling("mlir") -> Partial("model.mlir", [gen |-> proc.n, whole |-> FALSE])
         [] Compiling("pth") -> Partial("constants.pth", [gen |-> proc.n, whole |-> FALSE])
         [] Compiling("bin") \/ Building("bin") -> Partial("constants.bin", [run |-> 0, mlir |-> 0])
         [] Compiling("meta") \/ Compiling("hook") ->
                Partial("metadata.json", [gen |-> proc.n, whole |-> FALSE, hash |-> "none"])
         [] Building("link") \/ Building("relink") -> Partial("dylib", None)
         [] OTHER -> UNCHANGED disk
    /\ proc' = Idle /\ mod' = NoModule /\ worker' = "none"
    /\ UNCHANGED <<dialect, compiles, dylibs>>

(* A commit to sf-dialect/ between two commands.                           *)
CommitDialect ==
    /\ proc = Idle
    /\ dialect' \in Dialects \ {dialect}
    /\ UNCHANGED <<compiles, disk, dylibs, proc, mod, worker>>

Next ==
    \/ /\ \/ StartCompile \/ CompileMlir \/ SaveText \/ SaveConstants \/ SaveBin
          \/ SaveMetadata \/ RwkvPostHook
       /\ UNCHANGED dylibs
    \/ StartDylib \/ ReadArtifact \/ WriteConstantsBin \/ CheckFreshness \/ SfLowering
    \/ RunAction \/ SubmitPass \/ PassEnds \/ FutureResult \/ FutureTimeout \/ LeavePool
    \/ Link \/ Embed \/ Relink
    \/ Kill \/ CommitDialect

Spec == Init /\ [][Next]_vars

-----------------------------------------------------------------------------
(***************************************************************************)
(* A library that carries the SFA symbols has code, constants and symbols  *)
(* of one and the same compile_dylib run, although the run links from      *)
(* files it left in the directory, and earlier runs died between any two   *)
(* steps (compile_dylib.py main, _sfa_relink_dylib).                       *)
(***************************************************************************)
SymbolsMatchCode ==
    disk["dylib"] # None /\ disk["dylib"].abi # None =>
        /\ disk["dylib"].code.run = disk["dylib"].abi.run
        /\ disk["dylib"].bin.run = disk["dylib"].abi.run

(***************************************************************************)
(* Such a library is of one compile: text, metadata and constants come     *)
(* from the same one, unless the compile that wrote the text was cut short *)
(* (save_mlir_module_artifact's order of writes, and the constants.pth     *)
(* that a compile without constants leaves behind).                        *)
(***************************************************************************)
OneGeneration ==
    disk["dylib"] # None /\ disk["dylib"].abi # None =>
        LET t == disk["dylib"].abi
        IN  compiles[t.mlir].done =>
                /\ t.meta = t.mlir
                /\ t.consts = IF compiles[t.mlir].consts THEN t.mlir ELSE 0

(***************************************************************************)
(* A model whose compile recorded its dialect and ended is never lowered   *)
(* by another dialect, when git answered at both ends: the staleness check *)
(* cannot be fooled by the failed and killed commands in between           *)
(* (_check_sf_dialect_freshness, _rwkv_post_hook).                         *)
(***************************************************************************)
StaleIsRefused ==
    disk["dylib"] # None =>
        LET t == disk["dylib"].code
        IN  compiles[t.mlir].done /\ compiles[t.mlir].stamped /\ t.checked =>
                t.dialect = compiles[t.mlir].dialect

(***************************************************************************)
(* The module is linked only when every stage was applied to its end and   *)
(* no pass thread works on it any more: a stage that timed out, raised or  *)
(* was left with its thread running never reaches the linker (run_stages,  *)
(* Stage.run).                                                             *)
(***************************************************************************)
LinkedWhole ==
    /\ proc.pc = "link" =>
         /\ ~mod.torn
         /\ \A k \in DOMAIN STAGES : ~STAGES[k].warn_only => k \in mod.applied
    /\ worker = "running" => proc.pc \in {"wait", "join"}

(***************************************************************************)
(* What is linked computes what the function said before bufferization,    *)
(* for every function that meets what the BLAS rewrite relies on           *)
(* (insert_identity_copies_action, _lower_linalg_matmul_to_sfa_blas_action *)
(* with its matchers), and the descriptor of each of its buffers has every *)
(* field in its place, but for memrefs of index (_build_struct_chain).     *)
(***************************************************************************)
LoweringKeepsResults ==
    proc.pc = "link" =>
        /\ Relied(Bufferize(InsertIdentityCopies(mod.orig))) =>
              BlockResults(mod.body) = TensorResults(mod.orig)
        /\ \A v \in DOMAIN mod.body.ty :
              LET t == mod.body.ty[v]
              IN  t.elt # "index" => Descriptor(t.rank, t.elt) = MemrefFields(t.rank)
=============================================================================

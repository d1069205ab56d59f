------------------------------ MODULE SqModules ------------------------------
(***************************************************************************)
(* The module manager (sqmodules/sqmodules.cpp): which script is loaded,   *)
(* which one is being executed, and what survives a reload.  A script is   *)
(* any sequence of the operations the manager offers it: require() of a    *)
(* file, inside a try or not, import statements, persist(),                *)
(* on_module_unload(), an error, and its end.  The host loads a module,    *)
(* reloads one, reloads all, and closes the manager.                       *)
(*                                                                         *)
(* requireModule is not one step: it calls the compiler, which loads the   *)
(* imported modules, and then the script, which loads others.  The C++     *)
(* activations in progress are the stack acts; what a finished one returns *)
(* is in ret until its caller goes on.  A run of a script is numbered: its *)
(* number names the table of persisted values it created, its closure, and *)
(* the handler it registered.                                              *)
(***************************************************************************)
EXTENDS Integers, Sequences, FiniteSets, SequencesExt

CONSTANTS Files,            \* resolved file names
          Volatile,         \* files that may be missing
          MaxRuns,          \* bound: scripts compiled in a behaviour
          MaxReloads,       \* bound: reloads in a behaviour
          MaxDepth,         \* bound: activations in progress
          HandlersRegister  \* whether a handler may load a module that
                            \* registers a handler

ASSUME FilesAssumption == Volatile \subseteq Files /\ IsFiniteSet(Files)
ASSUME BoundsAssumption == {MaxRuns, MaxReloads, MaxDepth} \subseteq Nat
ASSUME HandlersAssumption == HandlersRegister \in BOOLEAN

Runs == 1..MaxRuns

VARIABLES files,          \* the files on disk
          modules,        \* records of the modules loaded since the last reload
          prevModules,    \* those of the generation being replaced
          runningScripts, \* names of the scripts whose imports or body run
          onModuleUnload, \* the registered handlers
          storage,        \* table of persisted values -> the value of its key
          acts,           \* activations of the manager, the innermost last
          ret,            \* what the last finished activation returned
          runs,           \* scripts compiled so far
          reloads,        \* reloads so far, MaxReloads + 1 once closed
          called,         \* handlers called by the reload or close in progress
          dropped,        \* handlers cleared without having been called
          last,           \* the last reload: what was loaded, what it returned
          kept            \* file -> the value its last recorded run had persisted

disk == <<files, storage>>
lists == <<modules, prevModules, onModuleUnload>>
ghosts == <<called, dropped, last, kept>>
vars == <<disk, lists, runningScripts, acts, ret, runs, reloads, ghosts>>

Module == [fn: Files, store: Runs]
Script == [op: {"require"}, fn: Files, run: Runs, store: Runs,
           stage: {"compile", "import", "body"}]
Handler == [op: {"handler"}, run: Runs]
\* A reload, or the closing of the manager.
Loop == [op: {"reload", "close"}, stage: {"handlers", "load"}, i: Nat, n: Nat,
         todo: Seq(Files), must: BOOLEAN, ok: BOOLEAN]

Top == acts[Len(acts)]
Idle == acts = <<>>
At(op) == ~Idle /\ Top.op = op
AtStage(op, s) == At(op) /\ Top.stage = s
Going == ret = "none"            \* the innermost activation is not waiting

Init == /\ files = Files
        /\ modules = <<>> /\ prevModules = <<>> /\ onModuleUnload = <<>>
        /\ storage = [r \in Runs |-> 0]
        /\ runningScripts = <<>>
        /\ acts = <<>> /\ ret = "none"
        /\ runs = 0 /\ reloads = 0
        /\ called = <<>> /\ dropped = {}
        /\ last = [loaded |-> <<>>, all |-> FALSE, ok |-> FALSE]
        /\ kept = [f \in Files |-> 0]

\* findModule: the record of a file, if it is loaded.
Found(list, f) == \E k \in DOMAIN list : list[k].fn = f

\* setupStateStorage: the table of the file's record in the generation being
\* replaced, or a new one.
setupStateStorage_Bug(f) == runs + 1
setupStateStorage(f) ==
    IF Found(prevModules, f)
      THEN prevModules[CHOOSE k \in DOMAIN prevModules : prevModules[k].fn = f].store
      ELSE runs + 1

\* checkCircularReferences
checkCircularReferences_Bug(f) ==
    \A k \in {Len(runningScripts)} \ {0} : runningScripts[k] # f
checkCircularReferences(f) == \A k \in DOMAIN runningScripts : runningScripts[k] # f

Push(a) == acts' = Append(acts, a)
Put(a)  == acts' = [acts EXCEPT ![Len(acts)] = a]
Finish(r) == /\ acts' = Front(acts)
             /\ ret' = IF Len(acts) = 1 THEN "none" ELSE r

(***************************************************************************)
(* requireModule up to the call of the compiler.  stay is the stack of     *)
(* activations as the caller leaves it.  A file that is being executed, a  *)
(* module the host's callback forbids and a missing file that must exist   *)
(* fail; a loaded module and a missing file that need not exist succeed at *)
(* once; every other file is read and its compilation starts.              *)
(***************************************************************************)
Answer(r, stay) == /\ ret' = IF stay = <<>> THEN "none" ELSE r
                   /\ acts' = stay
                   /\ UNCHANGED runs

Compile(f, stay) ==
    /\ runs < MaxRuns
    /\ runs' = runs + 1
    /\ acts' = Append(stay, [op |-> "require", fn |-> f, run |-> runs + 1,
                             store |-> setupStateStorage(f), stage |-> "compile"])
    /\ ret' = "none"

requireModule(f, mustExist, stay) ==
    /\ Len(stay) < MaxDepth
    /\ UNCHANGED <<disk, lists, runningScripts, reloads, ghosts>>
    /\ \/ ~checkCircularReferences(f) /\ Answer("fail", stay)
       \/ /\ checkCircularReferences(f)
          /\ \/ Answer("fail", stay)                      \* forbidden by the host
             \/ Found(modules, f) /\ Answer("ok", stay)
             \/ /\ ~Found(modules, f) /\ f \notin files
                /\ Answer(IF mustExist THEN "fail" ELSE "ok", stay)
             \/ ~Found(modules, f) /\ f \in files /\ Compile(f, stay)

-----------------------------------------------------------------------------
(***************************************************************************)
(* compileScriptImpl and importModules                                     *)
(***************************************************************************)
Unchanged(rest) == UNCHANGED <<rest, disk, lists, runs, reloads, ghosts>>

\* The text does not parse, or it has no imports and cannot be translated.
CompileFails ==
    /\ AtStage("require", "compile")
    /\ Finish("fail")
    /\ Unchanged(runningScripts)

\* The parsed script has imports: the importing file is on runningScripts while
\* they are loaded.
ImportsBegin ==
    /\ AtStage("require", "compile")
    /\ runningScripts' = Append(runningScripts, Top.fn)
    /\ Put([Top EXCEPT !.stage = "import"])
    /\ Unchanged(ret)

Import(f) ==
    /\ AtStage("require", "import") /\ Going
    /\ requireModule(f, TRUE, acts)

ImportAnswered ==
    /\ AtStage("require", "import") /\ ret = "ok"
    /\ ret' = "none"
    /\ Unchanged(<<runningScripts, acts>>)

\* The module cannot be loaded, or (after "ok") its exports cannot be merged
\* into the bindings.
ImportFails_Bug ==
    /\ AtStage("require", "import") /\ ~Going
    /\ Finish("fail")
    /\ Unchanged(runningScripts)

ImportFails ==
    /\ AtStage("require", "import") /\ ~Going
    /\ runningScripts' = Front(runningScripts)
    /\ Finish("fail")
    /\ Unchanged(<<>>)

\* The script is translated and called.
BodyBegins ==
    /\ Put([Top EXCEPT !.stage = "body"])
    /\ Unchanged(ret)

NoImports ==
    /\ AtStage("require", "compile")
    /\ runningScripts' = Append(runningScripts, Top.fn)
    /\ BodyBegins

ImportsDone ==
    /\ AtStage("require", "import") /\ Going
    /\ runningScripts' = Append(Front(runningScripts), Top.fn)
    /\ BodyBegins

TranslateFails ==
    /\ AtStage("require", "import") /\ Going
    /\ runningScripts' = Front(runningScripts)
    /\ Finish("fail")
    /\ Unchanged(<<>>)

-----------------------------------------------------------------------------
(***************************************************************************)
(* What a script does while it runs: its module body, or a handler.        *)
(***************************************************************************)
Running == AtStage("require", "body") \/ At("handler")

\* sqRequire: require(f) and require_optional(f).
sqRequire(f, mustExist) ==
    /\ Running /\ Going
    /\ requireModule(f, mustExist, acts)

\* The module's exports are returned to the script, or its error is caught.
GoesOn ==
    /\ Running /\ ~Going
    /\ ret' = "none"
    /\ Unchanged(<<runningScripts, acts>>)

\* An error the script does not catch, its own or that of a require: the
\* name is popped and nothing is recorded.
BodyFails ==
    /\ AtStage("require", "body") /\ ret \in {"none", "fail"}
    /\ runningScripts' = Front(runningScripts)
    /\ Finish("fail")
    /\ Unchanged(<<>>)

\* The script ends: the module is recorded.
BodyReturns ==
    /\ AtStage("require", "body") /\ Going
    /\ modules' = Append(modules, [fn |-> Top.fn, store |-> Top.store])
    /\ kept' = [kept EXCEPT ![Top.fn] = storage[Top.store]]
    /\ runningScripts' = Front(runningScripts)
    /\ Finish("ok")
    /\ UNCHANGED <<disk, prevModules, onModuleUnload, runs, reloads, called, dropped, last>>

\* persist_state: the first call for a key stores what the initializer
\* returns, unless it fails or returns something that is not mutable.
persist_state ==
    /\ AtStage("require", "body") /\ Going
    /\ storage' = IF storage[Top.store] # 0 THEN storage
                  ELSE [storage EXCEPT ![Top.store] = Top.run]
    /\ UNCHANGED <<files, lists, runningScripts, acts, ret, runs, reloads, ghosts>>

HandlerRuns == \E k \in DOMAIN acts : acts[k].op = "handler"

\* register_on_module_unload: a function is kept once.
register_on_module_unload ==
    /\ AtStage("require", "body") /\ Going
    /\ HandlerRuns => HandlersRegister
    /\ onModuleUnload' = IF Contains(onModuleUnload, Top.run) THEN onModuleUnload
                         ELSE Append(onModuleUnload, Top.run)
    /\ UNCHANGED <<disk, modules, prevModules, runningScripts, acts, ret, runs,
                   reloads, ghosts>>

-----------------------------------------------------------------------------
(***************************************************************************)
(* callAndClearUnloadHandlers: the functions registered when the loop      *)
(* began are called in order, then the list is cleared, with whatever the  *)
(* handlers added to it.  i of the activation counts the calls made, n     *)
(* those to make.  A push_back that moves the vector leaves the loop       *)
(* reading the storage it had: taken here as the elements it began with.   *)
(***************************************************************************)
CallHandler ==
    /\ (AtStage("reload", "handlers") \/ AtStage("close", "handlers")) /\ Top.i < Top.n
    /\ called' = Append(called, onModuleUnload[Top.i + 1])
    /\ acts' = Append([acts EXCEPT ![Len(acts)].i = Top.i + 1],
                      [op |-> "handler", run |-> onModuleUnload[Top.i + 1]])
    /\ UNCHANGED <<disk, lists, runningScripts, ret, runs, reloads, dropped, last, kept>>

\* A handler that fails is ignored.
HandlerReturns ==
    /\ At("handler")
    /\ Finish("none")
    /\ Unchanged(runningScripts)

ClearHandlers ==
    /\ Top.stage = "handlers" /\ Top.i = Top.n
    /\ dropped' = dropped \cup (ToSet(onModuleUnload) \ ToSet(called))
    /\ onModuleUnload' = <<>>
    /\ called' = <<>>

-----------------------------------------------------------------------------
(***************************************************************************)
(* The host: loads, reloads, and closes the manager when nothing runs.     *)
(***************************************************************************)
Open == Idle /\ reloads <= MaxReloads

HostRequire(f, mustExist) == Open /\ requireModule(f, mustExist, <<>>)

\* A file appears or disappears.
ChangeDisk(f) ==
    /\ Open
    /\ files' = IF f \in files THEN files \ {f} ELSE files \cup {f}
    /\ UNCHANGED <<storage, lists, runningScripts, acts, ret, runs, reloads, ghosts>>

\* The loaded modules become those to replace; handlers are called first.
Begin(op, todo, must) ==
    /\ prevModules' = modules
    /\ modules' = <<>>
    /\ acts' = <<[op |-> op, stage |-> "handlers", i |-> 0, n |-> Len(onModuleUnload),
                  todo |-> todo, must |-> must, ok |-> TRUE]>>
    /\ UNCHANGED <<disk, onModuleUnload, runningScripts, ret, runs, called, dropped, kept>>

reloadModule(f, mustExist) ==
    /\ Open /\ reloads < MaxReloads
    /\ reloads' = reloads + 1
    /\ Begin("reload", <<f>>, mustExist)
    /\ last' = [loaded |-> modules, all |-> FALSE, ok |-> FALSE]

reloadAll_Bug ==
    /\ Open /\ reloads < MaxReloads
    /\ reloads' = reloads + 1
    /\ Begin("reload", [k \in DOMAIN modules |-> modules[k].fn], FALSE)
    /\ last' = [loaded |-> modules, all |-> TRUE, ok |-> FALSE]

reloadAll ==
    /\ Open /\ reloads < MaxReloads
    /\ reloads' = reloads + 1
    /\ Begin("reload", [k \in DOMAIN modules |-> modules[k].fn], TRUE)
    /\ last' = [loaded |-> modules, all |-> TRUE, ok |-> FALSE]

HandlersDone ==
    /\ At("reload") /\ ClearHandlers
    /\ Put([Top EXCEPT !.stage = "load"])
    /\ UNCHANGED <<disk, modules, prevModules, runningScripts, ret, runs, reloads,
                   last, kept>>

ReloadRequires ==
    /\ AtStage("reload", "load") /\ Going /\ Top.todo # <<>>
    /\ requireModule(Head(Top.todo), Top.must, <<[Top EXCEPT !.todo = Tail(@)]>>)

ReloadAnswered ==
    /\ AtStage("reload", "load") /\ ~Going
    /\ Put([Top EXCEPT !.ok = @ /\ ret = "ok"])
    /\ ret' = "none"
    /\ Unchanged(runningScripts)

ReloadEnds ==
    /\ AtStage("reload", "load") /\ Going /\ Top.todo = <<>>
    /\ prevModules' = <<>>
    /\ last' = [last EXCEPT !.ok = Top.ok]
    /\ Finish("none")
    /\ UNCHANGED <<disk, modules, onModuleUnload, runningScripts, runs, reloads,
                   called, dropped, kept>>

\* ~SqModules
Close ==
    /\ Open
    /\ reloads' = MaxReloads + 1
    /\ Begin("close", <<>>, FALSE)
    /\ UNCHANGED last

Closed ==
    /\ At("close") /\ ClearHandlers
    /\ prevModules' = <<>>
    /\ modules' = <<>>
    /\ Finish("none")
    /\ UNCHANGED <<disk, runningScripts, runs, reloads, last, kept>>

Next ==
    \/ \E f \in Files : \/ Import(f)
                        \/ \E must \in BOOLEAN : \/ sqRequire(f, must)
                                                  \/ HostRequire(f, must)
                                                  \/ reloadModule(f, must)
    \/ \E f \in Volatile : ChangeDisk(f)
    \/ CompileFails \/ ImportsBegin \/ ImportAnswered \/ ImportFails
    \/ NoImports \/ ImportsDone \/ TranslateFails
    \/ GoesOn \/ BodyFails \/ BodyReturns \/ persist_state
    \/ register_on_module_unload \/ CallHandler \/ HandlerReturns
    \/ reloadAll \/ HandlersDone \/ ReloadRequires \/ ReloadAnswered \/ ReloadEnds
    \/ Close \/ Closed

Spec == Init /\ [][Next]_vars

-----------------------------------------------------------------------------
(***************************************************************************)
(* Properties                                                              *)
(***************************************************************************)
\* The variables hold what their declarations say, through every activation.
TypeOK ==
    /\ files \subseteq Files /\ storage \in [Runs -> 0..MaxRuns]
    /\ modules \in Seq(Module) /\ prevModules \in Seq(Module)
    /\ runningScripts \in Seq(Files) /\ onModuleUnload \in Seq(Runs)
    /\ acts \in Seq(Script \cup Handler \cup Loop)
    /\ ret \in {"none", "ok", "fail"}
    /\ runs \in 0..MaxRuns /\ reloads \in 0..MaxReloads + 1
    /\ called \in Seq(Runs) /\ dropped \subseteq Runs
    /\ last \in [loaded: Seq(Module), all: BOOLEAN, ok: BOOLEAN]
    /\ kept \in [Files -> 0..MaxRuns]

Executing ==
    {k \in DOMAIN acts : acts[k].op = "require" /\ acts[k].stage # "compile"}

\* Whatever fails (a parse, an import, a merge, the script), the names in
\* runningScripts are those of the scripts whose imports or body are in
\* progress, in order: the circularity test and the resolution of relative
\* names read this list.
RunningStack ==
    \E m \in 0..Len(acts) :
      /\ Executing = m + 1..m + Len(runningScripts)
      /\ \A k \in DOMAIN runningScripts : runningScripts[k] = acts[m + k].fn

\* A file is loaded at most once between two reloads, and a script that is being
\* executed is neither loaded nor executed a second time, whatever modules
\* require each other, in whatever order, inside handlers and reloads.
LoadedOnce == IsInjective([k \in DOMAIN modules |-> modules[k].fn] \o runningScripts)

\* During a reload a file that was loaded is given the persisted values it had,
\* by every run of it, the ones after a failed run included.
StorageReused ==
    \A p \in ToSet(prevModules) :
      /\ \A m \in ToSet(modules) : m.fn = p.fn => m.store = p.store
      /\ \A x \in ToSet(acts) : x.op = "require" /\ x.fn = p.fn => x.store = p.store

\* A reload calls each registered handler once and forgets none.
HandlersOnce == IsInjective(called) /\ dropped = {}

\* When reloadAll reports success every module that was loaded is loaded again.
AllReloaded ==
    Open /\ last.all /\ last.ok =>
      \A m \in ToSet(last.loaded) : Found(modules, m.fn)

\* What a reload promises.
ReloadComplete == HandlersOnce /\ AllReloaded

\* "Also it stores a reference to the result in a special table that is later
\* reused when the file with the same name is executed": a script that was
\* loaded with a persisted value finds that value when it is executed again.
PersistKept ==
    \A x \in ToSet(acts) :
      x.op = "require" /\ kept[x.fn] # 0 => storage[x.store] \in {0, kept[x.fn]}

=============================================================================

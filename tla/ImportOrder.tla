----------------------------- MODULE ImportOrder -----------------------------
(***************************************************************************)
(* Does a cycle of imports break? The restricted model of                  *)
(* cycle_semantics (package_model, initialization_model, scenarios) runs   *)
(* the imports of a closed set of modules, once from every module of a     *)
(* cycle, without running their code. Beside it runs what CPython does     *)
(* with the same statements.                                               *)
(*                                                                         *)
(* A module is the sequence of its names: <<"p", "b">> is p.b. A source is *)
(* a sequence of statements; blocks are one level deep.                    *)
(***************************************************************************)
EXTENDS ImportSyntax, Naturals, FiniteSets, SequencesExt

CONSTANTS
    ImportProgram,   \* the programs: a source for each of some modules
    Package,         \* the modules that are packages
    Cyclic(_)        \* the members of the cycle of a program, in order

VARIABLES
    program,   \* the program
    entry,     \* the module imported first in a fresh interpreter, or none
    todo,      \* members that were not entry yet
    compiled,  \* steps kept for the whole cycle (_PackageSourceSession)
    model,     \* the interpreter of the restricted model
    python,    \* CPython
    verdicts   \* the outcomes of both for each entry

orderVars == <<program, entry, todo, compiled, model, python, verdicts>>

NoEntry == <<>>
Sourced == DOMAIN program

Object(kind, module, name) == [kind |-> kind, module |-> module, name |-> name, body |-> <<>>]
ModuleObject(m) == Object("module", m, "")
Constant == Object("value", <<>>, "")

Outcome(kind, by, target, symbol) ==
    [kind |-> kind, by |-> by, target |-> target, symbol |-> symbol]
Running == Outcome("running", <<>>, <<>>, "")

Chain(m) == [i \in 1 .. Len(m) |-> SubSeq(m, 1, i)]
Child(m, name) == Append(m, name)
Children(m) == {c \in Sourced : Len(c) = Len(m) + 1 /\ SubSeq(c, 1, Len(m)) = m}
Bound(f, name, value) == (name :> value) @@ f

-----------------------------------------------------------------------------
(* Compilation of a source to steps, or the finding that it is beyond the  *)
(* model.                                                                  *)
Flat == \A m \in Sourced : Len(m) = 1

InClass == {"import", "from", "bind", "pass"}
InBlock == {"import", "from", "bind", "alias", "attr", "call", "pass"}
Branch(s) == IF s.symbol = "true" THEN s.body ELSE s.orelse

Supported(s) ==
    IF Flat THEN s.op \in {"import", "from", "bind", "attr", "pass"}
    ELSE /\ s.op # "other"
         /\ s.op = "class" => \A i \in DOMAIN s.body : s.body[i].op \in InClass
         /\ s.op = "if" => \A i \in DOMAIN Branch(s) : Branch(s)[i].op \in InBlock

Each(s) == [i \in DOMAIN s.members |-> [s EXCEPT !.members = <<s.members[i]>>]]
Local(steps) == [i \in DOMAIN steps |-> [steps[i] EXCEPT !.local = TRUE]]

(* A from-import of several names first loads every child it may name.     *)
PlainSteps(s) ==
    IF s.op # "from" THEN <<s>>
    ELSE (IF Len(s.members) = 1 \/ Flat THEN <<>>
          ELSE [i \in DOMAIN s.members |-> [Each(s)[i] EXCEPT !.op = "prepare"]])
         \o Each(s)

BlockSteps(block) == FlattenSeq([i \in DOMAIN block |-> PlainSteps(block[i])])

Callable(s) == \A i \in DOMAIN s.body : s.body[i].op \in {"import", "from", "pass"}

Steps(s) ==
    CASE s.op = "class" -> Local(BlockSteps(s.body)) \o <<[s EXCEPT !.body = <<>>]>>
      [] s.op = "if" -> BlockSteps(Branch(s))
      [] s.op = "def" -> IF Callable(s) THEN <<[s EXCEPT !.body = Local(BlockSteps(@))]>>
                         ELSE <<[s EXCEPT !.op = "opaque"]>>
      [] OTHER -> PlainSteps(s)

Compile(source) == FlattenSeq([i \in DOMAIN source |-> Steps(source[i])])

(* A package that binds the name of one of its modules is understood only  *)
(* when it does nothing else.                                              *)
Understood(m) ==
    LET steps == compiled[m]
        names == {Last(c) : c \in Children(m)}
        Writes(s) == s.name \in names /\ s.op \in {"bind", "alias"}
        Takes(s) == s.op = "from" /\ s.members[1].name \in names /\ s.target # m
        Does(s) == s.op \in {"import", "from", "call"}
    IN  /\ \A i \in DOMAIN steps : steps[i].op \in {"def", "opaque", "class"} => steps[i].name \notin names
        /\ (\E i \in DOMAIN steps : Writes(steps[i]) \/ Takes(steps[i])) =>
              ~ \E i \in DOMAIN steps : Does(steps[i])

Evaluable ==
    /\ \A m \in Sourced : \A i \in DOMAIN program[m] : Supported(program[m][i])
    /\ \A m \in Sourced \cap Package : Understood(m)

-----------------------------------------------------------------------------
(* Both start with one frame that imports the entry.                       *)
Frame(m, code, loads) == [module |-> m, code |-> code, at |-> 1, loads |-> loads]
Boot(m) == <<Frame(<<>>, <<Import(m, "")>>, FALSE)>>

NewModel(m) ==
    [frames |-> Boot(m), states |-> [n \in Sourced |-> "NEW"], names |-> [n \in Sourced |-> <<>>],
     defs |-> [n \in Sourced |-> <<>>], outcome |-> Running]

NewPython(m) ==
    [frames |-> Boot(m), states |-> [n \in Sourced |-> "NEW"], names |-> [n \in Sourced |-> <<>>],
     outcome |-> Running]

OrderInit ==
    /\ program \in ImportProgram
    /\ todo = Cyclic(program)
    /\ entry = NoEntry /\ verdicts = <<>>
    /\ compiled = [m \in Sourced |-> Compile(program[m])]
    /\ model = NewModel(<<>>) /\ python = NewPython(<<>>)

Top(r) == Last(r.frames)
Statement(r) == Top(r).code[Top(r).at]
Goes(r) == entry # NoEntry /\ r.outcome = Running
AtEnd(r) == Top(r).at > Len(Top(r).code)
Does(r, ops) == Goes(r) /\ ~AtEnd(r) /\ Statement(r).op \in ops

(* What happens to an interpreter r, of the model or of Python.            *)
Next1(r) == [r EXCEPT !.frames[Len(r.frames)].at = @ + 1]
Bind(r, name, value) ==
    IF Statement(r).local \/ Top(r).module = <<>> THEN Next1(r)
    ELSE [Next1(r) EXCEPT !.names[Top(r).module] = Bound(@, name, value)]
Load(r, m, code) ==
    [r EXCEPT !.states[m] = "INITIALIZING", !.frames = Append(@, Frame(m, code, TRUE))]
Stop(r, kind, target, symbol) ==
    [r EXCEPT !.outcome = Outcome(kind, Top(r).module, target, symbol)]

(* A module is done: it is an attribute of its package from now on.        *)
Finish(r) ==
    LET m == Top(r).module
        done == [r EXCEPT !.frames = Front(@)]
    IN  IF m = <<>> THEN [r EXCEPT !.outcome = Outcome("MODEL_PASS", <<>>, <<>>, "")]
        ELSE IF ~Top(r).loads THEN done
        ELSE IF Len(m) = 1 THEN [done EXCEPT !.states[m] = "READY"]
        ELSE [done EXCEPT !.states[m] = "READY",
                          !.names[Front(m)] = Bound(@, Last(m), ModuleObject(m))]

(* The first of the packages above target, and target, that is not loaded. *)
Unloaded(r, target) ==
    LET i == SelectInSeq(Chain(target), LAMBDA m : r.states[m] = "NEW")
    IN  IF i = 0 THEN NoEntry ELSE Chain(target)[i]

-----------------------------------------------------------------------------
(* The restricted model (evaluate_package_import_order).                   *)

(* Steps are kept for the cycle, a run works on its own copy.              *)
Code(m) == compiled[m]

Begin ==
    /\ entry = NoEntry /\ todo # <<>>
    /\ entry' = Head(todo) /\ todo' = Tail(todo)
    /\ model' = IF Evaluable THEN NewModel(entry')
                ELSE [NewModel(entry') EXCEPT !.outcome = Outcome("UNKNOWN", <<>>, <<>>, "")]
    /\ python' = NewPython(entry')
    /\ UNCHANGED <<program, compiled, verdicts>>

Models(next) == model' = next /\ UNCHANGED <<program, entry, todo, compiled, python, verdicts>>

ModuleReady == Goes(model) /\ AtEnd(model) /\ Models(Finish(model))

Target == Statement(model).target
Symbol == Statement(model).members[1].symbol
Known == Target \in Sourced
Loaded == Known /\ Unloaded(model, Target) = NoEntry
Active(m) == \E i \in DOMAIN model.frames : model.frames[i].module = m

UnknownTarget ==
    /\ Does(model, {"import", "from", "prepare"}) /\ ~Known
    /\ Models(Stop(model, "UNKNOWN", Target, ""))

StartImport ==
    /\ Does(model, {"import", "from", "prepare"}) /\ Known /\ ~Loaded
    /\ \E m \in {Unloaded(model, Target)} : Models(Load(model, m, Code(m)))

BindImport ==
    /\ Does(model, {"import"}) /\ Loaded
    /\ LET s == Statement(model)
       IN  Models(IF s.name = "" THEN Bind(model, Head(Target), ModuleObject(<<Head(Target)>>))
                  ELSE IF /\ Len(Target) > 1
                          /\ \/ Last(Target) \notin DOMAIN model.names[Front(Target)]
                             \/ model.names[Front(Target)][Last(Target)] # ModuleObject(Target)
                       THEN Stop(model, "UNKNOWN", Target, Last(Target))
                  ELSE Bind(model, s.name, ModuleObject(Target)))

(* Mutant of NamesChild: the module comes first.                           *)
NamesChildFirst == Target \in Package /\ Child(Target, Symbol) \in Sourced

(* A package attribute comes before the module of that name.               *)
NamesChild ==
    /\ Target \in Package /\ Symbol \notin DOMAIN model.names[Target]
    /\ Child(Target, Symbol) \in Sourced

LoadChild ==
    /\ Does(model, {"from", "prepare"}) /\ Loaded /\ NamesChild
    /\ \E c \in {Child(Target, Symbol)} :
          model.states[c] = "NEW" /\ Models(Load(model, c, Code(c)))

(* The child is being imported further up: it is found, though it is not   *)
(* an attribute of its package yet.                                        *)
FindChild ==
    /\ Does(model, {"from", "prepare"}) /\ Loaded /\ NamesChild
    /\ \E c \in {Child(Target, Symbol)} :
          /\ model.states[c] # "NEW"
          /\ Models(IF model.states[c] = "READY" \/ ~Active(c)
                    THEN Stop(model, "UNKNOWN", c, Symbol)
                    ELSE IF Statement(model).op = "prepare" THEN Next1(model)
                    ELSE Bind(model, Statement(model).members[1].name, ModuleObject(c)))

PrepareMember == Does(model, {"prepare"}) /\ Loaded /\ ~NamesChild /\ Models(Next1(model))

(* What a read of an attribute that is not there means.                    *)
Absence(m, whenReady) ==
    IF model.states[m] = "INITIALIZING" THEN "EARLY_BINDING_HAZARD" ELSE whenReady

FromMember ==
    /\ Does(model, {"from"}) /\ Loaded /\ ~NamesChild
    /\ Models(IF Symbol \notin DOMAIN model.names[Target]
              THEN Stop(model, Absence(Target, "MISSING_EXPORT"), Target, Symbol)
              ELSE Bind(model, Statement(model).members[1].name,
                        IF Flat THEN Constant ELSE model.names[Target][Symbol]))

DefineName ==
    /\ Does(model, {"def", "opaque", "class"})
    /\ LET s == Statement(model)
           defined == Bind(model, s.name, Object(s.op, Top(model).module, s.name))
       IN  Models(IF s.op = "def"
                  THEN [defined EXCEPT !.defs[Top(model).module] = Bound(@, s.name, s.body)]
                  ELSE defined)

(* The steps of the function are put after the call.                       *)
CallFunction ==
    /\ Does(model, {"call"})
    /\ LET m == Top(model).module
           f == Statement(model).of
       IN  Models(IF /\ f \in DOMAIN model.names[m] /\ f \in DOMAIN model.defs[m]
                     /\ model.names[m][f] = Object("def", m, f)
                  THEN [Next1(model) EXCEPT
                          !.frames[Len(model.frames)].code =
                              SubSeq(@, 1, Top(model).at) \o model.defs[m][f]
                                \o SubSeq(@, Top(model).at + 1, Len(@))]
                  ELSE Stop(model, "UNKNOWN", m, f))

BindName ==
    /\ Does(model, {"bind", "pass"})
    /\ Models(IF Statement(model).op = "pass" THEN Next1(model)
              ELSE Bind(model, Statement(model).name, Constant))

AliasName ==
    /\ Does(model, {"alias"})
    /\ LET m == Top(model).module
           s == Statement(model)
       IN  Models(IF s.of \in DOMAIN model.names[m] THEN Bind(model, s.name, model.names[m][s.of])
                  ELSE Stop(model, "UNKNOWN", m, s.of))

ReadAttribute ==
    /\ Does(model, {"attr"})
    /\ LET m == Top(model).module
           s == Statement(model)
       IN  Models(IF \/ s.of \notin DOMAIN model.names[m] \/ model.names[m][s.of].kind # "module"
                  THEN Stop(model, "UNKNOWN", m, s.of)
                  ELSE LET of == model.names[m][s.of].module
                       IN  IF s.symbol \in DOMAIN model.names[of]
                           THEN Bind(model, s.name,
                                     IF Flat THEN Constant ELSE model.names[of][s.symbol])
                           ELSE Stop(model, Absence(of, "MISSING_ATTRIBUTE"), of, s.symbol))

ModelStep ==
    \/ ModuleReady \/ UnknownTarget \/ StartImport \/ BindImport \/ LoadChild \/ FindChild
    \/ PrepareMember \/ FromMember \/ DefineName \/ CallFunction \/ BindName \/ AliasName
    \/ ReadAttribute

-----------------------------------------------------------------------------
(* CPython: import_name, _handle_fromlist and import_from.                 *)
Meaning(s) ==
    CASE s.op = "class" -> Local(s.body) \o <<[s EXCEPT !.body = <<>>]>>
      [] s.op = "if" -> Branch(s)
      [] OTHER -> <<s>>
Body(source) == FlattenSeq([i \in DOMAIN source |-> Meaning(source[i])])

(* The modules a statement needs, in the order they are looked for.        *)
Needs(s) ==
    Chain(s.target)
    \o IF s.op # "from" \/ s.target \notin Package THEN <<>>
       ELSE LET named == SelectSeq(s.members, LAMBDA e : Child(s.target, e.symbol) \in Sourced
                                     /\ e.symbol \notin DOMAIN python.names[s.target])
            IN  [i \in DOMAIN named |-> Child(s.target, named[i].symbol)]

(* An attribute of a module, or the module of that name if it was begun.   *)
Has(r, m, symbol) ==
    \/ symbol \in DOMAIN r.names[m]
    \/ Child(m, symbol) \in Sourced /\ r.states[Child(m, symbol)] # "NEW"
Taken(r, m, symbol) ==
    IF symbol \in DOMAIN r.names[m] THEN r.names[m][symbol] ELSE ModuleObject(Child(m, symbol))
Raise(r, m, symbol) == Stop(r, IF r.states[m] = "INITIALIZING" THEN "early" ELSE "missing", m, symbol)

TakeMember(r, e) ==
    LET s == Statement(r)
        m == Top(r).module
    IN  IF r.outcome # Running THEN r
        ELSE IF ~Has(r, s.target, e.symbol) THEN Raise(r, s.target, e.symbol)
        ELSE IF s.local THEN r
        ELSE [r EXCEPT !.names[m] = Bound(@, e.name, Taken(r, s.target, e.symbol))]

Imported(r) ==
    LET s == Statement(r)
    IN  IF s.name = "" THEN Bind(r, Head(s.target), ModuleObject(<<Head(s.target)>>))
        ELSE IF Len(s.target) = 1 THEN Bind(r, s.name, ModuleObject(s.target))
        ELSE IF Has(r, Front(s.target), Last(s.target))
             THEN Bind(r, s.name, Taken(r, Front(s.target), Last(s.target)))
        ELSE Raise(r, Front(s.target), Last(s.target))

Executed(r) ==
    LET s == Statement(r)
        m == Top(r).module
        need == SelectInSeq(Needs(s), LAMBDA n : r.states[n] = "NEW")
        taken == FoldLeft(TakeMember, r, s.members)
    IN  CASE s.op \in {"import", "from"} /\ need # 0 ->
               Load(r, Needs(s)[need], Body(program[Needs(s)[need]]))
          [] s.op = "import" /\ need = 0 -> Imported(r)
          [] s.op = "from" /\ need = 0 -> IF taken.outcome = Running THEN Next1(taken) ELSE taken
          [] s.op = "def" -> Bind(r, s.name, [Object("def", m, s.name) EXCEPT !.body = s.body])
          [] s.op = "class" -> Bind(r, s.name, Object("class", m, s.name))
          [] s.op = "bind" -> Bind(r, s.name, Constant)
          [] s.op = "alias" -> Bind(r, s.name, r.names[m][s.of])
          [] s.op = "attr" ->
               IF s.symbol \in DOMAIN r.names[r.names[m][s.of].module]
               THEN Bind(r, s.name, r.names[r.names[m][s.of].module][s.symbol])
               ELSE Raise(r, r.names[m][s.of].module, s.symbol)
          [] s.op = "call" ->
               [Next1(r) EXCEPT !.frames = Append(@, Frame(m, Local(r.names[m][s.of].body), FALSE))]
          [] OTHER -> Next1(r)

PythonStep ==
    /\ entry # NoEntry /\ model.outcome # Running /\ model.outcome.kind # "UNKNOWN"
    /\ python.outcome = Running
    /\ python' = IF AtEnd(python) THEN Finish(python) ELSE Executed(python)
    /\ UNCHANGED <<program, entry, todo, compiled, model, verdicts>>

EndEntry ==
    /\ entry # NoEntry /\ model.outcome # Running
    /\ model.outcome.kind = "UNKNOWN" \/ python.outcome # Running
    /\ verdicts' = Bound(verdicts, entry, [model |-> model.outcome, python |-> python.outcome])
    /\ entry' = NoEntry
    /\ model' = NewModel(<<>>) /\ python' = NewPython(<<>>)
    /\ UNCHANGED <<program, todo, compiled>>

OrderNext == Begin \/ ModelStep \/ PythonStep \/ EndEntry

OrderSpec == OrderInit /\ [][OrderNext]_orderVars

-----------------------------------------------------------------------------
(* What a cycle is called (analyze_cycle_scenarios).                       *)
Members == Range(Cyclic(program))

InternalHazard(v) ==
    /\ v.model.kind = "EARLY_BINDING_HAZARD"
    /\ v.model.by \in Members /\ v.model.target \in Members

Classification ==
    IF \E e \in DOMAIN verdicts : InternalHazard(verdicts[e]) THEN "MODEL_INTERNAL_EARLY_BINDING_HAZARD"
    ELSE IF \A e \in DOMAIN verdicts : verdicts[e].model.kind = "MODEL_PASS"
         THEN "MODEL_ALL_FRESH_MEMBER_ENTRIES_PASS"
    ELSE "INDETERMINATE"

(* The model's verdict about an entry is what Python does: nothing raises, *)
(* and every module has the names the model bound; or the same read in the *)
(* same module raises, because the module it reads is not done, or though  *)
(* it is (package_model.py, evaluate_package_import_order).                *)
ModelIsPython ==
    /\ entry # NoEntry /\ model.outcome # Running /\ python.outcome # Running =>
          LET p == python.outcome
              q == model.outcome
          IN  IF q.kind = "MODEL_PASS"
              THEN /\ p.kind = "MODEL_PASS" /\ python.states = model.states
                   /\ \A m \in Sourced :
                         /\ DOMAIN python.names[m] = DOMAIN model.names[m]
                         /\ Flat \/ \A n \in DOMAIN model.names[m] :
                               \/ model.names[m][n].kind \in {"def", "opaque", "class"}
                               \/ python.names[m][n] = model.names[m][n]
              ELSE /\ p.by = q.by /\ p.target = q.target /\ p.symbol = q.symbol
                   /\ (p.kind = "early") = (q.kind = "EARLY_BINDING_HAZARD")
    /\ entry = NoEntry /\ todo = <<>> /\ verdicts # <<>> =>
          /\ Classification = "MODEL_ALL_FRESH_MEMBER_ENTRIES_PASS" =>
                \A e \in DOMAIN verdicts : verdicts[e].python.kind = "MODEL_PASS"
          /\ Classification = "MODEL_INTERNAL_EARLY_BINDING_HAZARD" =>
                \E e \in DOMAIN verdicts : verdicts[e].python.kind = "early"
=============================================================================

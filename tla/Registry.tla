------------------------------ MODULE Registry ------------------------------
(***************************************************************************)
(* The languages (camisole.models, camisole.languages): what a class       *)
(* statement that subclasses LangDefinition does to the two registries of  *)
(* LangExecution.  The classes are numbered in the order of their          *)
(* statements, an executer has the number of the first class that has it.  *)
(***************************************************************************)
EXTENDS Naturals, Sequences

CONSTANTS
  Key,           \* names in lower case
  MaxClasses     \* bounds the number of class statements

ASSUME RegistryAssumption == MaxClasses \in Nat

VARIABLES
  classes,       \* the definitions, by their numbers
  definitions,   \* _definition_registry
  executers,     \* _registry
  df             \* the definition that an executer is bound to

registryVars == <<classes, definitions, executers, df>>

\* A name as it is written: its key, and whether that is the way it is written.
Names == [key : Key, lower : BOOLEAN]

\* parent 0 is LangDefinition, executer 0 is None; declared is the executer that
\* the class statement itself gives, if any.  A class may register = FALSE or
\* lack a binary.
Classes == [name : Names, parent : 0..MaxClasses, declared : 0..MaxClasses,
            executer : 0..MaxClasses, registered : BOOLEAN]

RegistryInit ==
  /\ classes = <<>>
  /\ definitions = <<>> /\ executers = <<>> /\ df = <<>>

SharedExecuter(class, executer) == IF executer = 0 THEN 1 ELSE executer

\* The executer attribute of a class after register_definition: its own or an
\* inherited one; only without any does it get a new one.
Executer(class, executer) == IF executer = 0 THEN class ELSE executer

\* f with f[x] = v, whether x was in its domain or not.
Put(f, x, v) == [y \in DOMAIN f \cup {x} |-> IF y = x THEN v ELSE f[y]]

PutNew(f, x, v) == IF x \in DOMAIN f THEN f ELSE Put(f, x, v)

EnterKeepsExecuter(class, key, executer) ==
  /\ definitions' = Put(definitions, key, class)
  /\ executers' = PutNew(executers, key, executer)
  /\ df' = Put(df, executer, class)

EnterUnlessTaken(class, key, executer) ==
  /\ definitions' = PutNew(definitions, key, class)
  /\ executers' = PutNew(executers, key, executer)
  /\ df' = Put(df, executer, class)

\* register_definition: later definitions replace earlier ones.
Enter(class, key, executer) ==
  /\ definitions' = Put(definitions, key, class)
  /\ executers' = Put(executers, key, executer)
  /\ df' = Put(df, executer, class)

\* The attribute as the class statement leaves it, and after the registration.
ExecuterOf(class, parent, declared, registered) ==
  LET inherited == IF declared # 0 THEN declared
                   ELSE IF parent = 0 THEN 0
                   ELSE classes[parent].executer
  IN  IF registered THEN Executer(class, inherited) ELSE inherited

\* LangDefinition.__init_subclass__
Define(name, parent, declared, registered) ==
  LET class == Len(classes) + 1
      executer == ExecuterOf(class, parent, declared, registered)
  IN  /\ class <= MaxClasses
      /\ classes' = Append(classes, [name |-> name, parent |-> parent, declared |-> declared,
                                     executer |-> executer, registered |-> registered])
      /\ IF registered THEN Enter(class, name.key, executer)
                       ELSE UNCHANGED <<definitions, executers, df>>

\* What a class statement may declare: nothing, an executer of its own, or one
\* that any other class has already.
Declarable == {0, Len(classes) + 1} \cup {classes[c].executer : c \in DOMAIN classes}

DefineSome ==
  \E name \in Names, parent \in 0..Len(classes), declared \in Declarable, registered \in BOOLEAN :
    Define(name, parent, declared, registered)

\* LangExecution.__init__ looks the name up as it is written.
Instantiates(name) == name.lower /\ name.key \in DOMAIN executers

-----------------------------------------------------------------------------
RegistryTypeOK ==
  /\ classes \in Seq(Classes) /\ Len(classes) <= MaxClasses
  /\ DOMAIN definitions \subseteq Key
  /\ \A key \in DOMAIN definitions : definitions[key] \in DOMAIN classes
  /\ DOMAIN df \subseteq 1..MaxClasses
  /\ \A e \in DOMAIN df : df[e] \in DOMAIN classes

(* models.py:155-200: the two registries never disagree: a registered name
   leads to the executer of the definition it leads to, which is bound to a
   definition with that same executer. *)
RegistriesAgree ==
  /\ DOMAIN executers = DOMAIN definitions
  /\ \A key \in DOMAIN definitions :
       LET executer == executers[key]
       IN  /\ executer = classes[definitions[key]].executer
           /\ executer \in DOMAIN df
           /\ executer = classes[df[executer]].executer

(* models.py:167-182, tests/test_language_registry.py:31-44: a name leads to
   the newest definition that was registered under it, in whatever case. *)
LookupIsNewest ==
  /\ \A c \in DOMAIN classes :
       LET key == classes[c].name.key
       IN  classes[c].registered => key \in DOMAIN definitions /\ definitions[key] >= c
  /\ \A key \in DOMAIN definitions :
       LET class == classes[definitions[key]] IN class.registered /\ class.name.key = key

\* Sets of classes that hold with each class the one it inherits from.
Families == {S \in SUBSET DOMAIN classes : \A c \in S : classes[c].parent \in S \cup {0}}

\* a is the class c itself or one that it inherits from, however indirectly.
Descends(c, a) == \A S \in Families : c \in S => a \in S

\* The class c has the executer e by right: it, or a class that it inherits
\* from, is the one e was made for, or declares it.
Has(c, e) == \E a \in DOMAIN classes : Descends(c, a) /\ e \in {a, classes[a].declared}

(* models.py:98, 184-200: what a name leads to and what its executer is bound to
   both have this executer by inheritance or because they declare it: nobody
   gets the executer of an unrelated language by registering, in whatever
   order the classes come and whichever of them do not register. *)
SharedByRight ==
  \A key \in DOMAIN definitions :
    LET e == executers[key]
    IN  Has(definitions[key], e) /\ Has(df[e], e)
=============================================================================

-------------------------- MODULE SolidityImports --------------------------
(***************************************************************************)
(* generateSolidityImport of solidity-imports.ts: the ABI of a contract is *)
(* turned into a Solidity file that declares its tuples as structs, an     *)
(* interface with its functions, events and errors, and a library.  The    *)
(* StructRegistry names the structs; this module follows it parameter by   *)
(* parameter, and component by component within a tuple, over ABIs that    *)
(* are not known beforehand.                                               *)
(*                                                                         *)
(* A parameter is a record of its name, its type, its internalType (of the *)
(* struct in its contract, or None) and its components, which a tuple has  *)
(* and a primitive has not.  Array suffixes are left out, and so are the   *)
(* characters that no identifier has.                                      *)
(*                                                                         *)
(* A definition named D_Fault is a faulty variant of D that no             *)
(* specification uses: put in the place of D, it shows which property      *)
(* would notice the fault.                                                 *)
(***************************************************************************)
EXTENDS Integers, Sequences, FiniteSets, SequencesExt, TLC

CONSTANTS
  Param,         \* the parameters that occur in the ABIs considered ...
  Part,          \* ... and those that are components of one of them
  StructName,    \* structNameFromInternalType: a name in Pascal case
  Context,       \* the fallback names of tuples, from the items they are in
  None,          \* no name, no internalType
  HelperName,    \* namesForLibrary: the names of the interface and the library
  ReservedIdentifier,
  MaxParams      \* the length of an ABI, in parameters

ASSUME ImportsAssumption ==
  /\ MaxParams \in Nat /\ Context \subseteq STRING
  /\ HelperName \subseteq STRING /\ IsFiniteSet(HelperName)
  /\ ReservedIdentifier \subseteq STRING /\ IsFiniteSet(ReservedIdentifier)
  /\ HelperName \cap ReservedIdentifier = {}
  /\ \A p \in Param \cup Part :
       p \in [name : STRING \cup {None}, type : STRING,
              internalType : DOMAIN StructName \cup {None}, components : Seq(Part)]
  /\ \A internalType \in DOMAIN StructName : StructName[internalType] \in STRING

VARIABLES
  generation,   \* "rendering", "done", or "error" after an exception
  definitions,  \* StructRegistry: the structs declared so far,
  namesByKey,   \*   the name of each tuple that has one,
  usedNames,    \*   and the names that are taken
  open,         \* the tuples whose fields are being typed, each in the one before
  signatures    \* the parameters rendered so far, with the type they got

importsVars == <<generation, definitions, namesByKey, usedNames, open, signatures>>

-----------------------------------------------------------------------------
(* Names. *)

\* A base is tried as it is, then with 2, 3, ... after a separator.
Numbered(base, separator, i) == IF i = 1 THEN base ELSE base \o separator \o ToString(i)
FirstFree(base, separator, used) ==
  LET taken == used \cup ReservedIdentifier
      Free  == {i \in 1..(Cardinality(taken) + 1) : Numbered(base, separator, i) \notin taken}
  IN  Numbered(base, separator, CHOOSE i \in Free : \A j \in Free : i <= j)

SafeIdentifier(name, fallback, used) ==
  LET base == IF name = None THEN fallback ELSE name
  IN  FirstFree(IF base \in ReservedIdentifier THEN base \o "_" ELSE base, "_", used)

UniqueStructName(base) == FirstFree(base, "", usedNames)

\* The key by which a tuple is recognised: its internalType and, recursively,
\* its components with their names, but not its own name.
TupleKey_ByInternalType(param) == param.internalType
TupleKey(param) == <<param.internalType, param.components>>

-----------------------------------------------------------------------------
(* Types. *)

Supported(param) == IF param.type = "tuple" THEN param.components # <<>>
                    ELSE param.components = <<>> /\ param.type # "function"

Known(param) == {pair \in namesByKey : pair.key = TupleKey(param)}

\* typeFor returns: the parameter is rendered, or the component is a field of
\* the innermost of the tuples.
Typed(tuples, param, type) ==
  IF tuples = <<>>
    THEN open' = tuples /\ signatures' = Append(signatures, [param |-> param, type |-> type])
    ELSE LET tuple == Last(tuples)
             used  == {field.name : field \in ToSet(tuple.fields)}
             name  == SafeIdentifier(param.name, "field" \o ToString(Len(tuple.fields)), used)
             field == [type |-> type, name |-> name]
         IN  /\ open' = Append(Front(tuples), [param |-> tuple.param, name |-> tuple.name,
                                               fields |-> Append(tuple.fields, field)])
             /\ UNCHANGED signatures

\* registerTuple up to its components; they follow, and then TupleDone.
RegisterTuple(param, fallback) ==
  /\ Known(param) = {}
  /\ LET base == IF param.internalType = None THEN fallback ELSE StructName[param.internalType]
         name == UniqueStructName(base)
     IN  /\ usedNames' = usedNames \cup {name}
         /\ namesByKey' = namesByKey \cup {[key |-> TupleKey(param), name |-> name]}
         /\ open' = Append(open, [param |-> param, name |-> name, fields |-> <<>>])
  /\ UNCHANGED <<definitions, signatures>>

TypeFor(param, fallback) ==
  /\ Supported(param)
  /\ IF param.type # "tuple" THEN
       Typed(open, param, param.type) /\ UNCHANGED <<definitions, namesByKey, usedNames>>
     ELSE
       \/ RegisterTuple(param, fallback)
       \/ \E pair \in Known(param) :
            Typed(open, param, pair.name) /\ UNCHANGED <<definitions, namesByKey, usedNames>>
  /\ UNCHANGED generation

-----------------------------------------------------------------------------
(* The items of an ABI, one parameter or component at a time. *)

RenderParam(param, context) ==
  /\ generation = "rendering" /\ open = <<>> /\ Len(signatures) < MaxParams
  /\ TypeFor(param, context)

\* The components of the innermost tuple that have no field yet.
Missing == SubSeq(Last(open).param.components, Len(Last(open).fields) + 1,
                  Len(Last(open).param.components))

RenderComponent ==
  /\ generation = "rendering" /\ open # <<>> /\ Missing # <<>>
  /\ TypeFor(Head(Missing), Last(open).name \o "Field" \o ToString(Len(Last(open).fields)))

TupleDone ==
  /\ generation = "rendering" /\ open # <<>> /\ Missing = <<>>
  /\ definitions' = Append(definitions, [name |-> Last(open).name, fields |-> Last(open).fields])
  /\ Typed(Front(open), Last(open).param, Last(open).name)
  /\ UNCHANGED <<generation, namesByKey, usedNames>>

\* An unsupported type or item, or an invalid name: no file is written.
RenderFails ==
  /\ generation = "rendering"
  /\ IF open = <<>> THEN Len(signatures) < MaxParams
                    ELSE Missing # <<>> /\ ~Supported(Head(Missing))
  /\ generation' = "error"
  /\ UNCHANGED <<definitions, namesByKey, usedNames, open, signatures>>

Generated ==
  /\ generation = "rendering" /\ open = <<>>
  /\ generation' = "done"
  /\ UNCHANGED <<definitions, namesByKey, usedNames, open, signatures>>

ImportsInit ==
  /\ generation = "rendering" /\ signatures = <<>> /\ open = <<>>
  /\ definitions = <<>> /\ namesByKey = {} /\ usedNames = HelperName

ImportsNext ==
  \/ \E param \in Param, context \in Context : RenderParam(param, context)
  \/ RenderComponent \/ TupleDone
  \/ RenderFails \/ Generated

ImportsSpec == ImportsInit /\ [][ImportsNext]_importsVars

-----------------------------------------------------------------------------
(* Properties. *)

\* A component's name is the field's, unless it has none or the name is
\* reserved or taken by a field before it.
KeepsItsName(d, k, component) ==
  component.name \in {None, d.fields[k].name} \cup ReservedIdentifier
                     \cup {d.fields[j].name : j \in 1..(k - 1)}

\* The types that have the meaning of a parameter, by the declarations.
Meanings ==
  LET M[param \in Param \cup Part] ==
        IF param.type # "tuple" THEN {param.type}
        ELSE {d.name : d \in {d \in ToSet(definitions) :
               /\ Len(d.fields) = Len(param.components)
               /\ \A k \in DOMAIN d.fields : /\ d.fields[k].type \in M[param.components[k]]
                                            /\ KeepsItsName(d, k, param.components[k])}}
  IN  M

\* Whatever tuples an ABI has, with equal struct names from different contracts,
\* without names, or named like a numbered name or like the interface, the
\* generated file declares no name twice, and every parameter has a type that
\* stands for what the ABI says, with its fields' names where they can be kept.
StructsMeanTheirTuples ==
  /\ \A k, l \in DOMAIN definitions : definitions[k].name = definitions[l].name => k = l
  /\ \A d \in ToSet(definitions) :
       /\ d.name \notin HelperName \cup ReservedIdentifier
       /\ \A k, l \in DOMAIN d.fields : d.fields[k].name = d.fields[l].name => k = l
  /\ open = <<>> => \A s \in ToSet(signatures) : s.type \in Meanings[s.param]
=============================================================================

---------------------------- MODULE ObjectMemory ----------------------------
(***************************************************************************)
(* The objects of the virtual machine: their fields, the hashed            *)
(* dictionaries, classes and the lookup of names and methods               *)
(* (ObjectMemory.cc, Objects.cc).                                          *)
(*                                                                         *)
(* The memory is the sequence of all objects made so far, each [isa,       *)
(* slots]; objects are never moved or reclaimed here.  A symbol is a value *)
(* of its own, <<"sym", name>>, since there is one object for each name.   *)
(* A dictionary's only slot is its table of buckets; a bucket is the       *)
(* sequence of its [key, value] pairs, the one in the table itself first   *)
(* and then the chain of links.                                            *)
(***************************************************************************)
EXTENDS Primitives, SequencesExt

CONSTANTS
    HashCode,       \* the hash code that each symbol was given (a function)
    GlobalBuckets,  \* buckets of the globals (53)
    MethodBuckets,  \* buckets of a method dictionary (20)
    SpaceBuckets    \* buckets of a namespace (5)

Symbol(name) == <<"sym", name>>

(* An object as allocated, its fields nil, and its reference.              *)
New(mem, isa, slots) == Append(mem, [isa |-> isa, slots |-> slots])
Newest(mem) == Oop(Len(mem))
Nils(n) == [i \in 1 .. n |-> Nil]

At(mem, o, i) == mem[o[2]].slots[i]
AtPut(mem, o, i, v) == [mem EXCEPT ![o[2]].slots[i] = v]

(* The objects that the virtual machine knows by static variables: true,   *)
(* false, the globals, Smalltalk, and the classes created by name.         *)
Globals == Oop(3)
Smalltalk == Oop(4)
KnownClasses == <<"Symbol", "Array", "ObjectClass", "Object", "Integer",
                  "String", "UndefinedObject", "True", "False", "Block",
                  "Process", "StackFrame", "Character", "Dictionary",
                  "SystemDictionary", "Method">>
Known(name) == Oop(4 + CHOOSE i \in DOMAIN KnownClasses : KnownClasses[i] = name)

ClassOf(mem, v) ==
    CASE v[1] = "smi" -> Known("Integer")
      [] v[1] = "nil" -> Known("UndefinedObject")
      [] v[1] = "sym" -> Known("Symbol")
      [] v[1] = "oop" -> mem[v[2]].isa
SetClass(mem, o, cls) == [mem EXCEPT ![o[2]].isa = cls]

(* The fields of the objects of the virtual machine, by index.             *)
Name == 1           SuperClass == 2         Methods == 3        NstSize == 4
NstVars == 5        Dictionary == 6         ClassSlots == 7
Bytecode == 1       Literal == 2            ArgumentCount == 3
TemporarySize == 4  HeapVarsSize == 5       StackSize == 6
Selector == 8       MethodClass == 9        MethodSlots == 10
Receiver == 8       ParentHeapVars == 9     HomeContext == 10
BlockSlots == 11
CacheSelector == 1  CacheClass == 2         CacheVersion == 3
CacheMethod == 4    CacheSlots == 5

-----------------------------------------------------------------------------
(* Dictionaries.  The bucket of a key is given by its hash code; insertion *)
(* replaces the value of the same symbol, or adds a link at the end; a     *)
(* lookup answers the first pair whose key has the same hash code.         *)
NewDictionary(mem, buckets) ==
    New(mem, Known("Dictionary"), << [i \in 1 .. buckets |-> <<>>] >>)

BucketOf(table, key) == (HashCode[key] % Len(table)) + 1

\* Mutation: what is in the bucket is overwritten.
bucketReplaced(bucket, key, value) == << [key |-> key, value |-> value] >>

BucketInsert(bucket, key, value) ==
    LET same == {i \in DOMAIN bucket : bucket[i].key = key}
        pair == [key |-> key, value |-> value]
    IN  IF same = {} THEN Append(bucket, pair)
        ELSE [bucket EXCEPT ![Min(same)] = pair]
BucketLookup(bucket, key) ==
    LET same == {i \in DOMAIN bucket : HashCode[bucket[i].key] = HashCode[key]}
    IN  IF same = {} THEN Nil ELSE bucket[Min(same)].value

TableInsert(table, key, value) ==
    [table EXCEPT ![BucketOf(table, key)] = BucketInsert(@, key, value)]
TableLookup(table, key) == BucketLookup(table[BucketOf(table, key)], key)

SymbolInsert(mem, dict, key, value) ==
    AtPut(mem, dict, 1, TableInsert(At(mem, dict, 1), key, value))
SymbolLookup(mem, dict, key) == TableLookup(At(mem, dict, 1), key)

-----------------------------------------------------------------------------
(* Classes.  The metaclass of a class is made when it has none.            *)
RawClass(mem) == New(mem, Nil, Nils(ClassSlots))

\* Mutation: the metaclass is not linked.
linkInstanceSideOnly(mem, cls, super) ==
    IF super # Nil THEN AtPut(mem, cls, SuperClass, super)
    ELSE AtPut(mem, ClassOf(mem, cls), SuperClass, cls)

SetupSuperclass(mem, cls, super) ==
    LET meta == ClassOf(mem, cls)
    IN  IF super # Nil
        THEN AtPut(AtPut(mem, meta, SuperClass, ClassOf(mem, super)),
                   cls, SuperClass, super)
        ELSE AtPut(mem, meta, SuperClass, cls)

SetupClass(mem, cls, super, name) ==
    LET withMeta == SetClass(New(mem, Known("ObjectClass"), Nils(ClassSlots)),
                             cls, Oop(Len(mem) + 1))
        m == IF ClassOf(mem, cls) = Nil THEN withMeta ELSE mem
    IN  SetupSuperclass(AtPut(m, cls, Name, Symbol(name)), cls, super)

(* findOrCreateClass: [mem, cls].                                          *)
FindOrCreateClass(mem, space, super, name) ==
    LET old == SymbolLookup(mem, space, name)
        fresh == RawClass(mem)
    IN  IF old # Nil
        THEN [mem |-> SetupClass(mem, old, super, name), cls |-> old]
        ELSE [mem |-> SetupClass(fresh, Newest(fresh), super, name),
              cls |-> Newest(fresh)]

AddMethod(mem, cls, method) ==
    LET made == NewDictionary(mem, MethodBuckets)
        m == IF At(mem, cls, Methods) # Nil THEN mem
             ELSE AtPut(made, cls, Methods, Newest(made))
    IN  AtPut(SymbolInsert(m, At(m, cls, Methods),
                           At(m, method, Selector)[2], method),
              method, MethodClass, cls)

(* lookupMethod, in each class in turn from cls on.  startCls is that of    *)
(* each call, so the search ends, without a method, at a class with no     *)
(* superclass or with itself; a chain of superclasses is no longer than    *)
(* there are objects.                                                      *)
Own(mem, cls, selector) ==
    LET dict == At(mem, cls, Methods)
    IN  IF dict = Nil THEN Nil ELSE SymbolLookup(mem, dict, selector)
IsTop(mem, cls) == At(mem, cls, SuperClass) \in {Nil, cls}

Lineage(mem, cls) ==
    LET nth[n \in 0 .. Len(mem)] ==
            IF n = 0 THEN cls
            ELSE IF IsTop(mem, nth[n - 1]) THEN nth[n - 1]
            ELSE At(mem, nth[n - 1], SuperClass)
    IN  nth

LookupMethod(mem, cls, selector) ==
    LET nth == Lineage(mem, cls)
        Ends(n) == Own(mem, nth[n], selector) # Nil \/ IsTop(mem, nth[n])
        last == CHOOSE n \in DOMAIN nth : Ends(n) /\ \A i \in 0 .. n - 1 : ~Ends(i)
    IN  Own(mem, nth[last], selector)

-----------------------------------------------------------------------------
(* Namespaces: [mem, space], made with a link to the space around.         *)
SubNamespace(mem, space, name) ==
    LET old == SymbolLookup(mem, space, name)
        made == NewDictionary(mem, SpaceBuckets)
        new == Newest(made)
    IN  IF old # Nil THEN [mem |-> mem, space |-> old]
        ELSE [mem |-> SymbolInsert(SymbolInsert(made, space, name, new),
                                   new, "Super", space),
              space |-> new]

-----------------------------------------------------------------------------
(* The memory that setupInitialObjects makes: raw classes, of which only   *)
(* Object has a metaclass, entered in the globals.                         *)
SetupInitialObjects ==
    LET object(isa) == [isa |-> isa, slots |-> <<>>]
        class(i) ==
            [isa |-> IF KnownClasses[i] \in {"Object", "ObjectClass"}
                     THEN Known("ObjectClass") ELSE Nil,
             slots |-> [Nils(ClassSlots) EXCEPT
                            ![Name] = Symbol(KnownClasses[i])]]
        bare == SetClass(
                    NewDictionary(<<object(Known("True")), object(Known("False"))>>,
                                  GlobalBuckets),
                    Globals, Known("SystemDictionary"))
                \o <<object(Nil)>>
                \o [i \in DOMAIN KnownClasses |-> class(i)]
    IN  FoldLeft(LAMBDA m, n : SymbolInsert(m, Globals, n, Known(n)),
                 bare, KnownClasses)
=============================================================================

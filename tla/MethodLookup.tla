---------------------------- MODULE MethodLookup ----------------------------
(***************************************************************************)
(* Message sends of the virtual machine: the method dictionaries of types, *)
(* the global lookup cache of type.c, the polymorphic inline caches of     *)
(* pic.c, and the definition of methods by Sysmel code, which changes a    *)
(* dictionary first and flushes the selector from the caches afterwards.   *)
(*                                                                         *)
(* One thread runs: the two sequence numbers of an inline cache are equal  *)
(* outside its operations, and what remains of them is the entry the next  *)
(* addition replaces.  Between the two steps of a definition Sysmel code   *)
(* runs, and sends.                                                        *)
(*                                                                         *)
(* Abstracted: the methods themselves.  A definition over a bootstrap      *)
(* primitive changes the function object in place, and the dictionaries,   *)
(* like the caches, go on naming the same one.  A type keeps the           *)
(* supertypes it is created with: nothing changes them once the type has   *)
(* instances to send messages to.                                          *)
(***************************************************************************)
EXTENDS Integers, Sequences, FiniteSetsExt

CONSTANTS
  Type,
  Lineage,            \* [Type -> a type and its supertypes, nearest first]
  Selector,
  doesNotUnderstand,  \* context->roots.doesNotUnderstandSelector
  Method,
  Primitive,          \* the methods that are bootstrap primitives
  Null,               \* the null tuple: no method, no type, no selector
  Site,               \* inline caches, one for each send that is compiled
  selectorOf,         \* [Site -> Selector]: the selector of that send
  EntryCount,         \* SYSBVM_PIC_ENTRY_COUNT
  CacheIndex(_, _)    \* computeLookupCacheEntryIndexFor

\* The null tuple is none of the objects that a slot may hold instead of it.
ASSUME NullAssumption ==
  /\ Null \notin Type \cup Selector \cup Method
  /\ Null \notin [Type -> [Selector -> Method \cup {Null}]]
  /\ Null \notin [type : Type, selector : Selector, existentMethod : Method \cup {Null}]
ASSUME LineageAssumption ==
  \A t \in Type : /\ Lineage[t] \in Seq(Type) /\ Lineage[t] # <<>>
                  /\ Lineage[t][1] = t
ASSUME SelectorAssumption ==
  /\ doesNotUnderstand \in Selector
  /\ selectorOf \in [Site -> Selector]
  /\ Primitive \subseteq Method
ASSUME CountAssumption == EntryCount \in Nat \ {0}

VARIABLES
  created,                  \* the types that exist
  methodDictionary,
  defining,                 \* withSelector:addMethod: under way, or Null
  globalMethodLookupCache,
  pic,                      \* [Site -> its entries and the next one to replace]
  answer                    \* the send just made and the method it ran, or Null

cacheVars == <<globalMethodLookupCache, pic>>
dictionaryVars == <<created, methodDictionary, defining>>
vars == <<dictionaryVars, cacheVars, answer>>

CacheEntry == {CacheIndex(t, s) : t \in Type, s \in Selector}
PicEntry == 0 .. EntryCount - 1
NoEntry == [type |-> Null, selector |-> Null, method |-> Null]
Entry(t, s, m) == [type |-> t, selector |-> s, method |-> m]
NoMethods == [s \in Selector |-> Null]

Init ==
  /\ created = {}
  /\ methodDictionary = [t \in Type |-> NoMethods]
  /\ defining = Null
  /\ globalMethodLookupCache = [i \in CacheEntry |-> NoEntry]
  /\ pic = [p \in Site |-> [entries |-> [i \in PicEntry |-> NoEntry], next |-> 1 % EntryCount]]
  /\ answer = Null

-----------------------------------------------------------------------------
(***************************************************************************)
(* Lookup.  A lookup has a result and leaves a global cache behind.        *)
(***************************************************************************)
lookupSelectorRecursively(t, s) ==
  LET Definers == {i \in DOMAIN Lineage[t] : methodDictionary[Lineage[t][i]][s] # Null}
  IN IF Definers = {} THEN Null ELSE methodDictionary[Lineage[t][Min(Definers)]][s]

IsCached(t, s) ==
  /\ globalMethodLookupCache[CacheIndex(t, s)].type = t
  /\ globalMethodLookupCache[CacheIndex(t, s)].selector = s

\* Mutant: an entry for the selector is taken whatever its type.
lookupSelector_anyType(t, s) ==
  IF globalMethodLookupCache[CacheIndex(t, s)].selector = s
  THEN globalMethodLookupCache[CacheIndex(t, s)].method
  ELSE lookupSelectorRecursively(t, s)

lookupSelector(t, s) ==
  IF IsCached(t, s)
  THEN globalMethodLookupCache[CacheIndex(t, s)].method
  ELSE lookupSelectorRecursively(t, s)

\* The global cache after the lookup of t and s.  Only methods that exist are cached.
CacheAfter(cache, t, s) ==
  LET method == lookupSelectorRecursively(t, s) IN
    IF IsCached(t, s) \/ method = Null
    THEN cache
    ELSE [cache EXCEPT ![CacheIndex(t, s)] = Entry(t, s, method)]

\* The entries of a site for a type.  The loop over them does not stop at the first:
\* the last one counts.
Matches(p, t) ==
  {i \in PicEntry : /\ pic[p].entries[i].type = t
                    /\ pic[p].entries[i].selector = selectorOf[p]}

\* Mutant: the sequence number is the index of the entry.
Added_notModulo(c, t, s, m) ==
  [entries |-> [c.entries EXCEPT ![c.next] = Entry(t, s, m)], next |-> c.next + 1]

\* An inline cache with a method added to it.
Added(c, t, s, m) ==
  [entries |-> [c.entries EXCEPT ![c.next] = Entry(t, s, m)],
   next |-> (c.next + 1) % EntryCount]

\* Mutant: a method is added to the inline cache whether it was found there or not.
lookupSelectorWithPIC_alwaysAdds(p, t, m) ==
  /\ m = IF Matches(p, t) # {} THEN pic[p].entries[Max(Matches(p, t))].method
         ELSE lookupSelector(t, selectorOf[p])
  /\ pic' = [pic EXCEPT ![p] = Added(@, t, selectorOf[p], m)]
  /\ globalMethodLookupCache' = IF Matches(p, t) # {} THEN globalMethodLookupCache
                                ELSE CacheAfter(globalMethodLookupCache, t, selectorOf[p])

\* m is what the lookup through the inline cache of p finds.  What it has to look up
\* it adds, the absence of a method included.
lookupSelectorWithPIC(p, t, m) ==
  IF Matches(p, t) # {}
  THEN /\ m = pic[p].entries[Max(Matches(p, t))].method
       /\ UNCHANGED cacheVars
  ELSE /\ m = lookupSelector(t, selectorOf[p])
       /\ pic' = [pic EXCEPT ![p] = Added(@, t, selectorOf[p], m)]
       /\ globalMethodLookupCache' =
            CacheAfter(globalMethodLookupCache, t, selectorOf[p])

-----------------------------------------------------------------------------
(***************************************************************************)
(* Sends.                                                                  *)
(***************************************************************************)
Answers(t, s, m) == answer' = [type |-> t, selector |-> s, method |-> m]

\* The interpreter of syntax trees looks up doesNotUnderstand: when there is no method.
astSend(t, s) ==
  LET method == lookupSelector(t, s) IN
    /\ t \in created
    /\ \/ /\ method # Null
          /\ Answers(t, s, method)
          /\ globalMethodLookupCache' = CacheAfter(globalMethodLookupCache, t, s)
       \/ /\ method = Null
          /\ Answers(t, s, lookupSelector(t, doesNotUnderstand))
          /\ globalMethodLookupCache' =
               CacheAfter(globalMethodLookupCache, t, doesNotUnderstand)
    /\ UNCHANGED <<dictionaryVars, pic>>

\* The interpreter of bytecodes looks the same selector up again.
bytecodeSend(t, s) ==
  /\ t \in created
  /\ Answers(t, s, lookupSelector(t, s))
  /\ globalMethodLookupCache' = CacheAfter(globalMethodLookupCache, t, s)
  /\ UNCHANGED <<dictionaryVars, pic>>

\* So does compiled code, and its second lookup goes round the inline cache.
compiledSend(p, t) ==
  LET s == selectorOf[p] IN
    /\ t \in created
    /\ \E m \in Method \cup {Null} :
         /\ lookupSelectorWithPIC(p, t, m)
         /\ Answers(t, s, IF m # Null \/ s = doesNotUnderstand THEN m
                          ELSE lookupSelector(t, s))
    /\ UNCHANGED dictionaryVars

-----------------------------------------------------------------------------
(***************************************************************************)
(* Definitions.                                                            *)
(***************************************************************************)
\* A class, or a type the virtual machine derives from another.  The methods it is
\* given while it is built are not flushed from any cache.
CreateType(t, methods) ==
  /\ t \notin created
  /\ \A i \in 2 .. Len(Lineage[t]) : Lineage[t][i] \in created
  /\ created' = created \cup {t}
  /\ methodDictionary' = [methodDictionary EXCEPT ![t] = methods]
  /\ answer' = Null
  /\ UNCHANGED <<defining, cacheVars>>

\* withSelector:addMethod: up to the change of the dictionary.
withSelector_addMethod(t, s, m) ==
  /\ defining = Null
  /\ t \in created
  /\ defining' = [type |-> t, selector |-> s, existentMethod |-> methodDictionary[t][s]]
  /\ methodDictionary' = IF methodDictionary[t][s] \in Primitive
                         THEN methodDictionary
                         ELSE [methodDictionary EXCEPT ![t][s] = m]
  /\ answer' = Null
  /\ UNCHANGED <<created, cacheVars>>

\* Mutant: only what was cached for the type of the definition is flushed.
FlushedEntry_ownType(entry) ==
  IF entry.selector = defining.selector /\ entry.type = defining.type
  THEN NoEntry ELSE entry

FlushedEntry(entry) == IF entry.selector = defining.selector THEN NoEntry ELSE entry

\* Mutant: the inline caches are not flushed.
flushLookupSelector_globalOnly ==
  /\ defining # Null
  /\ globalMethodLookupCache' =
       [i \in CacheEntry |-> FlushedEntry(globalMethodLookupCache[i])]
  /\ defining' = Null
  /\ answer' = Null
  /\ UNCHANGED <<created, methodDictionary, pic>>

\* The flush that ends it.  Taking the lock of an inline cache counts as an addition.
flushLookupSelector ==
  /\ defining # Null
  /\ globalMethodLookupCache' =
       [i \in CacheEntry |-> FlushedEntry(globalMethodLookupCache[i])]
  /\ pic' = [p \in Site |->
       [entries |-> [i \in PicEntry |-> FlushedEntry(pic[p].entries[i])],
        next |-> (pic[p].next + 1) % EntryCount]]
  /\ defining' = Null
  /\ answer' = Null
  /\ UNCHANGED <<created, methodDictionary>>

-----------------------------------------------------------------------------
Next ==
  \/ \E t \in Type, s \in Selector : astSend(t, s) \/ bytecodeSend(t, s)
  \/ \E p \in Site, t \in Type : compiledSend(p, t)
  \/ \E t \in Type, methods \in [Selector -> Method \cup {Null}] : CreateType(t, methods)
  \/ \E t \in Type, s \in Selector, m \in Method : withSelector_addMethod(t, s, m)
  \/ flushLookupSelector

Spec == Init /\ [][Next]_vars

-----------------------------------------------------------------------------
EntryType == [type : Type \cup {Null}, selector : Selector \cup {Null},
              method : Method \cup {Null}]

TypeOK ==
  /\ created \subseteq Type
  /\ methodDictionary \in [Type -> [Selector -> Method \cup {Null}]]
  /\ defining \in [type : Type, selector : Selector,
                   existentMethod : Method \cup {Null}] \cup {Null}
  /\ globalMethodLookupCache \in [CacheEntry -> EntryType]
  /\ pic \in [Site -> [entries : [PicEntry -> EntryType], next : PicEntry]]
  /\ answer \in [type : Type, selector : Selector, method : Method \cup {Null}]
                \cup {Null}

\* An entry is right when it holds what the dictionaries say, unless its selector is
\* being defined.
Current(entry) ==
  \/ entry = NoEntry
  \/ defining # Null /\ entry.selector = defining.selector
  \/ entry.method = lookupSelectorRecursively(entry.type, entry.selector)

\* Whatever types, methods and sends come in whatever order, no cache ever disagrees
\* with the dictionaries about a selector that is not being defined: neither about a
\* supertype's method that a subtype now overrides, nor about a message that was not
\* understood when it was looked up, nor through an entry shared with other keys.
CachesAgree ==
  /\ \A i \in CacheEntry : Current(globalMethodLookupCache[i])
  /\ \A p \in Site, i \in PicEntry : Current(pic[p].entries[i])

\* The loop of pic.c may run to the end because at most one entry can match.
OneMatchPerType ==
  \A p \in Site, t \in Type : Cardinality(Matches(p, t)) <= 1

\* The dictionaries before the definition under way, and with it.
Before == IF defining = Null THEN methodDictionary
          ELSE [methodDictionary EXCEPT
                  ![defining.type][defining.selector] = defining.existentMethod]

Abstract == INSTANCE Dispatch WITH
  methodDictionary <- Before,
  pending <- IF defining = Null THEN Null ELSE methodDictionary

\* With all its caches, the virtual machine runs for each send the method that the
\* dictionaries name at that moment, or, for the selector being defined, at the
\* moment before.
ImplementsDispatch == Abstract!Spec
=============================================================================

------------------------- MODULE MethodLookupProofs --------------------------
(***************************************************************************)
(* The caches of method lookup, for any types, selectors, methods, inline  *)
(* caches and entries, and any hash.  A send runs the method that Dispatch *)
(* promises: the caches are invisible.                                     *)
(*                                                                         *)
(* CachesAgree is not inductive.  It says nothing of an entry for the      *)
(* selector being defined; CachesInv says that such an entry is right for  *)
(* the dictionaries before the definition or with it.   And it only lasts  *)
(* while no entry is for a type that a new one could change: the supers    *)
(* of a type exist before it, and every entry is for a type that exists.   *)
(***************************************************************************)
EXTENDS MethodLookup, FiniteSetTheorems, WellFoundedInduction, TLAPS

\* A type exists after its supertypes, and has no methods before it exists.
TypesInv ==
  /\ \A t \in created : \A i \in DOMAIN Lineage[t] : Lineage[t][i] \in created
  /\ \A t \in Type \ created : methodDictionary[t] = NoMethods
  /\ defining # Null => defining.type \in created

\* What the dictionaries said before the definition under way, and say with it.
Seen(t, s) == {Abstract!Found(Before, t, s), Abstract!Found(methodDictionary, t, s)}

\* An entry is empty, or for a type that exists and right.
Right(entry) ==
  \/ entry = NoEntry
  \/ /\ entry.type \in created /\ entry.selector \in Selector
     /\ entry.method \in Seen(entry.type, entry.selector)

CachesInv ==
  /\ \A i \in CacheEntry : Right(globalMethodLookupCache[i])
  /\ \A p \in Site, i \in PicEntry : Right(pic[p].entries[i])

\* Two entries of an inline cache that match the same type are the same entry.
MatchesInv ==
  \A p \in Site, t \in Type : \A i, j \in Matches(p, t) : i = j

LookupInv == TypeOK /\ TypesInv /\ CachesInv /\ MatchesInv

-----------------------------------------------------------------------------
(* Lookups. *)

\* A set of natural numbers that is not empty has a least element.
LEMMA MinIsMember ==
  ASSUME NEW S, S \subseteq Nat, S # {}
  PROVE  Abstract!Min(S) \in S /\ Min(S) = Abstract!Min(S)
<1>1. PICK x \in S : \A y \in S : ~ (<<y, x>> \in OpToRel(<, Nat))
  BY NatLessThanWellFounded, WFMin, Zenon
<1>2. ASSUME NEW y \in S, y < x PROVE FALSE
  <2>1. <<y, x>> \in Nat \X Nat
    OBVIOUS
  <2>2. <<y, x>>[1] < <<y, x>>[2]
    BY <1>2
  <2>3. <<y, x>> \in OpToRel(<, Nat)
    BY <2>1, <2>2, Zenon DEF OpToRel
  <2> QED
    BY <2>3, <1>1
<1>3. \A y \in S : x =< y
  BY <1>2
<1>4. Abstract!Min(S) \in S
  BY <1>3 DEF Abstract!Min
<1> QED
  BY <1>4, Zenon DEF Min, Abstract!Min

\* A lineage is a sequence of types that starts with its own.
LEMMA LineageIsOfTypes ==
  ASSUME NEW t \in Type
  PROVE  /\ DOMAIN Lineage[t] \subseteq Nat
         /\ \A i \in DOMAIN Lineage[t] : Lineage[t][i] \in Type
         /\ 1 \in DOMAIN Lineage[t] /\ Lineage[t][1] = t
<1>1. Lineage[t] \in Seq(Type) /\ Lineage[t] # <<>> /\ Lineage[t][1] = t
  BY LineageAssumption
<1> QED
  BY <1>1

\* What a lookup finds in a dictionary is a method, or none.
LEMMA FoundIsMethod ==
  ASSUME NEW dictionary \in [Type -> [Selector -> Method \cup {Null}]],
         NEW t \in Type, NEW s \in Selector
  PROVE  Abstract!Found(dictionary, t, s) \in Method \cup {Null}
<1> DEFINE Definers == {i \in DOMAIN Lineage[t] : dictionary[Lineage[t][i]][s] # Null}
<1>1. CASE Definers = {}
  BY <1>1 DEF Abstract!Found
<1>2. CASE Definers # {}
  <2>1. Abstract!Min(Definers) \in Definers
    BY <1>2, MinIsMember, LineageIsOfTypes
  <2>2. dictionary[Lineage[t][Abstract!Min(Definers)]][s] \in Method \cup {Null}
    BY <2>1, LineageIsOfTypes
  <2> QED
    BY <1>2, <2>2 DEF Abstract!Found
<1> QED
  BY <1>1, <1>2

\* A lookup reads the methods for its selector of the types in the lineage, and
\* nothing else.
LEMMA FoundDependsOn ==
  ASSUME NEW one, NEW other, NEW t \in Type, NEW s,
         \A i \in DOMAIN Lineage[t] : one[Lineage[t][i]][s] = other[Lineage[t][i]][s]
  PROVE  Abstract!Found(one, t, s) = Abstract!Found(other, t, s)
<1> DEFINE Definers(dictionary) == {i \in DOMAIN Lineage[t] : dictionary[Lineage[t][i]][s] # Null}
<1>1. Definers(one) = Definers(other)
  OBVIOUS
<1>2. CASE Definers(other) = {}
  BY <1>1, <1>2 DEF Abstract!Found
<1>3. CASE Definers(other) # {}
  <2>1. Abstract!Min(Definers(other)) \in DOMAIN Lineage[t]
    BY <1>3, MinIsMember, LineageIsOfTypes
  <2> QED
    BY <1>1, <1>3, <2>1 DEF Abstract!Found
<1> QED
  BY <1>2, <1>3

\* The lookup of the code finds what Dispatch finds in the same dictionaries.
LEMMA LookupFinds ==
  ASSUME NEW t \in Type, NEW s \in Selector
  PROVE  lookupSelectorRecursively(t, s) = Abstract!Found(methodDictionary, t, s)
<1> DEFINE Definers == {i \in DOMAIN Lineage[t] : methodDictionary[Lineage[t][i]][s] # Null}
<1>1. Definers # {} => Min(Definers) = Abstract!Min(Definers)
  BY MinIsMember, LineageIsOfTypes
<1> QED
  BY <1>1, Zenon DEF lookupSelectorRecursively, Abstract!Found

\* The dictionaries before a definition have a method or none for each selector too.
LEMMA BeforeIsDictionary ==
  ASSUME TypeOK
  PROVE  Before \in [Type -> [Selector -> Method \cup {Null}]]
<1>1. CASE defining = Null
  BY <1>1 DEF Before, TypeOK
<1>2. CASE defining # Null
  BY <1>2 DEF Before, TypeOK
<1> QED
  BY <1>1, <1>2

LEMMA SeenIsMethod ==
  ASSUME TypeOK, NEW t \in Type, NEW s \in Selector
  PROVE  Seen(t, s) \subseteq Method \cup {Null}
BY BeforeIsDictionary, FoundIsMethod DEF Seen, TypeOK

\* A lookup through the global cache finds what may be seen.
LEMMA LookupIsSeen ==
  ASSUME LookupInv, NEW t \in created, NEW s \in Selector
  PROVE  lookupSelector(t, s) \in Seen(t, s)
<1>1. t \in Type
  BY DEF LookupInv, TypeOK
<1>2. CacheIndex(t, s) \in CacheEntry
  BY <1>1 DEF CacheEntry
<1>3. CASE IsCached(t, s)
  <2>1. Right(globalMethodLookupCache[CacheIndex(t, s)])
    BY <1>2 DEF LookupInv, CachesInv
  <2>2. globalMethodLookupCache[CacheIndex(t, s)] # NoEntry
    BY <1>1, <1>3, NullAssumption DEF IsCached, NoEntry
  <2> QED
    BY <1>3, <2>1, <2>2 DEF IsCached, Right, lookupSelector
<1>4. CASE ~IsCached(t, s)
  BY <1>1, <1>4, LookupFinds DEF lookupSelector, Seen
<1> QED
  BY <1>3, <1>4

\* A lookup leaves right entries in the global cache.
LEMMA CacheAfterIsRight ==
  ASSUME LookupInv, NEW t \in created, NEW s \in Selector
  PROVE  /\ CacheAfter(globalMethodLookupCache, t, s) \in [CacheEntry -> EntryType]
         /\ \A i \in CacheEntry : Right(CacheAfter(globalMethodLookupCache, t, s)[i])
<1> DEFINE method == lookupSelectorRecursively(t, s)
<1>1. t \in Type
  BY DEF LookupInv, TypeOK
<1>2. /\ globalMethodLookupCache \in [CacheEntry -> EntryType]
      /\ \A i \in CacheEntry : Right(globalMethodLookupCache[i])
  BY DEF LookupInv, TypeOK, CachesInv
<1>3. method \in Seen(t, s) /\ method \in Method \cup {Null}
  BY <1>1, LookupFinds, SeenIsMethod DEF Seen, LookupInv
<1>4. Entry(t, s, method) \in EntryType /\ Right(Entry(t, s, method))
  BY <1>1, <1>3 DEF Entry, EntryType, Right
<1> HIDE DEF method
<1>5. CASE IsCached(t, s) \/ method = Null
  BY <1>2, <1>5 DEF CacheAfter, method
<1>6. CASE ~(IsCached(t, s) \/ method = Null)
  <2>1. CacheAfter(globalMethodLookupCache, t, s)
          = [globalMethodLookupCache EXCEPT ![CacheIndex(t, s)] = Entry(t, s, method)]
    BY <1>6 DEF CacheAfter, method
  <2> QED
    BY <1>2, <1>4, <2>1
<1> QED
  BY <1>5, <1>6

-----------------------------------------------------------------------------
(* Sends. *)

\* A send changes no dictionary: what it leaves in the caches has to be right now.
LEMMA SendKeeps ==
  ASSUME LookupInv, UNCHANGED dictionaryVars,
         globalMethodLookupCache' \in [CacheEntry -> EntryType],
         \A i \in CacheEntry : Right(globalMethodLookupCache'[i]),
         pic' \in [Site -> [entries : [PicEntry -> EntryType], next : PicEntry]],
         \A p \in Site, i \in PicEntry : Right(pic'[p].entries[i]),
         answer' \in [type : Type, selector : Selector, method : Method \cup {Null}],
         MatchesInv'
  PROVE  LookupInv'
<1>1. UNCHANGED <<created, methodDictionary, defining>> /\ Before' = Before
  BY DEF dictionaryVars, Before
<1>2. TypeOK'
  BY <1>1 DEF LookupInv, TypeOK
<1>3. TypesInv'
  BY <1>1 DEF LookupInv, TypesInv
<1>4. CachesInv'
  BY <1>1 DEF CachesInv, Right, Seen
<1> QED
  BY <1>2, <1>3, <1>4 DEF LookupInv

\* A send that only looks in the global cache.
LEMMA GlobalSendKeeps ==
  ASSUME LookupInv, UNCHANGED <<dictionaryVars, pic>>,
         NEW t \in created, NEW s \in Selector,
         globalMethodLookupCache' = CacheAfter(globalMethodLookupCache, t, s),
         answer' \in [type : Type, selector : Selector, method : Method \cup {Null}]
  PROVE  LookupInv'
<1>1. pic' = pic /\ UNCHANGED dictionaryVars
  OBVIOUS
<1>2. MatchesInv'
  BY <1>1 DEF LookupInv, MatchesInv, Matches
<1>3. /\ pic \in [Site -> [entries : [PicEntry -> EntryType], next : PicEntry]]
      /\ \A p \in Site, i \in PicEntry : Right(pic[p].entries[i])
  BY DEF LookupInv, TypeOK, CachesInv
<1>4. /\ globalMethodLookupCache' \in [CacheEntry -> EntryType]
      /\ \A i \in CacheEntry : Right(globalMethodLookupCache'[i])
  BY CacheAfterIsRight
<1> QED
  BY <1>1, <1>2, <1>3, <1>4, SendKeeps

LEMMA AstSendKeeps ==
  ASSUME LookupInv, NEW t \in Type, NEW s \in Selector, astSend(t, s)
  PROVE  LookupInv'
<1>1. t \in created /\ UNCHANGED <<dictionaryVars, pic>> /\ doesNotUnderstand \in Selector
  BY SelectorAssumption DEF astSend
<1>2. /\ lookupSelector(t, s) \in Method \cup {Null}
      /\ lookupSelector(t, doesNotUnderstand) \in Method \cup {Null}
  BY <1>1, LookupIsSeen, SeenIsMethod DEF LookupInv
<1>3. answer' \in [type : Type, selector : Selector, method : Method \cup {Null}]
  BY <1>2 DEF astSend, Answers
<1>4. \/ globalMethodLookupCache' = CacheAfter(globalMethodLookupCache, t, s)
      \/ globalMethodLookupCache' = CacheAfter(globalMethodLookupCache, t, doesNotUnderstand)
  BY DEF astSend
<1> QED
  BY <1>1, <1>3, <1>4, GlobalSendKeeps

LEMMA BytecodeSendKeeps ==
  ASSUME LookupInv, NEW t \in Type, NEW s \in Selector, bytecodeSend(t, s)
  PROVE  LookupInv'
<1>1. t \in created /\ UNCHANGED <<dictionaryVars, pic>>
  BY DEF bytecodeSend
<1>2. lookupSelector(t, s) \in Method \cup {Null}
  BY <1>1, LookupIsSeen, SeenIsMethod DEF LookupInv
<1>3. answer' \in [type : Type, selector : Selector, method : Method \cup {Null}]
  BY <1>2 DEF bytecodeSend, Answers
<1>4. globalMethodLookupCache' = CacheAfter(globalMethodLookupCache, t, s)
  BY DEF bytecodeSend
<1> QED
  BY <1>1, <1>3, <1>4, GlobalSendKeeps

\* A lookup through an inline cache finds what may be seen.
LEMMA LookupWithPICIsSeen ==
  ASSUME LookupInv, NEW p \in Site, NEW t \in created, NEW m,
         lookupSelectorWithPIC(p, t, m)
  PROVE  m \in Seen(t, selectorOf[p])
<1>1. selectorOf[p] \in Selector /\ t \in Type
  BY SelectorAssumption DEF LookupInv, TypeOK
<1>2. CASE Matches(p, t) # {}
  <2>1. PICK i \in Matches(p, t) : \A j \in Matches(p, t) : i = j
    BY <1>1, <1>2 DEF LookupInv, MatchesInv
  <2>2. Matches(p, t) = {i} /\ i \in PicEntry /\ i \in Int
    BY <2>1, CountAssumption DEF Matches, PicEntry
  <2>3. Max(Matches(p, t)) = i
    BY <2>2 DEF Max
  <2>4. /\ pic[p].entries[i].type = t /\ pic[p].entries[i].selector = selectorOf[p]
        /\ m = pic[p].entries[i].method
    BY <1>2, <2>1, <2>3 DEF Matches, lookupSelectorWithPIC
  <2>5. Right(pic[p].entries[i]) /\ pic[p].entries[i] # NoEntry
    BY <1>1, <2>2, <2>4, NullAssumption DEF LookupInv, CachesInv, NoEntry
  <2> QED
    BY <2>4, <2>5 DEF Right
<1>3. CASE Matches(p, t) = {}
  BY <1>1, <1>3, LookupIsSeen DEF lookupSelectorWithPIC
<1> QED
  BY <1>2, <1>3

\* An addition for a type that no entry matches leaves at most one match for each.
LEMMA AddedMatchesOnce ==
  ASSUME LookupInv, NEW p \in Site, NEW t \in Type, NEW m,
         Matches(p, t) = {},
         pic' = [pic EXCEPT ![p] = Added(@, t, selectorOf[p], m)]
  PROVE  MatchesInv'
<1> SUFFICES ASSUME NEW q \in Site, NEW u \in Type,
                    NEW i \in Matches(q, u)', NEW j \in Matches(q, u)'
             PROVE  i = j
  BY DEF MatchesInv
<1>1. pic \in [Site -> [entries : [PicEntry -> EntryType], next : PicEntry]]
  BY DEF LookupInv, TypeOK
<1>2. i \in PicEntry /\ j \in PicEntry
  BY DEF Matches
<1>3. \A k, l \in Matches(q, u) : k = l
  BY DEF LookupInv, MatchesInv
<1>4. CASE q # p
  BY <1>1, <1>3, <1>4 DEF Matches
<1>5. CASE q = p
  <2>1. \A k \in PicEntry : pic'[p].entries[k] =
          IF k = pic[p].next THEN Entry(t, selectorOf[p], m) ELSE pic[p].entries[k]
    BY <1>1 DEF Added
  <2>2. CASE u = t
    BY <1>2, <1>5, <2>1, <2>2 DEF Matches
  <2>3. CASE u # t
    <3>1. i # pic[p].next /\ j # pic[p].next
      BY <1>5, <2>1, <2>3 DEF Matches, Entry
    <3>2. i \in Matches(q, u) /\ j \in Matches(q, u)
      BY <1>2, <1>5, <2>1, <3>1 DEF Matches
    <3> QED
      BY <1>3, <3>2
  <2> QED
    BY <2>2, <2>3
<1> QED
  BY <1>4, <1>5

LEMMA CompiledSendKeeps ==
  ASSUME LookupInv, NEW p \in Site, NEW t \in Type, compiledSend(p, t)
  PROVE  LookupInv'
<1> DEFINE s == selectorOf[p]
<1>1. s \in Selector /\ t \in created /\ UNCHANGED dictionaryVars
  BY SelectorAssumption DEF compiledSend
<1>2. PICK m \in Method \cup {Null} :
        /\ lookupSelectorWithPIC(p, t, m)
        /\ Answers(t, s, IF m # Null \/ s = doesNotUnderstand THEN m ELSE lookupSelector(t, s))
  BY DEF compiledSend
<1>3. lookupSelector(t, s) \in Seen(t, s) /\ lookupSelector(t, s) \in Method \cup {Null}
  BY <1>1, LookupIsSeen, SeenIsMethod DEF LookupInv
<1>4. answer' \in [type : Type, selector : Selector, method : Method \cup {Null}]
  BY <1>1, <1>2, <1>3 DEF Answers
<1>5. /\ pic \in [Site -> [entries : [PicEntry -> EntryType], next : PicEntry]]
      /\ \A q \in Site, i \in PicEntry : Right(pic[q].entries[i])
      /\ globalMethodLookupCache \in [CacheEntry -> EntryType]
      /\ \A i \in CacheEntry : Right(globalMethodLookupCache[i])
  BY DEF LookupInv, TypeOK, CachesInv
<1>6. CASE Matches(p, t) # {}
  <2>1. UNCHANGED cacheVars
    BY <1>2, <1>6 DEF lookupSelectorWithPIC
  <2>2. MatchesInv'
    BY <2>1 DEF cacheVars, LookupInv, MatchesInv, Matches
  <2> QED
    BY <1>1, <1>4, <1>5, <2>1, <2>2, SendKeeps DEF cacheVars
<1>7. CASE Matches(p, t) = {}
  <2>1. /\ pic' = [pic EXCEPT ![p] = Added(@, t, s, m)]
        /\ globalMethodLookupCache' = CacheAfter(globalMethodLookupCache, t, s)
        /\ m = lookupSelector(t, s)
    BY <1>2, <1>7 DEF lookupSelectorWithPIC
  <2>2. MatchesInv'
    BY <1>7, <2>1, AddedMatchesOnce
  <2>3. Entry(t, s, m) \in EntryType /\ Right(Entry(t, s, m))
    BY <1>1, <1>3, <2>1 DEF Entry, EntryType, Right
  <2>4. (pic[p].next + 1) % EntryCount \in PicEntry
    BY <1>5, CountAssumption DEF PicEntry
  <2>5. Added(pic[p], t, s, m) \in [entries : [PicEntry -> EntryType], next : PicEntry]
    BY <1>5, <2>3, <2>4 DEF Added
  <2>6. \A i \in PicEntry : Right(Added(pic[p], t, s, m).entries[i])
    BY <1>5, <2>3 DEF Added
  <2>7. pic' \in [Site -> [entries : [PicEntry -> EntryType], next : PicEntry]]
    BY <1>5, <2>1, <2>5
  <2>8. \A q \in Site, i \in PicEntry : Right(pic'[q].entries[i])
    BY <1>5, <2>1, <2>6
  <2>9. /\ globalMethodLookupCache' \in [CacheEntry -> EntryType]
        /\ \A i \in CacheEntry : Right(globalMethodLookupCache'[i])
    BY <1>1, <2>1, CacheAfterIsRight
  <2> QED
    BY <1>1, <1>4, <2>2, <2>7, <2>8, <2>9, SendKeeps
<1> QED
  BY <1>6, <1>7

-----------------------------------------------------------------------------
(* Definitions. *)

\* A new type has no place in the lineage of a type that exists: nothing that a
\* lookup for one of those reads changes.
LEMMA CreateTypeKeeps ==
  ASSUME LookupInv, NEW t \in Type, NEW methods \in [Selector -> Method \cup {Null}],
         CreateType(t, methods)
  PROVE  LookupInv'
<1>1. /\ t \notin created /\ created' = created \cup {t}
      /\ \A i \in 2 .. Len(Lineage[t]) : Lineage[t][i] \in created
      /\ methodDictionary' = [methodDictionary EXCEPT ![t] = methods]
      /\ answer' = Null /\ defining' = defining
      /\ globalMethodLookupCache' = globalMethodLookupCache /\ pic' = pic
  BY DEF CreateType, cacheVars
<1>2. TypeOK'
  BY <1>1 DEF LookupInv, TypeOK
<1>3. TypesInv'
  <2>1. \A i \in DOMAIN Lineage[t] : Lineage[t][i] \in created'
    <3>1. DOMAIN Lineage[t] = 1 .. Len(Lineage[t]) /\ Lineage[t][1] = t /\ Len(Lineage[t]) \in Nat
      BY LineageAssumption
    <3>2. \A i \in DOMAIN Lineage[t] : i = 1 \/ i \in 2 .. Len(Lineage[t])
      BY <3>1
    <3> QED
      BY <1>1, <3>1, <3>2
  <2>2. \A u \in Type \ created' : methodDictionary'[u] = NoMethods
    BY <1>1 DEF LookupInv, TypeOK, TypesInv
  <2> QED
    BY <1>1, <2>1, <2>2 DEF LookupInv, TypesInv
<1>4. CachesInv'
  <2>1. \A u \in created : methodDictionary'[u] = methodDictionary[u] /\ Before'[u] = Before[u]
    BY <1>1 DEF LookupInv, TypeOK, TypesInv, Before
  <2>2. ASSUME NEW u \in created, NEW s \in Selector
        PROVE  /\ Abstract!Found(methodDictionary', u, s) = Abstract!Found(methodDictionary, u, s)
               /\ Abstract!Found(Before', u, s) = Abstract!Found(Before, u, s)
    <3>1. \A i \in DOMAIN Lineage[u] : Lineage[u][i] \in created /\ u \in Type
      BY DEF LookupInv, TypeOK, TypesInv
    <3>2. /\ \A i \in DOMAIN Lineage[u] :
               methodDictionary'[Lineage[u][i]][s] = methodDictionary[Lineage[u][i]][s]
          /\ \A i \in DOMAIN Lineage[u] : Before'[Lineage[u][i]][s] = Before[Lineage[u][i]][s]
      BY <2>1, <3>1
    <3>3. u \in Type
      BY DEF LookupInv, TypeOK
    <3> QED
      BY <3>2, <3>3, FoundDependsOn
  <2>3. \A e : Right(e) => Right(e)'
    BY <1>1, <2>2 DEF Right, Seen
  <2> QED
    BY <1>1, <2>3 DEF LookupInv, CachesInv, Right, Seen
<1>5. MatchesInv'
  BY <1>1 DEF LookupInv, MatchesInv, Matches
<1> QED
  BY <1>2, <1>3, <1>4, <1>5 DEF LookupInv

\* The dictionaries of before a definition are those it has started from.
LEMMA DefinitionStartsFrom ==
  ASSUME LookupInv, NEW t \in Type, NEW s \in Selector, NEW m \in Method,
         withSelector_addMethod(t, s, m)
  PROVE  Before' = methodDictionary /\ Before = methodDictionary /\ defining' # Null
<1>1. /\ defining = Null
      /\ defining' = [type |-> t, selector |-> s, existentMethod |-> methodDictionary[t][s]]
      /\ methodDictionary' = IF methodDictionary[t][s] \in Primitive THEN methodDictionary
                             ELSE [methodDictionary EXCEPT ![t][s] = m]
      /\ methodDictionary \in [Type -> [Selector -> Method \cup {Null}]]
  BY DEF withSelector_addMethod, LookupInv, TypeOK
<1>2. defining' \in [type : Type, selector : Selector, existentMethod : Method \cup {Null}]
  BY <1>1
<1>3. defining' # Null
  BY <1>2, NullAssumption
<1>4. Before' = [methodDictionary' EXCEPT ![t][s] = methodDictionary[t][s]]
  BY <1>1, <1>3 DEF Before
<1>5. Before' = methodDictionary
  BY <1>1, <1>4
<1> QED
  BY <1>1, <1>3, <1>5 DEF Before

LEMMA AddMethodKeeps ==
  ASSUME LookupInv, NEW t \in Type, NEW s \in Selector, NEW m \in Method,
         withSelector_addMethod(t, s, m)
  PROVE  LookupInv'
<1>1. /\ t \in created /\ created' = created /\ answer' = Null
      /\ globalMethodLookupCache' = globalMethodLookupCache /\ pic' = pic
      /\ defining' = [type |-> t, selector |-> s, existentMethod |-> methodDictionary[t][s]]
      /\ methodDictionary' = IF methodDictionary[t][s] \in Primitive THEN methodDictionary
                             ELSE [methodDictionary EXCEPT ![t][s] = m]
  BY DEF withSelector_addMethod, cacheVars
<1>2. TypeOK'
  BY <1>1 DEF LookupInv, TypeOK
<1>3. TypesInv'
  BY <1>1 DEF LookupInv, TypesInv, TypeOK
<1>4. CachesInv'
  <2>1. \A e : Right(e) => Right(e)'
    BY <1>1, DefinitionStartsFrom DEF Right, Seen
  <2> QED
    BY <1>1, <2>1 DEF LookupInv, CachesInv, Right, Seen
<1>5. MatchesInv'
  BY <1>1 DEF LookupInv, MatchesInv, Matches
<1> QED
  BY <1>2, <1>3, <1>4, <1>5 DEF LookupInv

\* What is seen of a selector that is not being defined is what the dictionaries say.
LEMMA SeenOfOthers ==
  ASSUME TypeOK, NEW t \in Type, NEW s \in Selector,
         defining = Null \/ s # defining.selector
  PROVE  Abstract!Found(Before, t, s) = Abstract!Found(methodDictionary, t, s)
<1>1. CASE defining = Null
  BY <1>1 DEF Before
<1>2. CASE defining # Null
  <2>1. \A i \in DOMAIN Lineage[t] :
          Before[Lineage[t][i]][s] = methodDictionary[Lineage[t][i]][s]
    BY <1>2, LineageIsOfTypes DEF TypeOK, Before
  <2> QED
    BY <2>1, FoundDependsOn
<1> QED
  BY <1>1, <1>2

LEMMA FlushKeeps ==
  ASSUME LookupInv, flushLookupSelector
  PROVE  LookupInv'
<1>1. /\ defining # Null /\ defining' = Null /\ answer' = Null
      /\ created' = created /\ methodDictionary' = methodDictionary
      /\ globalMethodLookupCache' =
           [i \in CacheEntry |-> FlushedEntry(globalMethodLookupCache[i])]
      /\ pic' = [p \in Site |->
           [entries |-> [i \in PicEntry |-> FlushedEntry(pic[p].entries[i])],
            next |-> (pic[p].next + 1) % EntryCount]]
  BY DEF flushLookupSelector
<1>2. \A e \in EntryType : FlushedEntry(e) \in EntryType
  BY DEF FlushedEntry, EntryType, NoEntry
<1>3. TypeOK'
  <2>1. \A p \in Site : (pic[p].next + 1) % EntryCount \in PicEntry
    BY CountAssumption DEF LookupInv, TypeOK, PicEntry
  <2>2. pic' \in [Site -> [entries : [PicEntry -> EntryType], next : PicEntry]]
    BY <1>1, <1>2, <2>1 DEF LookupInv, TypeOK
  <2>3. globalMethodLookupCache' \in [CacheEntry -> EntryType]
    BY <1>1, <1>2 DEF LookupInv, TypeOK
  <2> QED
    BY <1>1, <2>2, <2>3 DEF LookupInv, TypeOK
<1>4. TypesInv'
  BY <1>1 DEF LookupInv, TypesInv
<1>5. CachesInv'
  <2>1. ASSUME NEW e, Right(e), NEW flushed, flushed = FlushedEntry(e)
        PROVE  Right(flushed)'
    <3>1. CASE flushed = NoEntry
      BY <3>1 DEF Right
    <3>2. CASE flushed # NoEntry
      <4>1. flushed = e /\ e # NoEntry /\ e.selector # defining.selector
        BY <2>1, <3>2 DEF FlushedEntry
      <4>2. e.type \in Type /\ e.selector \in Selector /\ e.type \in created
        BY <2>1, <4>1 DEF Right, LookupInv, TypeOK
      <4>3. e.method = Abstract!Found(methodDictionary, e.type, e.selector)
        BY <2>1, <4>1, <4>2, SeenOfOthers DEF Right, Seen, LookupInv
      <4> QED
        BY <1>1, <4>1, <4>2, <4>3 DEF Right, Seen
    <3> QED
      BY <3>1, <3>2
  <2> QED
    BY <1>1, <2>1 DEF LookupInv, CachesInv, Right, Seen
<1>6. MatchesInv'
  <2>1. ASSUME NEW p \in Site, NEW t \in Type, NEW i \in Matches(p, t)'
        PROVE  i \in Matches(p, t)
    <3>1. selectorOf[p] \in Selector
      BY SelectorAssumption
    <3>2. i \in PicEntry /\ pic'[p].entries[i] = FlushedEntry(pic[p].entries[i])
      BY <1>1 DEF Matches
    <3>3. pic'[p].entries[i].type = t /\ pic'[p].entries[i].selector = selectorOf[p]
      BY DEF Matches
    <3> QED
      BY <3>1, <3>2, <3>3, NullAssumption DEF Matches, FlushedEntry, NoEntry
  <2> QED
    BY <2>1 DEF LookupInv, MatchesInv
<1> QED
  BY <1>3, <1>4, <1>5, <1>6 DEF LookupInv

-----------------------------------------------------------------------------
(* The invariant and what follows from it. *)

LEMMA InitEstablishes == Init => LookupInv
<1> SUFFICES ASSUME Init PROVE LookupInv
  OBVIOUS
<1>1. NoEntry \in EntryType /\ NoEntry.selector = Null
  BY DEF NoEntry, EntryType
<1>2. 1 % EntryCount \in PicEntry
  BY CountAssumption DEF PicEntry
<1>3. TypeOK
  BY <1>1, <1>2 DEF Init, TypeOK, NoMethods
<1>4. TypesInv
  BY DEF Init, TypesInv
<1>5. CachesInv
  BY DEF Init, CachesInv, Right
<1>6. MatchesInv
  <2>1. \A p \in Site, t \in Type : Matches(p, t) = {}
    BY <1>1, SelectorAssumption, NullAssumption DEF Init, Matches
  <2> QED
    BY <2>1 DEF MatchesInv
<1> QED
  BY <1>3, <1>4, <1>5, <1>6 DEF LookupInv

LEMMA StepKeeps == LookupInv /\ [Next]_vars => LookupInv'
<1> SUFFICES ASSUME LookupInv, [Next]_vars PROVE LookupInv'
  OBVIOUS
<1>1. CASE \E t \in Type, s \in Selector : astSend(t, s) \/ bytecodeSend(t, s)
  BY <1>1, AstSendKeeps, BytecodeSendKeeps
<1>2. CASE \E p \in Site, t \in Type : compiledSend(p, t)
  BY <1>2, CompiledSendKeeps
<1>3. CASE \E t \in Type, methods \in [Selector -> Method \cup {Null}] : CreateType(t, methods)
  BY <1>3, CreateTypeKeeps
<1>4. CASE \E t \in Type, s \in Selector, m \in Method : withSelector_addMethod(t, s, m)
  BY <1>4, AddMethodKeeps
<1>5. CASE flushLookupSelector
  BY <1>5, FlushKeeps
<1>6. CASE UNCHANGED vars
  <2>1. /\ UNCHANGED <<created, methodDictionary, defining>>
        /\ UNCHANGED <<globalMethodLookupCache, pic, answer>> /\ Before' = Before
    BY <1>6 DEF vars, dictionaryVars, cacheVars, Before
  <2> QED
    BY <2>1 DEF LookupInv, TypeOK, TypesInv, CachesInv, Right, Seen, MatchesInv, Matches
<1> QED
  BY <1>1, <1>2, <1>3, <1>4, <1>5, <1>6 DEF Next

\* The inductive invariant of types, definitions and caches holds: every entry of
\* every cache was right when the definition under way began, or is with it.
THEOREM LookupInvariant == Spec => []LookupInv
<1>1. Init => LookupInv
  BY InitEstablishes
<1>2. LookupInv /\ [Next]_vars => LookupInv'
  BY StepKeeps
<1> QED
  BY <1>1, <1>2, PTL DEF Spec

\* The caches and the dictionaries have entries and methods of their types.
THEOREM TypeCorrect == Spec => []TypeOK
<1>1. LookupInv => TypeOK
  BY DEF LookupInv
<1> QED
  BY <1>1, LookupInvariant, PTL

\* The caches agree with the dictionaries (type.c, pic.c): no lookup finds a method
\* that has been replaced, overridden or added since, except for the selector of a
\* definition that has not returned.
THEOREM CachesAgreeHolds == Spec => []CachesAgree
<1>1. ASSUME LookupInv PROVE CachesAgree
  <2>1. ASSUME NEW entry, Right(entry) PROVE Current(entry)
    <3>1. CASE entry = NoEntry
      BY <3>1 DEF Current
    <3>2. CASE defining # Null /\ entry.selector = defining.selector
      BY <3>2 DEF Current
    <3>3. CASE entry # NoEntry /\ ~(defining # Null /\ entry.selector = defining.selector)
      <4>1. /\ entry.type \in Type /\ entry.selector \in Selector
            /\ entry.method \in Seen(entry.type, entry.selector)
        BY <1>1, <2>1, <3>3 DEF Right, LookupInv, TypeOK
      <4>2. entry.method = Abstract!Found(methodDictionary, entry.type, entry.selector)
        BY <1>1, <3>3, <4>1, SeenOfOthers DEF Seen, LookupInv
      <4> QED
        BY <4>1, <4>2, LookupFinds DEF Current
    <3> QED
      BY <3>1, <3>2, <3>3
  <2> QED
    BY <1>1, <2>1 DEF LookupInv, CachesInv, CachesAgree
<1> QED
  BY <1>1, LookupInvariant, PTL

\* The loop over the entries of an inline cache (pic.c:9) meets at most one that
\* matches: that it does not stop at the first makes no difference.
THEOREM OneMatchPerTypeHolds == Spec => []OneMatchPerType
<1>1. ASSUME LookupInv PROVE OneMatchPerType
  <2> SUFFICES ASSUME NEW p \in Site, NEW t \in Type
               PROVE  Cardinality(Matches(p, t)) <= 1
    BY DEF OneMatchPerType
  <2>1. CASE Matches(p, t) = {}
    BY <2>1, FS_EmptySet
  <2>2. CASE Matches(p, t) # {}
    <3>1. PICK i \in Matches(p, t) : \A j \in Matches(p, t) : i = j
      BY <1>1, <2>2 DEF LookupInv, MatchesInv
    <3>2. Matches(p, t) = {i}
      BY <3>1
    <3> QED
      BY <3>2, FS_Singleton
  <2> QED
    BY <2>1, <2>2
<1> QED
  BY <1>1, LookupInvariant, PTL

-----------------------------------------------------------------------------
(* The refinement. *)

\* What Dispatch lets a send see is what the caches may hold.
LEMMA SeenIsVisible ==
  ASSUME TypeOK, NEW t \in Type, NEW s \in Selector
  PROVE  Seen(t, s) = Abstract!Visible(t, s)
<1>1. methodDictionary # Null
  BY NullAssumption DEF TypeOK
<1>2. CASE defining = Null
  BY <1>2 DEF Seen, Abstract!Visible, Before
<1>3. CASE defining # Null
  BY <1>1, <1>3 DEF Seen, Abstract!Visible
<1> QED
  BY <1>2, <1>3

\* A send of the virtual machine is one of Dispatch.
LEMMA SendRefines ==
  ASSUME LookupInv, UNCHANGED dictionaryVars,
         NEW t \in created, NEW s \in Selector, NEW m \in Method \cup {Null},
         answer' = [type |-> t, selector |-> s, method |-> m],
         \/ m \in Seen(t, s)
         \/ Null \in Seen(t, s) /\ m \in Seen(t, doesNotUnderstand)
  PROVE  Abstract!Send
<1>1. t \in Type /\ doesNotUnderstand \in Selector
  BY SelectorAssumption DEF LookupInv, TypeOK
<1>2. /\ Seen(t, s) = Abstract!Visible(t, s)
      /\ Seen(t, doesNotUnderstand) = Abstract!Visible(t, doesNotUnderstand)
  BY <1>1, SeenIsVisible DEF LookupInv
<1>3. UNCHANGED <<Before, IF defining = Null THEN Null ELSE methodDictionary>>
  BY DEF dictionaryVars, Before
<1> QED
  BY <1>1, <1>2, <1>3 DEF Abstract!Send

LEMMA AstSendRefines ==
  ASSUME LookupInv, NEW t \in Type, NEW s \in Selector, astSend(t, s)
  PROVE  Abstract!Send
<1>1. t \in created /\ UNCHANGED dictionaryVars /\ doesNotUnderstand \in Selector
  BY SelectorAssumption DEF astSend
<1>2. /\ lookupSelector(t, s) \in Seen(t, s)
      /\ lookupSelector(t, doesNotUnderstand) \in Seen(t, doesNotUnderstand)
  BY <1>1, LookupIsSeen
<1>3. /\ Seen(t, s) \subseteq Method \cup {Null}
      /\ Seen(t, doesNotUnderstand) \subseteq Method \cup {Null}
  BY <1>1, SeenIsMethod DEF LookupInv
<1>4. CASE lookupSelector(t, s) # Null /\ Answers(t, s, lookupSelector(t, s))
  BY <1>1, <1>2, <1>3, <1>4, SendRefines DEF Answers
<1>5. CASE lookupSelector(t, s) = Null /\ Answers(t, s, lookupSelector(t, doesNotUnderstand))
  BY <1>1, <1>2, <1>3, <1>5, SendRefines DEF Answers
<1> QED
  BY <1>4, <1>5 DEF astSend

LEMMA BytecodeSendRefines ==
  ASSUME LookupInv, NEW t \in Type, NEW s \in Selector, bytecodeSend(t, s)
  PROVE  Abstract!Send
<1>1. t \in created /\ UNCHANGED dictionaryVars
  BY DEF bytecodeSend
<1>2. lookupSelector(t, s) \in Seen(t, s) /\ lookupSelector(t, s) \in Method \cup {Null}
  BY <1>1, LookupIsSeen, SeenIsMethod DEF LookupInv
<1> QED
  BY <1>1, <1>2, SendRefines DEF bytecodeSend, Answers

LEMMA CompiledSendRefines ==
  ASSUME LookupInv, NEW p \in Site, NEW t \in Type, compiledSend(p, t)
  PROVE  Abstract!Send
<1> DEFINE s == selectorOf[p]
<1>1. s \in Selector /\ t \in created /\ UNCHANGED dictionaryVars
  BY SelectorAssumption DEF compiledSend
<1>2. PICK m \in Method \cup {Null} :
        /\ lookupSelectorWithPIC(p, t, m)
        /\ Answers(t, s, IF m # Null \/ s = doesNotUnderstand THEN m ELSE lookupSelector(t, s))
  BY DEF compiledSend
<1>3. m \in Seen(t, s)
  BY <1>1, <1>2, LookupWithPICIsSeen
<1>4. lookupSelector(t, s) \in Seen(t, s) /\ lookupSelector(t, s) \in Method \cup {Null}
  BY <1>1, LookupIsSeen, SeenIsMethod DEF LookupInv
<1> QED
  BY <1>1, <1>2, <1>3, <1>4, SendRefines DEF Answers

LEMMA CreateTypeRefines ==
  ASSUME LookupInv, NEW t \in Type, NEW methods \in [Selector -> Method \cup {Null}],
         CreateType(t, methods)
  PROVE  Abstract!CreateType
<1>1. /\ t \notin created /\ defining' = defining /\ answer' = Null
      /\ methodDictionary' = [methodDictionary EXCEPT ![t] = methods]
  BY DEF CreateType
<1>2. /\ methodDictionary \in [Type -> [Selector -> Method \cup {Null}]]
      /\ methodDictionary[t] = NoMethods
      /\ defining # Null => defining.type # t
  BY <1>1 DEF LookupInv, TypeOK, TypesInv
<1>3. Before[t] = NoMethods /\ Before' = [Before EXCEPT ![t] = methods]
  BY <1>1, <1>2 DEF Before
<1>4. methodDictionary # Null
  BY <1>2, NullAssumption
<1> QED
  BY <1>1, <1>3, <1>4 DEF Abstract!CreateType, Abstract!NoMethods, NoMethods

\* A definition over a primitive leaves the dictionaries alone: Dispatch then defines
\* the method that is there.
LEMMA AddMethodRefines ==
  ASSUME LookupInv, NEW t \in Type, NEW s \in Selector, NEW m \in Method,
         withSelector_addMethod(t, s, m)
  PROVE  Abstract!BeginDefinition
<1>1. /\ defining = Null /\ answer' = Null
      /\ methodDictionary' = IF methodDictionary[t][s] \in Primitive THEN methodDictionary
                             ELSE [methodDictionary EXCEPT ![t][s] = m]
      /\ methodDictionary \in [Type -> [Selector -> Method \cup {Null}]]
  BY DEF withSelector_addMethod, LookupInv, TypeOK
<1>2. Before = methodDictionary /\ Before' = methodDictionary /\ defining' # Null
  BY DefinitionStartsFrom
<1>3. \E defined \in Method : methodDictionary' = [methodDictionary EXCEPT ![t][s] = defined]
  <2>1. CASE methodDictionary[t][s] \in Primitive
    <3>1. methodDictionary[t][s] \in Method
      BY <2>1, SelectorAssumption
    <3>2. methodDictionary' = [methodDictionary EXCEPT ![t][s] = methodDictionary[t][s]]
      BY <1>1, <2>1
    <3> QED
      BY <3>1, <3>2
  <2>2. CASE methodDictionary[t][s] \notin Primitive
    BY <1>1, <2>2
  <2> QED
    BY <2>1, <2>2
<1> QED
  BY <1>1, <1>2, <1>3 DEF Abstract!BeginDefinition

LEMMA FlushRefines ==
  ASSUME LookupInv, flushLookupSelector
  PROVE  Abstract!EndDefinition
<1>1. /\ defining # Null /\ defining' = Null /\ answer' = Null
      /\ methodDictionary' = methodDictionary
  BY DEF flushLookupSelector
<1>2. methodDictionary # Null
  BY NullAssumption DEF LookupInv, TypeOK
<1> QED
  BY <1>1, <1>2 DEF Abstract!EndDefinition, Before

\* The virtual machine with its caches implements message sends without any: a step
\* of it is one of Dispatch.
THEOREM ImplementsDispatchHolds == Spec => ImplementsDispatch
<1> DEFINE abstractVars ==
      <<Before, IF defining = Null THEN Null ELSE methodDictionary, answer>>
<1>1. Init => Abstract!Init
  BY DEF Init, Abstract!Init, Before, NoMethods, Abstract!NoMethods
<1>2. LookupInv /\ [Next]_vars => [Abstract!Next]_abstractVars
  <2> SUFFICES ASSUME LookupInv, [Next]_vars PROVE [Abstract!Next]_abstractVars
    OBVIOUS
  <2>1. CASE \E t \in Type, s \in Selector : astSend(t, s) \/ bytecodeSend(t, s)
    BY <2>1, AstSendRefines, BytecodeSendRefines DEF Abstract!Next
  <2>2. CASE \E p \in Site, t \in Type : compiledSend(p, t)
    BY <2>2, CompiledSendRefines DEF Abstract!Next
  <2>3. CASE \E t \in Type, methods \in [Selector -> Method \cup {Null}] :
               CreateType(t, methods)
    BY <2>3, CreateTypeRefines DEF Abstract!Next
  <2>4. CASE \E t \in Type, s \in Selector, m \in Method : withSelector_addMethod(t, s, m)
    BY <2>4, AddMethodRefines DEF Abstract!Next
  <2>5. CASE flushLookupSelector
    BY <2>5, FlushRefines DEF Abstract!Next
  <2>6. CASE UNCHANGED vars
    BY <2>6 DEF vars, dictionaryVars, Before
  <2> QED
    BY <2>1, <2>2, <2>3, <2>4, <2>5, <2>6 DEF Next
<1> QED
  BY <1>1, <1>2, LookupInvariant, PTL DEF Spec, ImplementsDispatch, Abstract!Spec
=============================================================================

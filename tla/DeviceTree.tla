----------------------------- MODULE DeviceTree -----------------------------
(* The device tree the firmware leaves: nodes one after the other in        *)
(* memory, each with its properties and then its children.  Look-ups by     *)
(* name, the iterator over the children of a scope, and the frequency       *)
(* tsc.c takes from it.                                                     *)
EXTENDS Naturals, Sequences, SequencesExt

CONSTANTS Trees,       \* memory images: sequences of [props, children]
          Names,       \* names and values of properties, and words that are neither
          MaxCalls     \* calls of the iterator in a behaviour, before any look-up

NULL == 0
Success == "kSuccess"
Error == "kError"

(* The strcmp of this kernel answers with true, not with 0, for equal ones. *)
strcmp(a, b) == IF a = b THEN 1 ELSE 0

Node(t, e) == t[e]
InTree(t, e) == e \in 1 .. Len(t)

(* A node without properties ends the list: what would follow it is not     *)
(* found.                                                                   *)
skipProperties(t, e) ==
  IF ~InTree(t, e) \/ Node(t, e).props = <<>> THEN NULL ELSE e + 1
(* MUTANT: the children of a node are not skipped.                         *)
NextInMemory(t) == [e \in 0 .. Len(t) + 1 |-> skipProperties(t, e)]

Steps(next, e, n) ==      \* from e, n times to the next
  LET at[k \in 0 .. n] == IF k = 0 THEN e ELSE next[at[k - 1]]
  IN at[n]
skipTree(t) ==
  LET after[e \in 0 .. Len(t) + 1] ==
        IF skipProperties(t, e) = NULL THEN NULL
        ELSE Steps(after, skipProperties(t, e), Node(t, e).children)
  IN after

(* The first property the test takes for the one that is wanted.            *)
Matches(t, e, name) == {k \in 1 .. Len(Node(t, e).props) : strcmp(Node(t, e).props[k].name, name) = 0}
DTGetProperty(t, e, name) ==
  IF ~InTree(t, e) \/ Matches(t, e, name) = {} THEN [code |-> Error]
  ELSE LET k == CHOOSE m \in Matches(t, e, name) : \A n \in Matches(t, e, name) : m <= n
       IN [code |-> Success, prop |-> Node(t, e).props[k]]

(* FindChild stops at a child without a name.                               *)
ChildAt(t, e, k) == Steps(skipTree(t), skipProperties(t, e), k - 1)
Named(t, c) == DTGetProperty(t, c, "name").code = Success
FindChild(t, e, word) ==
  LET wanted(k) == /\ \A i \in 1 .. k : Named(t, ChildAt(t, e, i))
                   /\ strcmp(DTGetProperty(t, ChildAt(t, e, k), "name").prop.value, word) = 0
      found == {k \in 1 .. Node(t, e).children : wanted(k)}
  IN IF found = {} THEN NULL
     ELSE ChildAt(t, e, CHOOSE k \in found : \A n \in found : k <= n)

DTLookupEntry(t, from, path) ==
  FoldLeft(LAMBDA e, word : IF InTree(t, e) THEN FindChild(t, e, word) ELSE NULL,
           IF from = NULL THEN 1 ELSE from, path)

(* find_entry goes through memory; a node without properties ends a list.   *)
Holds(t, e, name, value) ==
  \E p \in Range(Node(t, e).props) : strcmp(p.name, name) = 0 /\ strcmp(p.value, value) = 0
FindEntry(t, name, value) ==
  LET scan[e \in 1 .. Len(t) + 1] ==    \* [found, next]: the node, or where the scan goes on
        IF e > Len(t) \/ Node(t, e).props = <<>> THEN [found |-> NULL, next |-> e]
        ELSE IF Holds(t, e, name, value) THEN [found |-> e, next |-> e]
        ELSE FoldLeft(LAMBDA s, k : IF s.found # NULL THEN s ELSE scan[s.next],
                      [found |-> NULL, next |-> e + 1],
                      [k \in 1 .. Node(t, e).children |-> k])
  IN scan[1].found

(* EFI_get_frequency(): none unless the property has the size of a number.  *)
Frequency(t, name) ==
  LET e == DTLookupEntry(t, NULL, <<"efi", "platform">>) IN
  IF e = NULL \/ DTGetProperty(t, e, name).code = Error THEN "none"
  ELSE LET p == DTGetProperty(t, e, name).prop IN IF p.size = 8 THEN p.value ELSE "none"

----------------------------------------------------------------------------
VARIABLES tree, answer,   \* the tree; the last look-up and what it answered
          iter,           \* the one iterator: scope, entry, index, and whether scopes are saved
          saved,          \* the one saved scope, at a fixed address
          entered,        \* ghost: the scopes DTEnterEntry was called in, with their positions
          calls

treeVars == <<tree, answer, iter, saved, entered, calls>>

AtStart(e) == [scope |-> e, entry |-> NULL, index |-> 0]
TreeInit ==
  /\ tree \in Trees
  /\ answer = [call |-> "none"]
  /\ iter = AtStart(1)
  /\ saved = [on |-> FALSE, next |-> FALSE, at |-> AtStart(1)]
  /\ entered = <<>> /\ calls = 0

Ask(call) ==
  /\ calls = 0
  /\ answer' = call
  /\ UNCHANGED <<tree, iter, saved, entered, calls>>

GetProperty ==
  \E e \in DOMAIN tree, n \in Names :
    Ask([call |-> "DTGetProperty", entry |-> e, name |-> n, got |-> DTGetProperty(tree, e, n)])
FindByProperty ==
  \E n, v \in Names :
    Ask([call |-> "DTFindEntry", name |-> n, value |-> v, got |-> FindEntry(tree, n, v)])
LookUp ==
  \E w1, w2 \in Names :
    Ask([call |-> "DTLookupEntry", path |-> <<w1, w2>>,
         got |-> DTLookupEntry(tree, NULL, <<w1, w2>>)])
AskFrequency ==
  \E n \in Names :
    Ask([call |-> "EFI_get_frequency", name |-> n, got |-> Frequency(tree, n)])

(* The iterator.                                                            *)
Called ==
  /\ calls < MaxCalls /\ answer.call = "none"
  /\ calls' = calls + 1
  /\ UNCHANGED <<tree, answer>>

DTIterateEntries ==
  /\ Called
  /\ InTree(tree, iter.scope) /\ iter.index < Node(tree, iter.scope).children
  /\ iter' = [iter EXCEPT !.index = @ + 1,
                          !.entry = IF iter.index = 0 THEN skipProperties(tree, iter.scope)
                                    ELSE skipTree(tree)[@]]
  /\ UNCHANGED <<saved, entered>>

(* The scope that is saved overwrites the one saved before, whose address   *)
(* becomes its own successor.                                               *)
DTEnterEntry ==
  /\ Called
  /\ iter.entry # NULL
  /\ saved' = [on |-> TRUE, next |-> saved.on, at |-> iter]
  /\ iter' = AtStart(iter.entry)
  /\ entered' = Append(entered, iter)

DTExitEntry ==
  /\ Called
  /\ saved.on
  /\ saved' = [saved EXCEPT !.on = saved.next]
  /\ iter' = saved.at
  /\ entered' = IF entered = <<>> THEN entered ELSE Front(entered)

DTRestartEntryIteration ==
  /\ Called
  /\ iter' = AtStart(iter.scope)
  /\ UNCHANGED <<saved, entered>>

TreeNext ==
  \/ GetProperty \/ FindByProperty \/ LookUp \/ AskFrequency
  \/ DTIterateEntries \/ DTEnterEntry \/ DTExitEntry \/ DTRestartEntryIteration
TreeSpec == TreeInit /\ [][TreeNext]_treeVars

----------------------------------------------------------------------------
(* "Get the value of the specified property for the specified entry"        *)
(* (device_tree.h 190): what is answered has the name that was asked for.   *)
GivesTheNamed ==
  answer.call = "DTGetProperty" /\ answer.got.code = Success =>
    answer.got.prop.name = answer.name

(* The tree is in pre-order: a node belongs to the last one before it that  *)
(* still lacks a child.                                                     *)
Innermost(lacks) == Max({e \in DOMAIN lacks : lacks[e] > 0} \cup {NULL})
Fewer(lacks) ==
  IF Innermost(lacks) = NULL THEN lacks ELSE [lacks EXCEPT ![Innermost(lacks)] = @ - 1]
Lacking(t) ==      \* the children each node still lacks when n nodes are placed
  LET lacks[n \in 0 .. Len(t)] ==
        IF n = 0 THEN [e \in 1 .. Len(t) |-> 0]
        ELSE [Fewer(lacks[n - 1]) EXCEPT ![n] = Node(t, n).children]
  IN lacks
Parent(t, n) == Innermost(Lacking(t)[n - 1])
ChildrenOf(t, e) == {n \in 1 .. Len(t) : Parent(t, n) = e}

(* An image is one tree, and has all its nodes.                             *)
ASSUME TreesAssumption ==
  \A t \in Trees :
    /\ DOMAIN t = 1 .. Len(t) /\ Len(t) \in Nat \ {0}
    /\ \A e \in 1 .. Len(t) : Node(t, e).children \in Nat
    /\ \A e \in 1 .. Len(t) : Lacking(t)[Len(t)][e] = 0

Plain(t) == \A e \in DOMAIN t : Node(t, e).props # <<>>

(* As long as every node has a property, the iterator goes through the      *)
(* children of its scope in order, also in a scope that was entered or left *)
(* again; and as long as no scope was entered in an entered one, the scope  *)
(* that is kept is the one to return to (DeviceTree.c 58-90, 258-351).      *)
IteratorInPlace ==
  Plain(tree) =>
    /\ IF iter.index = 0 THEN iter.entry = NULL
       ELSE /\ iter.entry \in ChildrenOf(tree, iter.scope)
            /\ Cardinality({c \in ChildrenOf(tree, iter.scope) : c < iter.entry}) = iter.index - 1
    /\ saved.on /\ ~saved.next => saved.at = Last(entered)
=============================================================================

---------------------------- MODULE Circuit_proofs ----------------------------
(***************************************************************************)
(* Theorems about a Circuit: first about its variables, for any number of  *)
(* them, whatever is asserted to be equal and in whatever order.           *)
(*                                                                         *)
(* That real_variable_index tells the classes apart is not inductive: when *)
(* two classes are linked, the walks over the lists have to find the first *)
(* variable of the one and all those of the other.  So the invariant says  *)
(* that the links of a class are one list: from its first variable the     *)
(* next ones lead through all of it to the real variable (IsList), and the *)
(* previous ones lead back (LinksInverse).                                 *)
(*                                                                         *)
(* Then about its proofs and their verification, in every field in which   *)
(* the domains have roots of unity (CircuitFits).  The next of a wire in   *)
(* its cycle permutes the wires (NextPermutes), so that the factors of the *)
(* permuted terms are those of the identities, but for the public inputs'  *)
(* (CellsBalance); divided row by row they make the grand product          *)
(* (GrandProductIsDelta).  For the verifier, evaluations of what was       *)
(* compiled are those it computes from the point alone (ReadsOfAProof),    *)
(* and its five parts are the identity (PartsAreTheIdentity).              *)
(***************************************************************************)
EXTENDS Circuit, Arithmetic_proofs

VariableIndices == DOMAIN variables

ListsTyped ==
    /\ NextIndex \in Nat
    /\ NextIndex <= MaxVariables
    /\ VariableIndices = 0 .. NextIndex - 1
    /\ real_variable_index \in [VariableIndices -> VariableIndices]
    /\ next_var_index \in [VariableIndices -> VariableIndices \cup {REAL_VARIABLE}]
    /\ prev_var_index \in [VariableIndices -> VariableIndices \cup {FIRST_VARIABLE_IN_CLASS}]

LinksInverse ==
    \A i, j \in VariableIndices : next_var_index[i] = j <=> prev_var_index[j] = i

\* A class is one list, from `first` to `real`.
IsList(class, first, real) ==
    /\ first \in class /\ prev_var_index[first] = FIRST_VARIABLE_IN_CLASS
    /\ real \in class /\ next_var_index[real] = REAL_VARIABLE
    /\ \A i \in class : real_variable_index[i] = real
    /\ \A i \in class \ {first} : prev_var_index[i] \in class
    /\ \A i \in class \ {real} : next_var_index[i] \in class
    /\ \A S \in SUBSET class :
          first \in S /\ (\A i \in S \ {real} : next_var_index[i] \in S) => S = class

ClassesPartition ==
    /\ \A class \in classes : class \subseteq VariableIndices
    /\ \A i \in VariableIndices : \E class \in classes : i \in class
    /\ \A class, other \in classes : class \cap other # {} => class = other

ClassesAreLists == \A class \in classes : \E first, real : IsList(class, first, real)

PublicOnce ==
    /\ public_inputs \in Seq(VariableIndices)
    /\ \A i, j \in DOMAIN public_inputs : public_inputs[i] = public_inputs[j] => i = j

ListInv == ListsTyped /\ LinksInverse /\ ClassesPartition /\ ClassesAreLists

IInv == ListInv /\ PublicOnce

LEMMA MarkersApart ==
    ASSUME ListsTyped
    PROVE  REAL_VARIABLE \notin VariableIndices /\ FIRST_VARIABLE_IN_CLASS \notin VariableIndices
<1>1. \A i \in VariableIndices : i \in 0 .. MaxVariables - 1
  BY MarkersAssumption DEF ListsTyped
<1>2. QED
  BY <1>1, MarkersAssumption

-----------------------------------------------------------------------------
(* What the walks visit.                                                     *)

(* Backwards from a variable of a list is its first one.                     *)
LEMMA FirstOfList ==
    ASSUME ListsTyped, LinksInverse, NEW class, class \subseteq VariableIndices,
           NEW first, NEW real, IsList(class, first, real), NEW a \in class
    PROVE  get_first_variable_in_class(a) = first
<1> DEFINE visited == Visited(prev_var_index, a)
<1>1. /\ FIRST_VARIABLE_IN_CLASS \notin VariableIndices
      /\ DOMAIN prev_var_index = VariableIndices
  BY MarkersApart DEF ListsTyped
<1>2. visited \subseteq class
  <2>1. \A j \in class : prev_var_index[j] \in VariableIndices => prev_var_index[j] \in class
    BY <1>1 DEF IsList
  <2>2. QED
    BY <1>1, <2>1 DEF Visited
<1>3. first \in visited
  <2> SUFFICES ASSUME NEW S \in SUBSET VariableIndices, a \in S,
                      \A j \in S : prev_var_index[j] \in VariableIndices => prev_var_index[j] \in S
               PROVE  first \in S
    BY <1>1 DEF Visited, IsList
  <2> DEFINE T == class \ S
  <2>1. \A i \in T \ {real} : next_var_index[i] \in T
    <3> SUFFICES ASSUME NEW i \in T \ {real}, next_var_index[i] \in S
                 PROVE  FALSE
      BY DEF IsList
    <3>1. next_var_index[i] \in VariableIndices /\ i \in VariableIndices
      BY DEF IsList
    <3>2. prev_var_index[next_var_index[i]] = i
      BY <3>1 DEF LinksInverse
    <3>3. QED
      BY <3>1, <3>2
  <2>2. first \in T => T = class
    BY <2>1 DEF IsList
  <2>3. QED
    BY <2>2 DEF IsList
<1>4. \A i \in visited : prev_var_index[i] = FIRST_VARIABLE_IN_CLASS <=> i = first
  BY <1>1, <1>2 DEF IsList
<1>5. QED
  BY <1>3, <1>4 DEF get_first_variable_in_class

(* Forwards from the first of a list is all of it.                           *)
LEMMA ListFromFirst ==
    ASSUME ListsTyped, NEW class, class \subseteq VariableIndices,
           NEW first, NEW real, IsList(class, first, real)
    PROVE  Visited(next_var_index, first) = class
<1> DEFINE visited == Visited(next_var_index, first)
<1>1. /\ REAL_VARIABLE \notin VariableIndices
      /\ DOMAIN next_var_index = VariableIndices
  BY MarkersApart DEF ListsTyped
<1>2. visited \subseteq class
  <2>1. \A j \in class : next_var_index[j] \in VariableIndices => next_var_index[j] \in class
    BY <1>1 DEF IsList
  <2>2. first \in class
    BY DEF IsList
  <2>3. QED
    BY <1>1, <2>1, <2>2 DEF Visited
<1>3. class \subseteq visited
  <2> SUFFICES ASSUME NEW S \in SUBSET VariableIndices, first \in S,
                      \A j \in S : next_var_index[j] \in VariableIndices => next_var_index[j] \in S
               PROVE  class \subseteq S
    BY <1>1 DEF Visited
  <2> DEFINE T == class \cap S
  <2>1. \A i \in T \ {real} : next_var_index[i] \in T
    BY DEF IsList
  <2>2. T = class
    BY <2>1 DEF IsList
  <2>3. QED
    BY <2>2
<1>4. QED
  BY <1>2, <1>3

(* The real variable tells the classes apart.                                *)
LEMMA RealTellsApart ==
    ASSUME ClassesPartition, ClassesAreLists,
           NEW class \in classes, NEW first, NEW real, IsList(class, first, real),
           NEW a \in VariableIndices, real_variable_index[a] = real
    PROVE  a \in class
<1>1. PICK other \in classes : a \in other
  BY DEF ClassesPartition
<1>2. PICK f, r : IsList(other, f, r)
  BY DEF ClassesAreLists
<1>3. r = real
  BY <1>1, <1>2 DEF IsList
<1>4. real \in class \cap other
  BY <1>2, <1>3 DEF IsList
<1>5. QED
  BY <1>1, <1>4 DEF ClassesPartition

-----------------------------------------------------------------------------
(* The invariant, kept by each operation.                                    *)

LEMMA InitIInv == Init => IInv
<1> SUFFICES ASSUME Init
             PROVE  IInv
  OBVIOUS
<1>1. VariableIndices = {} /\ NextIndex = 0
  BY FS_EmptySet DEF Init, ComposerInit, NextIndex, VariableIndices
<1>2. ListsTyped
  BY <1>1, MarkersAssumption DEF Init, ComposerInit, ListsTyped
<1>3. QED
  BY <1>1, <1>2 DEF Init, ComposerInit, IInv, ListInv, LinksInverse, ClassesPartition,
                    ClassesAreLists, PublicOnce

(* A new variable is a list of its own.                                      *)
LEMMA AddKeepsLists ==
    ASSUME ListInv, NextIndex < MaxVariables, NEW value, AddVariable(value),
           classes' = classes \cup {{NextIndex}}
    PROVE  ListInv' /\ VariableIndices' = VariableIndices \cup {NextIndex} /\ NextIndex \notin VariableIndices
<1>0. PICK k : k = NextIndex
  OBVIOUS
<1>1. /\ k \in Nat /\ VariableIndices = 0 .. k - 1 /\ k \notin VariableIndices
      /\ k < MaxVariables /\ MaxVariables \in Nat
  BY <1>0, MarkersAssumption DEF ListInv, ListsTyped
<1>2. /\ variables' = Pushed(variables, k, value)
      /\ next_var_index' = Pushed(next_var_index, k, REAL_VARIABLE)
      /\ prev_var_index' = Pushed(prev_var_index, k, FIRST_VARIABLE_IN_CLASS)
      /\ real_variable_index' = Pushed(real_variable_index, k, k)
  BY <1>0 DEF AddVariable, NextIndex
<1>3. /\ DOMAIN variables = VariableIndices /\ DOMAIN next_var_index = VariableIndices
      /\ DOMAIN prev_var_index = VariableIndices /\ DOMAIN real_variable_index = VariableIndices
  BY DEF ListInv, ListsTyped, VariableIndices
<1>4. VariableIndices' = VariableIndices \cup {k}
  BY <1>2, <1>3 DEF VariableIndices, Pushed
<1>5. NextIndex' = k + 1
  <2>1. VariableIndices' = 0 .. k
    BY <1>1, <1>4
  <2>2. Cardinality(0 .. k) = k + 1
    BY <1>1, FS_Interval
  <2>3. QED
    BY <2>1, <2>2 DEF NextIndex, VariableIndices
<1>6. /\ \A i \in VariableIndices : /\ next_var_index'[i] = next_var_index[i]
                             /\ prev_var_index'[i] = prev_var_index[i]
                             /\ real_variable_index'[i] = real_variable_index[i]
      /\ next_var_index'[k] = REAL_VARIABLE
      /\ prev_var_index'[k] = FIRST_VARIABLE_IN_CLASS
      /\ real_variable_index'[k] = k
  BY <1>1, <1>2, <1>3 DEF Pushed
<1>7. /\ next_var_index' = [i \in VariableIndices' |-> next_var_index'[i]]
      /\ prev_var_index' = [i \in VariableIndices' |-> prev_var_index'[i]]
      /\ real_variable_index' = [i \in VariableIndices' |-> real_variable_index'[i]]
  BY <1>2, <1>3, <1>4 DEF Pushed
<1>8. ListsTyped'
  <2>1. NextIndex' \in Nat /\ NextIndex' <= MaxVariables /\ VariableIndices' = 0 .. NextIndex' - 1
    BY <1>1, <1>4, <1>5
  <2>2. \A i \in VariableIndices' : /\ real_variable_index'[i] \in VariableIndices'
                            /\ next_var_index'[i] \in VariableIndices' \cup {REAL_VARIABLE}
                            /\ prev_var_index'[i] \in VariableIndices' \cup {FIRST_VARIABLE_IN_CLASS}
    BY <1>4, <1>6 DEF ListInv, ListsTyped
  <2>3. QED
    BY <1>7, <2>1, <2>2 DEF ListsTyped
<1>9. REAL_VARIABLE \notin VariableIndices' /\ FIRST_VARIABLE_IN_CLASS \notin VariableIndices'
  <2>1. \A i \in VariableIndices' : i \in 0 .. MaxVariables - 1
    BY <1>1, <1>4
  <2>2. QED
    BY <2>1, MarkersAssumption
<1>10. LinksInverse'
  <2>1. \A i \in VariableIndices : next_var_index[i] # k /\ prev_var_index[i] # k
    BY <1>1, <1>4, <1>9 DEF ListInv, ListsTyped
  <2>2. QED
    BY <1>1, <1>4, <1>6, <1>9, <2>1 DEF ListInv, LinksInverse
<1>11. ClassesPartition'
  <2>1. classes' = classes \cup {{k}}
    BY <1>0
  <2>2. \A class \in classes : k \notin class /\ class \subseteq VariableIndices
    BY <1>1 DEF ListInv, ClassesPartition
  <2>3. \A class \in classes' : class \subseteq VariableIndices'
    BY <1>4, <2>1, <2>2
  <2>4. \A i \in VariableIndices' : \E class \in classes' : i \in class
    BY <1>4, <2>1 DEF ListInv, ClassesPartition
  <2>5. ASSUME NEW class \in classes', NEW other \in classes', class \cap other # {}
        PROVE  class = other
    <3>1. PICK i \in class : i \in other
      BY <2>5
    <3>2. CASE i = k
      BY <2>1, <2>2, <3>1, <3>2
    <3>3. CASE i # k
      <4>1. class \in classes /\ other \in classes
        BY <2>1, <3>1, <3>3
      <4>2. QED
        BY <2>5, <4>1 DEF ListInv, ClassesPartition
    <3>4. QED
      BY <3>2, <3>3
  <2>6. QED
    BY <2>3, <2>4, <2>5 DEF ClassesPartition
<1>12. ClassesAreLists'
  <2> SUFFICES ASSUME NEW class \in classes \cup {{k}}
               PROVE  \E first, real : IsList(class, first, real)'
    BY <1>0 DEF ClassesAreLists
  <2>1. CASE class \in classes
    <3>1. PICK first, real : IsList(class, first, real)
      BY <2>1 DEF ListInv, ClassesAreLists
    <3>2. class \subseteq VariableIndices
      BY <2>1 DEF ListInv, ClassesPartition
    <3>3. IsList(class, first, real)'
      BY <1>6, <3>1, <3>2 DEF IsList
    <3>4. QED
      BY <3>3
  <2>2. CASE class = {k}
    <3>1. IsList({k}, k, k)'
      BY <1>6 DEF IsList
    <3>2. QED
      BY <2>2, <3>1
  <2>3. QED
    BY <2>1, <2>2
<1>13. QED
  BY <1>0, <1>1, <1>4, <1>8, <1>10, <1>11, <1>12 DEF ListInv

(* Two lists become one: the links of the last of b's and the first of a's.  *)
LEMMA EqualKeepsLists ==
    ASSUME ListInv, NEW a \in VariableIndices, NEW b \in VariableIndices, assert_equal(a, b),
           classes' = LET merged == {class \in classes : a \in class \/ b \in class}
                      IN  (classes \ merged) \cup {UNION merged}
    PROVE  ListInv'
<1>1. /\ ListsTyped /\ LinksInverse /\ ClassesPartition /\ ClassesAreLists
      /\ REAL_VARIABLE \notin VariableIndices /\ FIRST_VARIABLE_IN_CLASS \notin VariableIndices
      /\ VariableIndices' = VariableIndices /\ NextIndex' = NextIndex
  BY MarkersApart DEF ListInv, assert_equal, VariableIndices, NextIndex
<1>2. PICK A \in classes, B \in classes : a \in A /\ b \in B
  BY <1>1 DEF ClassesPartition
<1>3. {class \in classes : a \in class \/ b \in class} = {A, B}
  BY <1>1, <1>2 DEF ClassesPartition
<1>4. classes' = (classes \ {A, B}) \cup {A \cup B}
  BY <1>3
<1>5. PICK a_first, a_real, b_first, b_real :
         IsList(A, a_first, a_real) /\ IsList(B, b_first, b_real)
  BY <1>1, <1>2 DEF ClassesAreLists
<1>6. A \subseteq VariableIndices /\ B \subseteq VariableIndices
  BY <1>1, <1>2 DEF ClassesPartition
<1>7. real_variable_index[a] = a_real /\ real_variable_index[b] = b_real
  BY <1>2, <1>5 DEF IsList
<1>8. get_first_variable_in_class(a) = a_first /\ get_first_variable_in_class(b) = b_first
  BY <1>1, <1>2, <1>5, <1>6, FirstOfList
<1>9. Visited(next_var_index, b_first) = B
  BY <1>1, <1>5, <1>6, ListFromFirst
<1>10. CASE a_real = b_real
  <2>1. A = B
    BY <1>1, <1>2, <1>5, <1>10 DEF IsList, ClassesPartition
  <2>2. classes' = classes /\ UNCHANGED classVars
    BY <1>2, <1>4, <1>7, <1>10, <2>1 DEF assert_equal
  <2>3. ListsTyped' /\ LinksInverse'
    BY <1>1, <2>2 DEF classVars, ListsTyped, LinksInverse
  <2>4. ClassesPartition'
    BY <1>1, <2>2 DEF ClassesPartition
  <2>5. ASSUME NEW class \in classes
        PROVE  \E first, real : IsList(class, first, real)'
    <3>1. PICK first, real : IsList(class, first, real)
      BY <1>1 DEF ClassesAreLists
    <3>2. IsList(class, first, real)'
      BY <2>2, <3>1 DEF classVars, IsList
    <3>3. QED
      BY <3>2
  <2>6. QED
    BY <2>2, <2>3, <2>4, <2>5 DEF ListInv, ClassesAreLists
<1>11. CASE a_real # b_real
  <2>1. A \cap B = {} /\ a_first # b_first
    BY <1>1, <1>2, <1>5, <1>11 DEF IsList, ClassesPartition
  <2>2. /\ next_var_index' = [next_var_index EXCEPT ![b_real] = a_first]
        /\ prev_var_index' = [prev_var_index EXCEPT ![a_first] = b_real]
        /\ real_variable_index' = [i \in VariableIndices |-> IF i \in B THEN a_real
                                                     ELSE real_variable_index[i]]
    BY <1>1, <1>7, <1>8, <1>9, <1>11 DEF assert_equal, update_real_variable_indices, ListsTyped
  <2>3. /\ a_first \in VariableIndices /\ a_real \in VariableIndices /\ b_first \in VariableIndices
        /\ b_real \in VariableIndices
    BY <1>5, <1>6 DEF IsList
  <2>4. ListsTyped'
    BY <1>1, <2>2, <2>3 DEF ListsTyped
  <2>5. LinksInverse'
    <3>1. next_var_index[b_real] = REAL_VARIABLE /\ prev_var_index[a_first] = FIRST_VARIABLE_IN_CLASS
      BY <1>5 DEF IsList
    <3>2. SUFFICES ASSUME NEW i \in VariableIndices, NEW j \in VariableIndices
                   PROVE  next_var_index'[i] = j <=> prev_var_index'[j] = i
      BY <1>1 DEF LinksInverse
    <3>3. /\ next_var_index'[i] = IF i = b_real THEN a_first ELSE next_var_index[i]
          /\ prev_var_index'[j] = IF j = a_first THEN b_real ELSE prev_var_index[j]
      BY <1>1, <2>2 DEF ListsTyped
    <3>4. next_var_index[i] = j <=> prev_var_index[j] = i
      BY <1>1 DEF LinksInverse
    <3>5. /\ i = b_real => next_var_index[i] # j
          /\ j = a_first => prev_var_index[j] # i
      BY <1>1, <3>1
    <3>6. QED
      BY <3>3, <3>4, <3>5
  <2>6. ClassesPartition'
    <3>1. \A class \in classes' : class \subseteq VariableIndices'
      BY <1>1, <1>4, <1>6 DEF ClassesPartition
    <3>2. ASSUME NEW i \in VariableIndices
          PROVE  \E class \in classes' : i \in class
      <4>1. PICK class \in classes : i \in class
        BY <1>1 DEF ClassesPartition
      <4>2. CASE class \in {A, B}
        <5>1. i \in A \cup B
          BY <4>1, <4>2
        <5>2. A \cup B \in classes'
          BY <1>4
        <5>3. QED
          BY <5>1, <5>2
      <4>3. CASE class \notin {A, B}
        BY <1>4, <4>1, <4>3
      <4>4. QED
        BY <4>2, <4>3
    <3>3. ASSUME NEW class \in classes \ {A, B}
          PROVE  class \cap (A \cup B) = {}
      BY <1>1, <1>2 DEF ClassesPartition
    <3>4. \A class, other \in classes' : class \cap other # {} => class = other
      BY <1>1, <1>4, <3>3 DEF ClassesPartition
    <3>5. QED
      BY <1>1, <3>1, <3>2, <3>4 DEF ClassesPartition
  <2>7. /\ \A i \in VariableIndices \ B : next_var_index'[i] = next_var_index[i]
        /\ \A i \in B \ {b_real} : next_var_index'[i] = next_var_index[i]
        /\ \A i \in VariableIndices \ A : prev_var_index'[i] = prev_var_index[i]
        /\ \A i \in A \ {a_first} : prev_var_index'[i] = prev_var_index[i]
        /\ \A i \in VariableIndices \ B : real_variable_index'[i] = real_variable_index[i]
        /\ \A i \in B : real_variable_index'[i] = a_real
        /\ next_var_index'[b_real] = a_first /\ prev_var_index'[a_first] = b_real
    BY <1>1, <1>5, <1>6, <2>2, <2>3 DEF IsList, ListsTyped
  <2>8. ASSUME NEW class \in classes, class # A, class # B
        PROVE  \E first, real : IsList(class, first, real)'
    <3>1. class \cap A = {} /\ class \cap B = {} /\ class \subseteq VariableIndices
      BY <1>1, <1>2, <2>8 DEF ClassesPartition
    <3>2. PICK first, real : IsList(class, first, real)
      BY <1>1 DEF ClassesAreLists
    <3>3. IsList(class, first, real)'
      BY <2>7, <3>1, <3>2 DEF IsList
    <3>4. QED
      BY <3>3
  <2>9. IsList(A \cup B, b_first, a_real)'
    <3>1. /\ b_first \in A \cup B /\ prev_var_index'[b_first] = FIRST_VARIABLE_IN_CLASS
          /\ a_real \in A \cup B /\ next_var_index'[a_real] = REAL_VARIABLE
          /\ \A i \in A \cup B : real_variable_index'[i] = a_real
      BY <1>5, <1>6, <2>1, <2>7 DEF IsList
    <3>2. \A i \in (A \cup B) \ {b_first} : prev_var_index'[i] \in A \cup B
      BY <1>5, <1>6, <2>1, <2>7 DEF IsList
    <3>3. \A i \in (A \cup B) \ {a_real} : next_var_index'[i] \in A \cup B
      BY <1>5, <1>6, <2>1, <2>7 DEF IsList
    <3>4. ASSUME NEW S \in SUBSET (A \cup B), b_first \in S,
                 \A i \in S \ {a_real} : next_var_index'[i] \in S
          PROVE  S = A \cup B
      <4>1. \A i \in (S \cap B) \ {b_real} : next_var_index[i] \in S \cap B
        BY <1>5, <1>6, <2>1, <2>7, <3>4 DEF IsList
      <4>2. S \cap B = B
        BY <1>5, <3>4, <4>1 DEF IsList
      <4>3. a_first \in S
        BY <1>5, <2>1, <2>7, <3>4, <4>2 DEF IsList
      <4>4. \A i \in (S \cap A) \ {a_real} : next_var_index[i] \in S \cap A
        BY <1>5, <1>6, <2>1, <2>7, <3>4 DEF IsList
      <4>5. S \cap A = A
        BY <1>5, <4>3, <4>4 DEF IsList
      <4>6. QED
        BY <4>2, <4>5
    <3>5. QED
      BY <3>1, <3>2, <3>3, <3>4 DEF IsList
  <2>10. ClassesAreLists'
    <3> SUFFICES ASSUME NEW class \in classes'
                 PROVE  \E first, real : IsList(class, first, real)'
      BY DEF ClassesAreLists
    <3>1. CASE class = A \cup B
      BY <2>9, <3>1
    <3>2. CASE class \in classes \ {A, B}
      BY <2>8, <3>2
    <3>3. QED
      BY <1>4, <3>1, <3>2
  <2>11. QED
    BY <2>4, <2>5, <2>6, <2>10 DEF ListInv
<1>12. QED
  BY <1>10, <1>11

(* The other operations change no list.                                      *)
LEMMA SameLists ==
    ASSUME ListInv, UNCHANGED <<variables, next_var_index, prev_var_index,
                                real_variable_index, classes>>
    PROVE  ListInv' /\ VariableIndices' = VariableIndices
<1>1. ListsTyped' /\ LinksInverse' /\ VariableIndices' = VariableIndices
  BY DEF ListInv, ListsTyped, LinksInverse, VariableIndices, NextIndex
<1>2. ClassesPartition'
  BY <1>1 DEF ListInv, ClassesPartition
<1>3. ClassesAreLists'
  <2> SUFFICES ASSUME NEW class \in classes
               PROVE  \E first, real : IsList(class, first, real)'
    BY DEF ClassesAreLists
  <2>1. PICK first, real : IsList(class, first, real)
    BY DEF ListInv, ClassesAreLists
  <2>2. IsList(class, first, real)'
    BY <2>1 DEF IsList
  <2>3. QED
    BY <2>2
<1>4. QED
  BY <1>1, <1>2, <1>3 DEF ListInv

(* A public input is pushed once.                                            *)
LEMMA PushKeepsPublic ==
    ASSUME PublicOnce, NEW index \in VariableIndices', VariableIndices \subseteq VariableIndices',
           index \notin ToSet(public_inputs), public_inputs' = Append(public_inputs, index)
    PROVE  PublicOnce'
<1>1. public_inputs \in Seq(VariableIndices')
  BY DEF PublicOnce
<1>2. public_inputs' \in Seq(VariableIndices')
  BY <1>1
<1>3. /\ DOMAIN public_inputs' = 1 .. Len(public_inputs) + 1
      /\ DOMAIN public_inputs = 1 .. Len(public_inputs) /\ Len(public_inputs) \in Nat
      /\ \A i \in DOMAIN public_inputs : public_inputs'[i] = public_inputs[i]
      /\ public_inputs'[Len(public_inputs) + 1] = index
  BY <1>1
<1>4. \A i \in DOMAIN public_inputs : public_inputs[i] # index
  BY DEF ToSet
<1>5. \A i, j \in DOMAIN public_inputs' : public_inputs'[i] = public_inputs'[j] => i = j
  BY <1>3, <1>4 DEF PublicOnce
<1>6. QED
  BY <1>2, <1>5 DEF PublicOnce

LEMMA NextIInv == IInv /\ [Next]_vars => IInv'
<1> SUFFICES ASSUME IInv, [Next]_vars
             PROVE  IInv'
  OBVIOUS
<1>a. /\ ListInv /\ PublicOnce
      /\ \A index \in ToSet(public_inputs) : index \in VariableIndices
  BY DEF IInv, PublicOnce, ToSet
<1>b. UNCHANGED public_inputs /\ VariableIndices \subseteq VariableIndices' => PublicOnce'
  BY <1>a DEF PublicOnce
<1>1. ASSUME NEW value \in Values, CallAddVariable(value)
      PROVE  IInv'
  <2>1. /\ NextIndex < MaxVariables /\ AddVariable(value)
        /\ classes' = classes \cup {{NextIndex}} /\ UNCHANGED public_inputs
    BY <1>1 DEF CallAddVariable, add_variable
  <2>2. ListInv' /\ VariableIndices' = VariableIndices \cup {NextIndex}
    BY <1>a, <2>1, AddKeepsLists
  <2>3. QED
    BY <1>b, <2>1, <2>2 DEF IInv
<1>2. ASSUME NEW value \in Values, CallAddPublicVariable(value)
      PROVE  IInv'
  <2>1. /\ NextIndex < MaxVariables /\ AddVariable(value)
        /\ classes' = classes \cup {{NextIndex}}
        /\ public_inputs' = Append(public_inputs, NextIndex)
    BY <1>2 DEF CallAddPublicVariable, add_public_variable, NextIndex
  <2>2. /\ ListInv' /\ VariableIndices' = VariableIndices \cup {NextIndex} /\ NextIndex \notin VariableIndices
    BY <1>a, <2>1, AddKeepsLists
  <2>3. NextIndex \notin ToSet(public_inputs)
    BY <1>a, <2>2
  <2>4. PublicOnce'
    BY <1>a, <2>1, <2>2, <2>3, PushKeepsPublic
  <2>5. QED
    BY <2>2, <2>4 DEF IInv
<1>3. ASSUME NEW index \in DOMAIN variables, CallSetPublicInput(index)
      PROVE  IInv'
  <2>1. ListInv' /\ VariableIndices' = VariableIndices
    BY <1>a, <1>3, SameLists DEF CallSetPublicInput, set_public_input, classVars
  <2>2. CASE does_not_exist(index)
    <3>1. public_inputs' = Append(public_inputs, index) /\ index \notin ToSet(public_inputs)
      BY <1>3, <2>2 DEF CallSetPublicInput, set_public_input, does_not_exist
    <3>2. index \in VariableIndices'
      BY <2>1 DEF VariableIndices
    <3>3. QED
      BY <1>a, <2>1, <3>1, <3>2, PushKeepsPublic DEF IInv
  <2>3. CASE ~ does_not_exist(index)
    BY <1>3, <1>b, <2>1, <2>3 DEF CallSetPublicInput, set_public_input, IInv
  <2>4. QED
    BY <2>2, <2>3
<1>4. ASSUME NEW a \in DOMAIN variables, NEW b \in DOMAIN variables, CallAssertEqual(a, b)
      PROVE  IInv'
  <2>1. ListInv'
    BY <1>a, <1>4, EqualKeepsLists DEF CallAssertEqual, VariableIndices
  <2>2. UNCHANGED <<variables, public_inputs>>
    BY <1>4 DEF CallAssertEqual, assert_equal
  <2>3. QED
    BY <1>b, <2>1, <2>2 DEF IInv, VariableIndices
<1>5. ASSUME UNCHANGED <<variables, next_var_index, prev_var_index, real_variable_index,
                         public_inputs, classes>>
      PROVE  IInv'
  BY <1>a, <1>b, <1>5, SameLists DEF IInv
<1>6. ASSUME NEW indices \in Gates, CallCreateGate(indices)
      PROVE  IInv'
  BY <1>5, <1>6 DEF CallCreateGate, create_gate, classVars
<1>7. ASSUME \/ \E with_tags \in BOOLEAN : Compile(with_tags)
             \/ \E challenges \in Challenges : Prove(challenges[1], challenges[2])
             \/ \E query \in Queries : Verify(query)
             \/ UNCHANGED vars
      PROVE  IInv'
  BY <1>5, <1>7 DEF Compile, Prove, Verify, vars, composerVars
<1>8. QED
  BY <1>1, <1>2, <1>3, <1>4, <1>6, <1>7 DEF Next

LEMMA Invariance == Spec => []IInv
  BY InitIInv, NextIInv, PTL DEF Spec

(* The lists of a composer are those of its variables, linked both ways, and *)
(* no variable becomes a public input twice.                                 *)
THEOREM ListsTypeCorrect == Spec => []TypeOK
<1>1. IInv => TypeOK
  <2> SUFFICES ASSUME IInv
               PROVE  TypeOK
    OBVIOUS
  <2>1. ListsTyped /\ LinksInverse /\ PublicOnce
    BY DEF IInv, ListInv
  <2>2. ToSet(public_inputs) \subseteq VariableIndices
    BY <2>1 DEF PublicOnce, ToSet
  <2>3. QED
    BY <2>1, <2>2 DEF TypeOK, ListsTyped, LinksInverse, PublicOnce, VariableIndices
<1>2. QED
  BY <1>1, Invariance, PTL

(* However classes are linked, variables share their real variable, and so   *)
(* their value, if and only if a chain of assertions says they are equal.    *)
THEOREM RealVariablesAreTheClasses == Spec => []ClassesAreThoseAsserted
<1>1. IInv => ClassesAreThoseAsserted
  <2> SUFFICES ASSUME IInv, NEW class \in classes
               PROVE  \E real \in class :
                         /\ next_var_index[real] = REAL_VARIABLE
                         /\ \A a \in VariableIndices : real_variable_index[a] = real <=> a \in class
    BY DEF ClassesAreThoseAsserted, VariableIndices
  <2>1. ClassesPartition /\ ClassesAreLists
    BY DEF IInv, ListInv
  <2>2. PICK first, real : IsList(class, first, real)
    BY <2>1 DEF ClassesAreLists
  <2>3. \A a \in VariableIndices : real_variable_index[a] = real <=> a \in class
    BY <2>1, <2>2, RealTellsApart DEF IsList
  <2>4. QED
    BY <2>2, <2>3 DEF IsList
<1>2. QED
  BY <1>1, Invariance, PTL

-----------------------------------------------------------------------------
(* The widget's operators.                                                  *)

(* The powers of the root that the widget takes two at a time.               *)
LEMMA EndRootIsPower ==
    ASSUME NEW F, Field(F), NEW w \in F, NEW k \in Nat
    PROVE  l_end_root(w, k) = field_pow(w, k + 1)
<1> DEFINE ww == field_mul(w, w)
           h == k \div 2
<1>1. h \in Nat /\ (k = 2 * h \/ k = 2 * h + 1) /\ (k % 2 = 1 <=> k = 2 * h + 1)
  OBVIOUS
<1> HIDE DEF h
<1>2. ww \in F
  BY MulLaws
<1>3. field_pow(ww, h) = field_pow(w, 2 * h)
  <2>1. field_pow(ww, h) = field_mul(field_pow(w, h), field_pow(w, h))
    BY <1>1, PowerOfProduct
  <2>2. field_mul(field_pow(w, h), field_pow(w, h)) = field_pow(w, h + h)
    BY <1>1, PowerLaws
  <2>3. h + h = 2 * h
    BY <1>1
  <2>4. QED
    BY <2>1, <2>2, <2>3
<1>4. /\ \A j \in Nat : field_pow(w, j) \in F
      /\ \A j \in Nat : field_pow(w, j + 1) = field_mul(w, field_pow(w, j))
  BY PowerLaws DEF Field
<1>5. CASE k = 2 * h
  <2>1. l_end_root(w, k) = field_mul(w, field_pow(ww, h))
    BY <1>1, <1>5 DEF l_end_root, h
  <2>2. QED
    BY <1>1, <1>3, <1>4, <1>5, <2>1
<1>6. CASE k = 2 * h + 1
  <2>1. l_end_root(w, k) = field_mul(ww, field_pow(ww, h))
    BY <1>1, <1>6 DEF l_end_root, h
  <2>2. 2 * h \in Nat
    BY <1>1
  <2>3. field_mul(ww, field_pow(w, 2 * h)) = field_mul(w, field_mul(w, field_pow(w, 2 * h)))
    BY <1>4, <2>2, MulLaws
  <2>4. field_mul(w, field_pow(w, 2 * h)) = field_pow(w, 2 * h + 1)
    BY <1>4, <2>2
  <2>5. field_mul(w, field_pow(w, 2 * h + 1)) = field_pow(w, (2 * h + 1) + 1)
    BY <1>4, <2>2
  <2>6. QED
    BY <1>3, <1>6, <2>1, <2>3, <2>4, <2>5
<1>7. QED
  BY <1>1, <1>5, <1>6

\* A domain of n points, with its root and the inverse of n.
DomainIn(F, domain, n) ==
    /\ PowerOfTwo(n) /\ domain.root \in F /\ RootOf(domain.root, n)
    /\ Ones(n) # Zero /\ domain.domain_inverse = field_inverse(Ones(n))

(* l_start is L_1, and l_end is L_{n-k}, at every point where the verifier   *)
(* does not divide by zero.                                                  *)
LEMMA StartAndEnd ==
    ASSUME NEW F, Field(F), NEW n, NEW key, DomainIn(F, key.domain, n), NEW c, c.z \in F,
           key.z_pow_n = field_pow(c.z, n), key.num_roots \in 0 .. n - 1,
           StartDenominator(c) # Zero, EndDenominator(key, c) # Zero
    PROVE  /\ l_start(key, c) = Basis(key.domain.root, c.z, n, 0)
           /\ l_end(key, c) = Basis(key.domain.root, c.z, n, n - 1 - key.num_roots)
           /\ l_start(key, c) \in F /\ l_end(key, c) \in F
<1> DEFINE w == key.domain.root
           x == c.z
           k == key.num_roots
           i == n - 1 - k
           v == field_pow(w, k + 1)
<1>1. /\ PowerOfTwo(n) /\ w \in F /\ RootOf(w, n) /\ Ones(n) # Zero
      /\ key.domain.domain_inverse = field_inverse(Ones(n)) /\ x \in F /\ k \in 0 .. n - 1
  BY DEF DomainIn
<1> HIDE DEF w, x, k
<1>2. n \in Nat \ {0}
  BY <1>1, RootsOfUnity
<1>3. k \in Nat /\ i \in 0 .. n - 1 /\ 0 \in 0 .. n - 1 /\ k + 1 \in Nat /\ i \in Nat /\ (k + 1) + i = n
  BY <1>1, <1>2
<1> HIDE DEF i
<1>4. One \in F /\ field_mul(x, One) = x /\ field_mul(One, One) = One /\ field_pow(w, 0) = One
  BY <1>1, MulLaws DEF Field
<1>5. v \in F /\ field_mul(v, field_pow(w, i)) = One /\ l_end_root(w, k) = v
  <2>1. v \in F
    BY <1>1, <1>3, PowerLaws
  <2>2. field_mul(field_pow(w, k + 1), field_pow(w, i)) = field_pow(w, (k + 1) + i)
    BY <1>1, <1>3, PowerLaws
  <2>3. field_pow(w, n) = One
    BY <1>1, RootToOrder
  <2>4. QED
    BY <1>1, <1>3, <2>1, <2>2, <2>3, EndRootIsPower
<1>6. LagrangeNumerator(key) = field_mul(field_sub(field_pow(x, n), One), field_inverse(Ones(n)))
  BY <1>1 DEF LagrangeNumerator, x
<1>7. StartDenominator(c) = field_sub(field_mul(x, One), One)
  BY <1>4 DEF StartDenominator, x
<1>8. EndDenominator(key, c) = field_sub(field_mul(x, v), One)
  BY <1>5 DEF EndDenominator, x, w, k
<1> HIDE DEF v
<1>9. /\ Basis(w, x, n, 0) \in F
      /\ Basis(w, x, n, 0)
         = field_mul(field_mul(field_sub(field_pow(x, n), One), field_inverse(Ones(n))),
                     field_inverse(field_sub(field_mul(x, One), One)))
  <2>1. /\ field_mul(One, field_pow(w, 0)) = One /\ field_sub(field_mul(x, One), One) # Zero
    BY <1>4, <1>7
  <2>2. QED
    BY <1>1, <1>3, <1>4, <2>1, BasisValue
<1>10. /\ Basis(w, x, n, i) \in F
       /\ Basis(w, x, n, i)
          = field_mul(field_mul(field_sub(field_pow(x, n), One), field_inverse(Ones(n))),
                      field_inverse(field_sub(field_mul(x, v), One)))
  <2>1. field_sub(field_mul(x, v), One) # Zero
    BY <1>8
  <2>2. QED
    BY <1>1, <1>3, <1>5, <2>1, BasisValue
<1>11. /\ l_start(key, c) = Basis(w, x, n, 0)
       /\ l_end(key, c) = Basis(w, x, n, i)
  BY <1>6, <1>7, <1>8, <1>9, <1>10 DEF l_start, l_end
<1>12. QED
  BY <1>9, <1>10, <1>11 DEF w, x, k, i

\* One fact for the elements that a lemma is about.
AreIn(F, x1, x2, x3, x4, x5, x6) ==
    x1 \in F /\ x2 \in F /\ x3 \in F /\ x4 \in F /\ x5 \in F /\ x6 \in F

(* The parts' sum and the identity's, as sums of the same six.               *)
LEMMA SixTerms ==
    ASSUME NEW F, Field(F), NEW x1, NEW x2, NEW x3, NEW x4, NEW x5, NEW x6,
           AreIn(F, x1, x2, x3, x4, x5, x6)
    PROVE  field_add(field_add(field_sub(field_sub(x4, x5), x2), negated(x3)), field_add(x1, x6))
           = field_add(field_sub(x1, field_add(x2, x3)), field_add(x4, field_sub(x6, x5)))
<1> DEFINE n2 == negated(x2)
           n3 == negated(x3)
           n5 == negated(x5)
           l == field_add(field_add(x4, n5), field_add(n2, n3))
           r == field_add(n2, n3)
<1>0. x1 \in F /\ x2 \in F /\ x3 \in F /\ x4 \in F /\ x5 \in F /\ x6 \in F
  BY DEF AreIn
<1>1. \A a, b \in F : field_add(a, b) \in F /\ field_add(a, b) = field_add(b, a)
  BY AddLaws
<1>2. \A a, b, c \in F : field_add(a, field_add(b, c)) = field_add(field_add(a, b), c)
  BY AddLaws
<1>3. n2 \in F /\ n3 \in F /\ n5 \in F /\ \A a, b \in F : field_sub(a, b) = field_add(a, negated(b))
  BY <1>0, ZeroLaws
<1>4. negated(field_add(x2, x3)) = r /\ r \in F
  BY <1>0, <1>1, <1>3, SubLaws
<1>5. /\ field_sub(field_sub(x4, x5), x2) = field_add(field_add(x4, n5), n2)
      /\ field_sub(x6, x5) = field_add(x6, n5)
      /\ field_sub(x1, field_add(x2, x3)) = field_add(x1, r)
  <2>1. field_sub(x4, x5) = field_add(x4, n5) /\ field_add(x4, n5) \in F /\ field_add(x2, x3) \in F
    BY <1>0, <1>1, <1>3
  <2>2. QED
    BY <1>0, <1>3, <1>4, <2>1
<1> HIDE DEF n2, n3, n5, r
<1>6. field_add(field_add(field_add(x4, n5), n2), n3) = field_add(field_add(x4, n5), r)
  <2>1. field_add(x4, n5) \in F
    BY <1>0, <1>1, <1>3
  <2>2. QED
    BY <1>0, <1>2, <1>3, <2>1 DEF r
<1>7. \A a, b, c, d \in F :
         field_add(field_add(a, b), field_add(c, d)) = field_add(field_add(c, b), field_add(a, d))
  <2> SUFFICES ASSUME NEW a \in F, NEW b \in F, NEW c \in F, NEW d \in F
               PROVE  field_add(field_add(a, b), field_add(c, d))
                      = field_add(field_add(c, b), field_add(a, d))
    OBVIOUS
  <2>1. field_add(a, b) \in F /\ field_add(c, b) \in F /\ field_add(a, d) \in F /\ field_add(c, d) \in F
    BY <1>0, <1>1
  <2>2. field_add(field_add(a, b), field_add(c, d)) = field_add(field_add(field_add(a, b), c), d)
    BY <1>0, <1>2, <2>1
  <2>3. field_add(field_add(a, b), c) = field_add(field_add(c, b), a)
    <3>1. field_add(field_add(a, b), c) = field_add(c, field_add(b, a))
      BY <1>0, <1>1, <2>1
    <3>2. field_add(c, field_add(b, a)) = field_add(field_add(c, b), a)
      BY <1>0, <1>2
    <3>3. QED
      BY <3>1, <3>2
  <2>4. field_add(field_add(field_add(c, b), a), d) = field_add(field_add(c, b), field_add(a, d))
    BY <1>0, <1>2, <2>1
  <2>5. QED
    BY <2>2, <2>3, <2>4
<1>8. field_add(field_add(field_add(x4, n5), r), field_add(x1, x6))
      = field_add(field_add(x1, r), field_add(field_add(x4, n5), x6))
  <2>1. field_add(x4, n5) \in F
    BY <1>0, <1>1, <1>3
  <2>2. QED
    BY <1>0, <1>4, <1>7, <2>1
<1>9. field_add(field_add(x4, n5), x6) = field_add(x4, field_add(x6, n5))
  <2>1. field_add(x4, field_add(n5, x6)) = field_add(field_add(x4, n5), x6)
    BY <1>0, <1>2, <1>3
  <2>2. field_add(n5, x6) = field_add(x6, n5)
    BY <1>0, <1>1, <1>3
  <2>3. QED
    BY <2>1, <2>2
<1>10. QED
  BY <1>5, <1>6, <1>8, <1>9 DEF n3

(* The powers of alpha that the identity nests.                              *)
LEMMA ThreePowers ==
    ASSUME NEW F, Field(F), NEW a, NEW x, NEW y, NEW z, AreIn(F, a, a, a, x, y, z)
    PROVE  field_mul(a, field_add(x, field_mul(a, field_add(y, field_mul(a, z)))))
           = field_add(field_mul(a, x), field_add(field_mul(a, field_mul(a, y)),
                                                  field_mul(a, field_mul(a, field_mul(a, z)))))
<1>0. a \in F /\ x \in F /\ y \in F /\ z \in F
  BY DEF AreIn
<1>1. \A b, c \in F : field_mul(b, c) \in F /\ field_add(b, c) \in F
  BY AddLaws, MulLaws
<1>2. \A b, c \in F : field_mul(a, field_add(b, c)) = field_add(field_mul(a, b), field_mul(a, c))
  BY <1>0 DEF Field
<1>3. PICK az \in F : az = field_mul(a, z)
  BY <1>0, <1>1
<1>4. PICK inner \in F : inner = field_add(y, az)
  BY <1>0, <1>1
<1>5. field_mul(a, inner) = field_add(field_mul(a, y), field_mul(a, az))
  BY <1>0, <1>2, <1>3, <1>4
<1>6. field_mul(a, y) \in F /\ field_mul(a, az) \in F /\ field_mul(a, inner) \in F
  BY <1>0, <1>1, <1>3, <1>4
<1>7. field_mul(a, field_mul(a, inner))
      = field_add(field_mul(a, field_mul(a, y)), field_mul(a, field_mul(a, az)))
  BY <1>0, <1>2, <1>5, <1>6
<1>8. field_mul(a, field_add(x, field_mul(a, inner)))
      = field_add(field_mul(a, x), field_mul(a, field_mul(a, inner)))
  BY <1>0, <1>2, <1>6
<1>9. QED
  BY <1>3, <1>4, <1>7, <1>8

PartsIn(F, a, I, p, S, o, g, s, b, E, T, e) ==
    /\ a \in F /\ I \in F /\ p \in F /\ S \in F /\ o \in F /\ g \in F /\ s \in F
    /\ b \in F /\ E \in F /\ T \in F /\ e \in F

(* The five parts, from their factors.                                       *)
LEMMA FivePartsCombine ==
    ASSUME NEW F, Field(F), NEW a, NEW I, NEW p, NEW S, NEW o, NEW g, NEW s, NEW b, NEW E, NEW T,
           NEW e, PartsIn(F, a, I, p, S, o, g, s, b, E, T, e)
    PROVE  LET a2 == field_mul(a, a)
               a3 == field_mul(a2, a)
           IN  field_add(field_add(
                   field_sub(field_sub(field_mul(field_mul(e, E), a2), field_mul(T, a3)),
                             field_mul(field_mul(field_mul(S, g), o), a)),
                   field_mul(field_mul(negated(field_mul(field_mul(S, o), a)), b), s)),
                   field_mul(field_add(field_mul(I, a), field_mul(T, a3)), p))
               = field_mul(a, field_add(
                     field_sub(field_mul(I, p),
                               field_mul(field_mul(S, field_add(g, field_mul(s, b))), o)),
                     field_mul(a, field_add(field_mul(e, E),
                         field_mul(a, field_mul(field_sub(p, One), T))))))
<1> DEFINE a2 == field_mul(a, a)
           a3 == field_mul(a2, a)
           eE == field_mul(e, E)
           Ip == field_mul(I, p)
           h == field_mul(s, b)
           Sg == field_mul(S, g)
           So == field_mul(S, o)
           Sh == field_mul(S, h)
           t1 == field_mul(a, Ip)
           t2 == field_mul(field_mul(Sg, o), a)
           t3 == field_mul(field_mul(Sh, o), a)
           t4 == field_mul(eE, a2)
           t5 == field_mul(T, a3)
           t6 == field_mul(t5, p)
           copies == field_sub(Ip, field_mul(field_mul(S, field_add(g, h)), o))
           start == field_mul(field_sub(p, One), T)
<1>0. /\ a \in F /\ I \in F /\ p \in F /\ S \in F /\ o \in F /\ g \in F /\ s \in F
      /\ b \in F /\ E \in F /\ T \in F /\ e \in F
  BY DEF PartsIn
<1> USE <1>0
<1>1. \A x, y \in F : field_mul(x, y) \in F /\ field_mul(x, y) = field_mul(y, x)
  BY MulLaws
<1>2. \A x, y, z \in F : field_mul(x, field_mul(y, z)) = field_mul(field_mul(x, y), z)
  BY MulLaws
<1>3. \A x, y, z \in F : field_mul(x, field_add(y, z)) = field_add(field_mul(x, y), field_mul(x, z))
  BY DEF Field
<1>4. \A x, y, z \in F : field_mul(x, field_sub(y, z)) = field_sub(field_mul(x, y), field_mul(x, z))
  BY SubLaws
<1>5. \A x, y, z \in F : field_mul(field_add(y, z), x) = field_add(field_mul(y, x), field_mul(z, x))
  <2> SUFFICES ASSUME NEW x \in F, NEW y \in F, NEW z \in F
               PROVE  field_mul(field_add(y, z), x) = field_add(field_mul(y, x), field_mul(z, x))
    OBVIOUS
  <2>1. field_add(y, z) \in F
    BY AddLaws
  <2>2. QED
    BY <1>1, <1>3, <2>1
<1>6. /\ a2 \in F /\ a3 \in F /\ eE \in F /\ Ip \in F /\ h \in F /\ Sg \in F /\ So \in F /\ Sh \in F
      /\ t1 \in F /\ t2 \in F /\ t3 \in F /\ t4 \in F /\ t5 \in F /\ t6 \in F
  <2>1. a2 \in F /\ eE \in F /\ Ip \in F /\ h \in F /\ Sg \in F /\ So \in F
    BY <1>1
  <2> HIDE DEF a2, eE, Ip, h, Sg, So
  <2>2. a3 \in F /\ Sh \in F /\ t1 \in F /\ t4 \in F /\ field_mul(Sg, o) \in F
    BY <1>1, <2>1
  <2> HIDE DEF a3, Sh, t1, t4
  <2>3. t5 \in F /\ t2 \in F /\ field_mul(Sh, o) \in F
    BY <1>1, <2>1, <2>2
  <2> HIDE DEF t5, t2
  <2>4. t6 \in F /\ t3 \in F
    BY <1>1, <2>3
  <2>5. QED
    BY <2>1, <2>2, <2>3, <2>4
<1>7. One \in F /\ field_mul(One, T) = T
  BY MulLaws
<1>8. field_sub(p, One) \in F /\ field_add(g, h) \in F /\ field_sub(t6, t5) \in F
  BY <1>6, <1>7, AddLaws DEF Field
<1> HIDE DEF a2, a3, eE, h
<1>9. field_mul(field_add(field_mul(I, a), t5), p) = field_add(t1, t6)
  <2>1. field_mul(I, a) \in F
    BY <1>1
  <2>2. field_mul(field_add(field_mul(I, a), t5), p)
        = field_add(field_mul(field_mul(I, a), p), field_mul(t5, p))
    BY <1>5, <1>6, <2>1
  <2>3. field_mul(field_mul(I, a), p) = field_mul(a, field_mul(I, p))
    <3>1. field_mul(I, a) = field_mul(a, I)
      BY <1>1
    <3>2. QED
      BY <1>2, <3>1
  <2>4. QED
    BY <2>2, <2>3
<1>10. field_mul(field_mul(negated(field_mul(So, a)), b), s) = negated(t3)
  <2>1. field_mul(So, a) \in F
    BY <1>1, <1>6
  <2>2. negated(field_mul(So, a)) \in F
    BY <2>1, ZeroLaws
  <2>3. field_mul(field_mul(negated(field_mul(So, a)), b), s)
        = field_mul(negated(field_mul(So, a)), field_mul(b, s))
    BY <1>2, <2>2
  <2>4. field_mul(b, s) = h
    BY <1>1 DEF h
  <2>5. field_mul(negated(field_mul(So, a)), h) = negated(field_mul(field_mul(So, a), h))
    BY <1>6, <2>1, ZeroLaws
  <2>6. field_mul(field_mul(So, a), h) = t3
    <3>1. field_mul(field_mul(So, a), h) = field_mul(h, field_mul(So, a))
      BY <1>1, <1>6, <2>1
    <3>2. field_mul(h, field_mul(So, a)) = field_mul(field_mul(h, So), a)
      BY <1>2, <1>6
    <3>3. field_mul(h, field_mul(S, o)) = field_mul(field_mul(h, S), o)
      BY <1>2, <1>6
    <3>4. field_mul(h, S) = field_mul(S, h)
      BY <1>1, <1>6
    <3>5. QED
      BY <3>1, <3>2, <3>3, <3>4
  <2>7. QED
    BY <2>3, <2>4, <2>5, <2>6
<1>11. field_mul(a, copies) = field_sub(t1, field_add(t2, t3))
  <2> DEFINE term == field_mul(field_mul(S, field_add(g, h)), o)
  <2>1. field_mul(S, field_add(g, h)) = field_add(Sg, Sh)
    BY <1>3, <1>6
  <2>2. field_mul(field_add(Sg, Sh), o) = field_add(field_mul(Sg, o), field_mul(Sh, o))
    BY <1>5, <1>6
  <2>3. field_mul(Sg, o) \in F /\ field_mul(Sh, o) \in F
    BY <1>1, <1>6
  <2>4. field_mul(a, field_add(field_mul(Sg, o), field_mul(Sh, o)))
        = field_add(field_mul(a, field_mul(Sg, o)), field_mul(a, field_mul(Sh, o)))
    BY <1>3, <2>3
  <2>5. field_mul(a, field_mul(Sg, o)) = t2 /\ field_mul(a, field_mul(Sh, o)) = t3
    BY <1>1, <2>3
  <2>6. field_mul(a, term) = field_add(t2, t3)
    BY <2>1, <2>2, <2>4, <2>5
  <2>7. term \in F
    BY <2>1, <2>2, <2>3, AddLaws
  <2> HIDE DEF term
  <2>8. field_mul(a, field_sub(Ip, term)) = field_sub(field_mul(a, Ip), field_mul(a, term))
    BY <1>4, <1>6, <2>7
  <2>9. QED
    BY <2>6, <2>8 DEF term
<1>12. start = field_sub(field_mul(p, T), T) /\ start \in F /\ field_mul(p, T) \in F
  <2>1. field_mul(field_sub(p, One), T) = field_sub(field_mul(p, T), field_mul(One, T))
    BY <1>7, SubLaws
  <2>2. QED
    BY <1>1, <1>7, <1>8, <2>1
<1>13. field_mul(a, field_mul(a, field_mul(a, start))) = field_sub(t6, t5)
  <2>1. field_mul(a, field_mul(a, field_mul(a, start))) = field_mul(a3, start)
    <3>1. field_mul(a, start) \in F
      BY <1>1, <1>12
    <3>2. field_mul(a, field_mul(a, field_mul(a, start))) = field_mul(a2, field_mul(a, start))
      BY <1>2, <3>1 DEF a2
    <3>3. field_mul(a2, field_mul(a, start)) = field_mul(a3, start)
      BY <1>2, <1>6, <1>12 DEF a3
    <3>4. QED
      BY <3>2, <3>3
  <2>2. field_mul(a3, start) = field_sub(field_mul(a3, field_mul(p, T)), field_mul(a3, T))
    BY <1>4, <1>6, <1>12
  <2>3. field_mul(a3, T) = t5
    BY <1>1, <1>6
  <2>4. field_mul(a3, field_mul(p, T)) = t6
    <3>1. field_mul(p, T) = field_mul(T, p)
      BY <1>1
    <3>2. field_mul(a3, field_mul(T, p)) = field_mul(field_mul(a3, T), p)
      BY <1>2, <1>6
    <3>3. QED
      BY <2>3, <3>1, <3>2
  <2>5. QED
    BY <2>1, <2>2, <2>3, <2>4
<1> HIDE DEF start, copies
<1>14. field_mul(a, field_mul(a, eE)) = t4
  <2>1. field_mul(a, field_mul(a, eE)) = field_mul(a2, eE)
    BY <1>2, <1>6 DEF a2
  <2>2. QED
    BY <1>1, <1>6, <2>1
<1>15. copies \in F
  <2>1. field_mul(S, field_add(g, h)) \in F
    BY <1>1, <1>8
  <2>2. field_mul(field_mul(S, field_add(g, h)), o) \in F
    BY <1>1, <2>1
  <2>3. QED
    BY <1>6, <2>2 DEF copies, Field
<1> HIDE DEF t1, t2, t3, t4, t5, t6, Ip, Sg, So, Sh
<1>16. field_mul(a, field_add(copies, field_mul(a, field_add(eE, field_mul(a, start)))))
       = field_add(field_sub(t1, field_add(t2, t3)), field_add(t4, field_sub(t6, t5)))
  <2>1. field_mul(a, field_add(copies, field_mul(a, field_add(eE, field_mul(a, start)))))
        = field_add(field_mul(a, copies), field_add(field_mul(a, field_mul(a, eE)),
                                                    field_mul(a, field_mul(a, field_mul(a, start)))))
    <3>1. AreIn(F, a, a, a, copies, eE, start)
      BY <1>6, <1>12, <1>15 DEF AreIn
    <3>2. QED
      BY <3>1, ThreePowers
  <2>2. QED
    BY <1>11, <1>13, <1>14, <2>1
<1>17. QED
  <2>1. field_add(field_add(field_sub(field_sub(t4, t5), t2), negated(t3)), field_add(t1, t6))
        = field_add(field_sub(t1, field_add(t2, t3)), field_add(t4, field_sub(t6, t5)))
    <3>1. AreIn(F, t1, t2, t3, t4, t5, t6)
      BY <1>6 DEF AreIn
    <3>2. QED
      BY <3>1, SixTerms
  <2>2. field_add(field_add(field_sub(field_sub(t4, t5), t2),
                            field_mul(field_mul(negated(field_mul(So, a)), b), s)),
                  field_mul(field_add(field_mul(I, a), t5), p))
        = field_mul(a, field_add(copies, field_mul(a, field_add(eE, field_mul(a, start)))))
    BY <1>9, <1>10, <1>16, <2>1
  <2>3. QED
    BY <2>2
       DEF t1, t2, t3, t4, t5, t6, Ip, Sg, So, Sh, copies, start, a2, a3, eE, h

-----------------------------------------------------------------------------
(* What a circuit has while it is built.                                     *)

\* A domain that the circuit may have: its root is of the size's order, and the
\* size is no multiple of the field's characteristic.
RootsFit(F, size) ==
    /\ Domains[size].root \in F
    /\ field_pow(Domains[size].root, size \div 2) = negated(One)
    /\ Ones(size) # Zero

\* The circuits within the bounds fit their domains and the mappings' entries.
SizesFit ==
    /\ MaxPublicInputs \in Nat /\ MaxGates \in Nat
    /\ NUM_RESERVED_GATES \in Nat /\ NUM_RESERVED_GATES >= 2
    /\ MaxPublicInputs + MaxGates + NUM_RESERVED_GATES <= 2^30
    /\ \A size \in CircuitSizes :
          /\ \A query \in Queries : query.num_roots \in 0 .. size - 1
          /\ \A row \in 0 .. size - 1, column \in Columns :
                LET entry == row + column * 2^column_shift
                IN  entry % 2^index_bits = row /\ entry \div 2^column_shift = column
    /\ program_width \in Nat /\ program_width >= 2
    /\ DUMMY_TAG \in Nat
    /\ Gates \subseteq [1 .. program_width -> Nat]

CircuitIn(F) ==
    /\ Field(F) /\ SizesFit /\ \A size \in CircuitSizes : RootsFit(F, size)
    /\ external_coset_generator \in F /\ tag_coset_generator \in F
    /\ \A i \in 0 .. program_width - 2 : coset_generator(i) \in F
    /\ Values \subseteq F
    /\ \A challenges \in Challenges : challenges[1] \in F /\ challenges[2] \in F
    /\ \A query \in Queries : query.alpha \in F /\ query.z \in F /\ query.wrong_by \in F

CircuitFits == \E F : CircuitIn(F)

\* What a domain's size is.
Sized(size) ==
    /\ size \in CircuitSizes
    /\ size \in Nat /\ size >= 4 /\ PowerOfTwo(size)
    /\ size \div 2 \in Nat /\ size = (size \div 2) + (size \div 2)

\* What its root is, and the last row of its table.
RootsIn(F, size) ==
    LET d == Domains[size]
        roots == d.round_roots[d.log2_size - 2]
    IN  /\ d.root \in F /\ field_pow(d.root, size \div 2) = negated(One)
        /\ Ones(size) # Zero
        /\ \A j \in 0 .. size \div 2 - 1 : roots[j] = field_pow(d.root, j)

(* The next power of two.                                                    *)
LEMMA NextPowerOfTwo ==
    ASSUME NEW n \in Nat, n >= 3, n <= 2^30
    PROVE  \E b \in 2 .. 30 : get_circuit_subgroup_size(n) = 2^b /\ n <= 2^b
<1> DEFINE P(k) == 2^k >= n /\ (k = 0 \/ 2^(k - 1) < n)
           h == CHOOSE k \in 0 .. 31 : P(k)
<1>1. 2^0 = 1 /\ 2^1 = 2 /\ 2^30 \in Nat /\ 2^30 < 2^31
  OBVIOUS
<1>2. PICK c \in 0 .. 30 : 2^c <= n - 1 /\ n - 1 < 2^(c + 1)
  <2>1. n - 1 \in Nat \ {0} /\ n - 1 < 2^31
    BY <1>1
  <2> QED
    BY <2>1, SomeBit
<1>3. c + 1 \in 0 .. 31 /\ P(c + 1)
  <2>1. c + 1 \in 0 .. 31 /\ (c + 1) - 1 = c
    OBVIOUS
  <2>2. 2^c \in Nat /\ 2^(c + 1) \in Nat
    <3>1. c \in 0 .. 31
      OBVIOUS
    <3> QED
      BY <3>1, PowersDouble
  <2>3. 2^(c + 1) >= n /\ 2^c < n
    BY <1>2, <2>2
  <2> QED
    BY ONLY <2>1, <2>3
<1> HIDE DEF P
<1>4. h \in 0 .. 31 /\ P(h)
  BY <1>3
<1>5. get_circuit_subgroup_size(n) = 2^h
  BY DEF get_circuit_subgroup_size, P
<1> HIDE DEF h
<1>6. 2^h >= n /\ (h = 0 \/ 2^(h - 1) < n)
  BY <1>4 DEF P
<1>7. h # 0 /\ h # 1
  <2>1. h = 0 => 2^h = 1
    BY <1>1
  <2>2. h = 1 => 2^h = 2
    BY <1>1
  <2> QED
    BY ONLY <1>6, <2>1, <2>2, n \in Nat, n >= 3
<1>8. h # 31
  <2> SUFFICES ASSUME h = 31 PROVE FALSE
    OBVIOUS
  <2>1. 2^(31 - 1) < n
    BY <1>6
  <2>2. 31 - 1 = 30
    OBVIOUS
  <2> QED
    BY <1>1, <2>1, <2>2
<1>9. h \in 2 .. 30 /\ 2^h \in Nat
  <2>1. 2^h \in Nat
    BY <1>4, PowersDouble
  <2> QED
    BY <1>4, <1>7, <1>8, <2>1
<1>10. n <= 2^h
  BY <1>6, <1>9
<1> QED
  BY <1>5, <1>9, <1>10

(* The domains that circuits within the bounds have.                         *)
LEMMA SizesAre ==
    ASSUME NEW F, CircuitIn(F), NEW public \in 0 .. MaxPublicInputs, NEW gates \in 1 .. MaxGates
    PROVE  LET size == get_circuit_subgroup_size(public + gates + NUM_RESERVED_GATES)
           IN  /\ Sized(size) /\ RootsIn(F, size) /\ public + gates <= size
               /\ \A query \in Queries : query.num_roots \in 0 .. size - 1
<1> DEFINE n == public + gates + NUM_RESERVED_GATES
           size == get_circuit_subgroup_size(n)
           d == Domains[size]
<1>1. /\ MaxPublicInputs \in Nat /\ MaxGates \in Nat /\ NUM_RESERVED_GATES \in Nat
      /\ NUM_RESERVED_GATES >= 2 /\ MaxPublicInputs + MaxGates + NUM_RESERVED_GATES <= 2^30
  BY DEF CircuitIn, SizesFit
<1>2. n \in Nat /\ n >= 3 /\ n <= 2^30 /\ public + gates <= n /\ public + gates \in Nat
  <2>1. 2^30 \in Nat
    OBVIOUS
  <2> QED
    BY <1>1, <2>1
<1>3. size \in CircuitSizes
  BY DEF CircuitSizes
<1> HIDE DEF n
<1>4. PICK b \in 2 .. 30 : size = 2^b /\ n <= 2^b
  BY <1>2, NextPowerOfTwo
<1>5. /\ Field(F) /\ RootsFit(F, size)
      /\ \A query \in Queries : query.num_roots \in 0 .. size - 1
  BY <1>3 DEF CircuitIn, SizesFit
<1>6. d.log2_size = get_msb(size) /\ d.round_roots = RoundRoots(d.root, size)
  BY <1>3 DEF Domains, new_domain
<1> HIDE DEF size, d
<1>7. d.root \in F
  BY <1>5 DEF RootsFit, d
<1>8. /\ get_msb(size) = b /\ size \in Nat /\ size = 2 * (size \div 2)
      /\ size = 4 * (size \div 4) /\ size \div 4 \in Nat \ {0} /\ size \div 2 = 2 * (size \div 4)
      /\ \A k \in 0 .. size \div 2 - 1 : RoundRoots(d.root, size)[b - 2][k] = field_pow(d.root, k)
  <2>1. size = 2^b
    BY <1>4
  <2>2. b \in 2 .. 30
    OBVIOUS
  <2>3. Field(F)
    BY <1>5
  <2> DEFINE w == d.root
  <2>4. w \in F
    BY <1>7
  <2> HIDE DEF w
  <2>5. LastRowHasHalf(w, size, b)
    BY ONLY <2>1, <2>2, <2>3, <2>4, LastRowIs
  <2> QED
    BY ONLY <2>5 DEF w, LastRowHasHalf
<1>9. size >= 4 /\ size \div 2 \in Nat /\ size = (size \div 2) + (size \div 2)
  BY <1>8
<1>10. PowerOfTwo(size)
  <2>1. b \in 0 .. 31
    OBVIOUS
  <2> QED
    BY <1>4, <2>1, PowersAreOfTwo
<1>11. Sized(size)
  BY <1>3, <1>8, <1>9, <1>10 DEF Sized
<1>12. RootsIn(F, size)
  BY <1>5, <1>6, <1>8 DEF RootsIn, RootsFit, d
<1>13. public + gates <= size
  BY <1>2, <1>4, <1>8
<1> QED
  BY <1>5, <1>11, <1>12, <1>13 DEF size, n

(* All of them are such.                                                     *)
LEMMA CircuitSizesAre ==
    ASSUME NEW F, CircuitIn(F), NEW size \in CircuitSizes
    PROVE  Sized(size) /\ RootsIn(F, size)
  BY SizesAre DEF CircuitSizes

\* What is built, and what is made of it.
BuildTyped(F) ==
    /\ IInv
    /\ \A i \in VariableIndices : variables[i] \in F
    /\ real_variable_tags \in [VariableIndices -> Nat]
    /\ Len(public_inputs) <= MaxPublicInputs
    /\ wires \in Seq([1 .. program_width -> VariableIndices]) /\ Len(wires) <= MaxGates

(* Building.                                                                 *)
LEMMA NextBuildTyped ==
    ASSUME NEW F, CircuitIn(F), BuildTyped(F), [Next]_vars
    PROVE  BuildTyped(F)'
<1>1. IInv' /\ IInv
  BY NextIInv DEF BuildTyped
<1>2. ListsTyped /\ VariableIndices = DOMAIN variables /\ NextIndex \notin VariableIndices
  <2>1. ListsTyped
    BY <1>1 DEF IInv, ListInv
  <2>2. QED
    BY <2>1 DEF ListsTyped, VariableIndices
<1>3. Values \subseteq F /\ DUMMY_TAG \in Nat /\ public_inputs \in Seq(VariableIndices)
      /\ Gates \subseteq [1 .. program_width -> Nat] /\ MaxGates \in Nat
  BY <1>1 DEF CircuitIn, SizesFit, IInv, PublicOnce
<1>4. ASSUME NEW value \in Values, AddVariable(value), UNCHANGED wires, Len(public_inputs') <= MaxPublicInputs
      PROVE  BuildTyped(F)'
  <2>1. /\ variables' = [i \in VariableIndices \cup {NextIndex} |->
                            IF i = NextIndex THEN value ELSE variables[i]]
        /\ real_variable_tags' = [i \in VariableIndices \cup {NextIndex} |->
                            IF i = NextIndex THEN DUMMY_TAG ELSE real_variable_tags[i]]
    BY <1>2, <1>4 DEF AddVariable, Pushed, NextIndex, BuildTyped
  <2>2. VariableIndices' = VariableIndices \cup {NextIndex}
    BY <2>1 DEF VariableIndices
  <2>3. \A i \in VariableIndices' : variables'[i] \in F
    BY <1>3, <2>1, <2>2 DEF BuildTyped
  <2>4. real_variable_tags' \in [VariableIndices' -> Nat]
    BY <1>3, <2>1, <2>2 DEF BuildTyped
  <2>5. wires' \in Seq([1 .. program_width -> VariableIndices'])
    <3>1. [1 .. program_width -> VariableIndices] \subseteq [1 .. program_width -> VariableIndices']
      BY <2>2
    <3>2. QED
      BY <1>4, <3>1 DEF BuildTyped
  <2>6. QED
    BY <1>1, <1>4, <2>3, <2>4, <2>5 DEF BuildTyped
<1>5. ASSUME NEW value \in Values, CallAddVariable(value) PROVE BuildTyped(F)'
  BY <1>4, <1>5 DEF CallAddVariable, add_variable, AddVariable, BuildTyped
<1>6. ASSUME NEW value \in Values, CallAddPublicVariable(value) PROVE BuildTyped(F)'
  <2>1. Len(public_inputs) + 1 <= MaxPublicInputs
    BY <1>3, <1>6 DEF CallAddPublicVariable, get_num_public_inputs, CircuitIn, SizesFit
  <2>2. Len(public_inputs') = Len(public_inputs) + 1
    BY <1>3, <1>6 DEF CallAddPublicVariable, add_public_variable
  <2>3. QED
    BY <1>4, <1>6, <2>1, <2>2 DEF CallAddPublicVariable, add_public_variable, AddVariable
<1>7. ASSUME NEW index \in DOMAIN variables, CallSetPublicInput(index) PROVE BuildTyped(F)'
  <2>1. Len(public_inputs) + 1 <= MaxPublicInputs
    BY <1>3, <1>7 DEF CallSetPublicInput, get_num_public_inputs, CircuitIn, SizesFit
  <2>2. UNCHANGED <<variables, real_variable_tags, wires>>
    BY <1>7 DEF CallSetPublicInput, set_public_input, classVars
  <2>3. Len(public_inputs') <= MaxPublicInputs
    BY <1>3, <1>7, <2>1 DEF CallSetPublicInput, set_public_input, BuildTyped
  <2>4. QED
    BY <1>1, <2>2, <2>3 DEF BuildTyped, VariableIndices
<1>8. ASSUME NEW a \in DOMAIN variables, NEW b \in DOMAIN variables, CallAssertEqual(a, b)
      PROVE  BuildTyped(F)'
  <2>1. UNCHANGED <<variables, public_inputs, wires>>
    BY <1>8 DEF CallAssertEqual, assert_equal
  <2>2. /\ real_variable_index[a] \in VariableIndices /\ real_variable_index[b] \in VariableIndices
        /\ real_variable_tags \in [VariableIndices -> Nat]
    BY <1>2 DEF ListsTyped, BuildTyped
  <2>3. real_variable_tags' \in [VariableIndices -> Nat]
    BY <1>8, <2>2 DEF CallAssertEqual, assert_equal, classVars
  <2>4. QED
    BY <1>1, <2>1, <2>3 DEF BuildTyped, VariableIndices
<1>9. ASSUME NEW indices \in Gates, CallCreateGate(indices) PROVE BuildTyped(F)'
  <2>1. UNCHANGED <<variables, public_inputs, real_variable_tags>> /\ wires' = Append(wires, indices)
    BY <1>9 DEF CallCreateGate, create_gate, classVars
  <2>2. indices \in [1 .. program_width -> VariableIndices]
    <3>1. \A i \in DOMAIN indices : indices[i] \in VariableIndices
      BY <1>9 DEF CallCreateGate, create_gate, assert_valid_variables, is_valid_variable, VariableIndices
    <3>2. indices \in [1 .. program_width -> Nat]
      BY <1>3
    <3>3. QED
      BY <3>1, <3>2
  <2>3. wires \in Seq([1 .. program_width -> VariableIndices]) /\ Len(wires) + 1 <= MaxGates
    BY <1>3, <1>9 DEF CallCreateGate, BuildTyped
  <2>4. /\ wires' \in Seq([1 .. program_width -> VariableIndices]) /\ Len(wires') <= MaxGates
    BY <2>1, <2>2, <2>3
  <2>5. QED
    BY <1>1, <2>1, <2>4 DEF BuildTyped, VariableIndices
<1>10. ASSUME UNCHANGED <<variables, public_inputs, real_variable_tags, wires>> PROVE BuildTyped(F)'
  BY <1>1, <1>10 DEF BuildTyped, VariableIndices
<1>11. ASSUME \/ \E with_tags \in BOOLEAN : Compile(with_tags)
              \/ \E challenges \in Challenges : Prove(challenges[1], challenges[2])
              \/ \E query \in Queries : Verify(query)
              \/ UNCHANGED vars
       PROVE  BuildTyped(F)'
  BY <1>10, <1>11 DEF Compile, Prove, Verify, vars, composerVars
<1>12. QED
  BY <1>5, <1>6, <1>7, <1>8, <1>9, <1>11 DEF Next

-----------------------------------------------------------------------------
(* Cycles of copies: the next of a wire is a permutation of the wires.       *)

Rows == get_num_public_inputs + Len(wires)

\* All cells of the first n rows.
Cells(n) == {Node(cell[1], cell[2]) : cell \in (0 .. n - 1) \X Columns}

(* The cells of the first rows are finitely many, row by row.                *)
LEMMA CellsFinite ==
    ASSUME NEW n \in Nat, program_width \in Nat
    PROVE  /\ IsFiniteSet(Cells(n))
           /\ \A cell \in Cells(n) : /\ cell.row \in 0 .. n - 1 /\ cell.column \in Columns
                                     /\ cell = Node(cell.row, cell.column)
           /\ \A j \in 0 .. n - 1, c \in Columns : Node(j, c) \in Cells(n)
<1> DEFINE S == (0 .. n - 1) \X Columns
           b == [cell \in S |-> Node(cell[1], cell[2])]
<1>1. IsFiniteSet(S)
  <2>1. IsFiniteSet(0 .. n - 1)
    BY FS_Interval
  <2>2. IsFiniteSet(Columns)
    BY FS_Interval DEF Columns
  <2>3. QED
    BY <2>1, <2>2, FS_Product
<1>2. Cells(n) = {b[cell] : cell \in S}
  BY DEF Cells
<1>3. IsFiniteSet(Cells(n))
  <2> HIDE DEF S, b
  <2>1. QED
    BY ONLY <1>1, <1>2, ImageFinite
<1>4. \A cell \in S : /\ cell[1] \in 0 .. n - 1 /\ cell[2] \in Columns
                      /\ Node(cell[1], cell[2]).row = cell[1]
                      /\ Node(cell[1], cell[2]).column = cell[2]
  BY DEF Node
<1>5. ASSUME NEW cell \in Cells(n)
      PROVE  /\ cell.row \in 0 .. n - 1 /\ cell.column \in Columns
             /\ cell = Node(cell.row, cell.column)
  <2>1. PICK p \in S : cell = Node(p[1], p[2])
    BY DEF Cells
  <2>2. QED
    BY <1>4, <2>1
<1>6. ASSUME NEW j \in 0 .. n - 1, NEW c \in Columns
      PROVE  Node(j, c) \in Cells(n)
  <2>1. <<j, c>> \in S /\ <<j, c>>[1] = j /\ <<j, c>>[2] = c
    OBVIOUS
  <2>2. QED
    BY <2>1 DEF Cells
<1>7. QED
  BY <1>3, <1>5, <1>6

(* The wires that copy constraints are about.                                *)
LEMMA CopyNodes ==
    ASSUME NEW F, SizesFit, BuildTyped(F)
    PROVE  /\ get_num_public_inputs \in Nat /\ Rows \in Nat /\ get_num_public_inputs <= Rows
           /\ IsFiniteSet(copy_nodes) /\ copy_nodes \subseteq Cells(Rows)
           /\ \A node \in copy_nodes :
                 /\ node.row \in 0 .. Rows - 1 /\ node.column \in Columns
                 /\ node = Node(node.row, node.column)
                 /\ VariableOf(node) \in VariableIndices
           /\ \A row \in 0 .. get_num_public_inputs - 1, column \in 0 .. 1 :
                 /\ Node(row, column) \in copy_nodes
                 /\ VariableOf(Node(row, column)) = public_inputs[row + 1]
<1> DEFINE k == get_num_public_inputs
<1>1. /\ public_inputs \in Seq(VariableIndices)
      /\ wires \in Seq([1 .. program_width -> VariableIndices])
      /\ program_width \in Nat /\ program_width >= 2
  BY DEF BuildTyped, IInv, PublicOnce, SizesFit
<1>2. /\ k \in Nat /\ k = Len(public_inputs) /\ Len(wires) \in Nat /\ Rows = k + Len(wires)
      /\ DOMAIN public_inputs = 1 .. k /\ DOMAIN wires = 1 .. Len(wires)
  BY <1>1 DEF get_num_public_inputs, Rows
<1>3. Rows \in Nat /\ k <= Rows
  BY <1>2
<1>4. \A j \in 1 .. Len(wires), column \in Columns :
         wires[j][column + 1] \in VariableIndices
  <2> SUFFICES ASSUME NEW j \in 1 .. Len(wires), NEW column \in Columns
               PROVE  wires[j][column + 1] \in VariableIndices
    OBVIOUS
  <2>1. wires[j] \in [1 .. program_width -> VariableIndices]
    BY <1>1
  <2>2. column + 1 \in 1 .. program_width
    BY <1>1 DEF Columns
  <2>3. QED
    BY <2>1, <2>2
<1>5. ASSUME NEW node \in copy_nodes
      PROVE  /\ node.row \in 0 .. Rows - 1 /\ node.column \in Columns
             /\ node = Node(node.row, node.column)
             /\ VariableOf(node) \in VariableIndices
  <2>1. CASE \E i \in DOMAIN public_inputs, column \in 0 .. 1 : node = Node(i - 1, column)
    <3>1. PICK i \in 1 .. k, column \in 0 .. 1 : node = Node(i - 1, column)
      BY <1>2, <2>1
    <3>2. node.row = i - 1 /\ node.column = column
      BY <3>1 DEF Node
    <3>3. node.row \in 0 .. Rows - 1 /\ node.column \in Columns /\ node.row < k
      BY <1>1, <1>2, <3>2 DEF Columns
    <3>4. VariableOf(node) = public_inputs[i]
      BY <1>2, <3>2, <3>3 DEF VariableOf
    <3>5. QED
      BY <1>1, <1>2, <3>1, <3>2, <3>3, <3>4
  <2>2. CASE \E j \in DOMAIN wires, column \in Columns : node = Node(k + j - 1, column)
    <3>1. PICK j \in 1 .. Len(wires), column \in Columns : node = Node(k + j - 1, column)
      BY <1>2, <2>2
    <3>2. node.row = k + j - 1 /\ node.column = column
      BY <3>1 DEF Node
    <3>3. node.row \in 0 .. Rows - 1 /\ node.column \in Columns /\ ~ (node.row < k)
          /\ node.row - k + 1 = j
      BY <1>1, <1>2, <3>2
    <3>4. VariableOf(node) = wires[j][column + 1]
      BY <3>2, <3>3 DEF VariableOf
    <3>5. QED
      BY <1>4, <3>1, <3>2, <3>3, <3>4
  <2>3. QED
    BY <2>1, <2>2 DEF copy_nodes
<1>6. ASSUME NEW row \in 0 .. k - 1, NEW column \in 0 .. 1
      PROVE  /\ Node(row, column) \in copy_nodes
             /\ VariableOf(Node(row, column)) = public_inputs[row + 1]
  <2>1. row + 1 \in DOMAIN public_inputs /\ (row + 1) - 1 = row /\ row < k
    BY <1>2
  <2>2. Node(row, column).row = row
    BY DEF Node
  <2>3. QED
    BY <2>1, <2>2 DEF copy_nodes, VariableOf
<1>7. copy_nodes \subseteq Cells(Rows)
  BY <1>1, <1>3, <1>5, CellsFinite
<1>8. IsFiniteSet(copy_nodes)
  BY <1>1, <1>3, <1>7, CellsFinite, FS_Subset
<1>9. QED
  BY <1>2, <1>3, <1>5, <1>6, <1>7, <1>8

-----------------------------------------------------------------------------
(* The order of the nodes, and the cycles.                                   *)

IsFirst(node, nodes) ==
    node \in nodes /\ \A other \in nodes : other = node \/ Before(node, other)

\* Of any two nodes of the set one is before the other, and no cycle is among them.
Ordered(nodes) ==
    /\ \A m, n \in nodes : m = n \/ Before(m, n) \/ Before(n, m)
    /\ \A m, n \in nodes : ~ (Before(m, n) /\ Before(n, m))
    /\ \A l, m, n \in nodes : Before(l, m) /\ Before(m, n) => Before(l, n)

(* The nodes are in an order without cycles.                                 *)
LEMMA NodesOrdered ==
    ASSUME NEW F, SizesFit, BuildTyped(F)
    PROVE  Ordered(copy_nodes)
<1>1. \A node \in copy_nodes : node.row \in Int /\ node.column \in Int /\ node = Node(node.row, node.column)
  <2>1. \A node \in copy_nodes : node.row \in 0 .. Rows - 1 /\ node.column \in 0 .. program_width - 1
    BY CopyNodes DEF Columns
  <2>2. \A i, j : i \in 0 .. j => i \in Int
    OBVIOUS
  <2>3. QED
    BY <2>1, <2>2, CopyNodes
<1>2. \A m, n \in copy_nodes : m.row = n.row /\ m.column = n.column => m = n
  BY <1>1
<1>3. \A m, n \in copy_nodes : m = n \/ Before(m, n) \/ Before(n, m)
  BY <1>1, <1>2 DEF Before
<1>4. \A m, n \in copy_nodes : ~ (Before(m, n) /\ Before(n, m))
  BY <1>1 DEF Before
<1>5. \A l, m, n \in copy_nodes : Before(l, m) /\ Before(m, n) => Before(l, n)
  BY <1>1 DEF Before
<1>6. QED
  BY <1>3, <1>4, <1>5 DEF Ordered

(* So that finitely many have a first one.                                   *)
LEMMA FirstExists ==
    ASSUME NEW nodes, IsFiniteSet(nodes), Ordered(nodes)
    PROVE  \A s \in SUBSET nodes : s # {} =>
              /\ IsFirst(FirstOf(s), s)
              /\ \A node \in s : IsFirst(node, s) => node = FirstOf(s)
<1> DEFINE T == {s \in SUBSET nodes : s = {} \/ \E node \in s : IsFirst(node, s)}
<1>1. ASSUME NEW s \in SUBSET nodes, NEW x \in nodes \ s, s \in T
      PROVE  s \cup {x} \in T
  <2>1. CASE s = {}
    <3>1. IsFirst(x, s \cup {x})
      BY <2>1 DEF IsFirst
    <3>2. QED
      BY <3>1
  <2>2. CASE s # {}
    <3>1. PICK f \in s : IsFirst(f, s)
      BY <1>1, <2>2
    <3>2. CASE Before(f, x)
      <4>1. IsFirst(f, s \cup {x})
        BY <3>1, <3>2 DEF IsFirst
      <4>2. QED
        BY <4>1
    <3>3. CASE Before(x, f)
      <4>1. IsFirst(x, s \cup {x})
        BY <3>1, <3>3 DEF IsFirst, Ordered
      <4>2. QED
        BY <4>1
    <3>4. QED
      BY <3>2, <3>3 DEF Ordered
  <2>3. QED
    BY <2>1, <2>2
<1>2. {} \in T
  OBVIOUS
<1>3. \A s \in SUBSET nodes : s \in T
  <2> HIDE DEF T
  <2>1. QED
    BY <1>1, <1>2, SubsetInduction
<1> SUFFICES ASSUME NEW s \in SUBSET nodes, s # {}
             PROVE  /\ IsFirst(FirstOf(s), s)
                    /\ \A node \in s : IsFirst(node, s) => node = FirstOf(s)
  OBVIOUS
<1>4. \E node \in s : IsFirst(node, s)
  BY <1>3
<1>5. IsFirst(FirstOf(s), s)
  BY <1>4 DEF IsFirst, FirstOf
<1>6. \A node \in s : IsFirst(node, s) => node = FirstOf(s)
  BY <1>5 DEF IsFirst, Ordered
<1>7. QED
  BY <1>5, <1>6

RealOf(node) == real_variable_index[VariableOf(node)]

(* The next of a wire is the first after it or, of the last, the first.      *)
LEMMA NextNode ==
    ASSUME NEW F, SizesFit, BuildTyped(F), NEW node \in copy_nodes
    PROVE  LET m == NextInCycle(node)
           IN  /\ m \in CycleOf(node) /\ m \in copy_nodes /\ node \in CycleOf(node)
               /\ RealOf(m) = RealOf(node) /\ CycleOf(m) = CycleOf(node)
               /\ LaterThan(node) # {} => IsFirst(m, LaterThan(node)) /\ ~ IsFirst(m, CycleOf(node))
               /\ LaterThan(node) = {} => IsFirst(m, CycleOf(node))
               /\ FirstOf(CycleOf(m)) = m <=> LaterThan(node) = {}
<1> DEFINE m == NextInCycle(node)
           cycle == CycleOf(node)
           later == LaterThan(node)
<1>1. IsFiniteSet(copy_nodes) /\ Ordered(copy_nodes)
  BY CopyNodes, NodesOrdered
<1>2. node \in cycle /\ cycle \subseteq copy_nodes /\ later \subseteq cycle
  BY DEF CycleOf, wire_copy_cycle, LaterThan
<1>3. /\ IsFirst(FirstOf(cycle), cycle)
      /\ \A n \in cycle : IsFirst(n, cycle) => n = FirstOf(cycle)
  <2>1. cycle \in SUBSET copy_nodes /\ cycle # {}
    BY <1>2
  <2>2. QED
    BY <1>1, <2>1, FirstExists
<1>4. later # {} => IsFirst(FirstOf(later), later)
  <2>1. later \in SUBSET copy_nodes
    BY <1>2
  <2>2. QED
    BY <1>1, <2>1, FirstExists
<1>5. m = IF later = {} THEN FirstOf(cycle) ELSE FirstOf(later)
  BY DEF NextInCycle
<1>6. m \in cycle
  <2> HIDE DEF m, cycle, later
  <2>1. QED
    BY <1>2, <1>3, <1>4, <1>5 DEF IsFirst
<1>7. m \in copy_nodes /\ RealOf(m) = RealOf(node)
  BY <1>6 DEF CycleOf, wire_copy_cycle, RealOf
<1>8. CycleOf(m) = cycle
  BY <1>7 DEF CycleOf, RealOf
<1>9. ASSUME later # {}
      PROVE  IsFirst(m, later) /\ ~ IsFirst(m, cycle)
  <2>1. IsFirst(m, later)
    BY <1>4, <1>5, <1>9
  <2>2. Before(node, m)
    BY <2>1 DEF IsFirst, LaterThan
  <2>3. ~ Before(m, node) /\ ~ Before(node, node)
    BY <1>1, <1>7, <2>2 DEF Ordered
  <2>4. m # node
    BY <2>2, <2>3
  <2>5. ~ IsFirst(m, cycle)
    BY <1>2, <2>3, <2>4 DEF IsFirst
  <2>6. QED
    BY <2>1, <2>5
<1>10. later = {} => IsFirst(m, cycle) /\ m = FirstOf(cycle)
  BY <1>3, <1>5
<1>11. FirstOf(cycle) = m <=> later = {}
  BY <1>3, <1>9, <1>10
<1>12. QED
  BY <1>2, <1>6, <1>7, <1>8, <1>9, <1>10, <1>11

(* Two wires are next of the same only if they are one.                      *)
LEMMA NextDiffers ==
    ASSUME NEW F, SizesFit, BuildTyped(F), NEW n \in copy_nodes, NEW m \in copy_nodes,
           NextInCycle(n) = NextInCycle(m)
    PROVE  n = m
<1> DEFINE next == NextInCycle(n)
           cycle == CycleOf(n)
<1>1. Ordered(copy_nodes)
  BY NodesOrdered
<1>2. /\ next \in cycle /\ next \in copy_nodes /\ n \in cycle /\ CycleOf(next) = cycle
      /\ LaterThan(n) # {} => IsFirst(next, LaterThan(n)) /\ ~ IsFirst(next, cycle)
      /\ LaterThan(n) = {} => IsFirst(next, cycle)
  BY NextNode
<1>3. /\ m \in CycleOf(m) /\ CycleOf(next) = CycleOf(m)
      /\ LaterThan(m) # {} => IsFirst(next, LaterThan(m)) /\ ~ IsFirst(next, CycleOf(m))
      /\ LaterThan(m) = {} => IsFirst(next, CycleOf(m))
  BY NextNode
<1>4. m \in cycle /\ CycleOf(m) = cycle /\ (LaterThan(n) = {} <=> LaterThan(m) = {})
  BY <1>2, <1>3
<1>5. /\ LaterThan(n) = {other \in cycle : Before(n, other)}
      /\ LaterThan(m) = {other \in cycle : Before(m, other)}
  BY <1>4 DEF LaterThan
<1>6. ~ Before(n, m)
  <2> SUFFICES ASSUME Before(n, m)
               PROVE  FALSE
    OBVIOUS
  <2>1. m \in LaterThan(n) /\ LaterThan(m) # {}
    BY <1>4, <1>5
  <2>2. m = next \/ Before(next, m)
    BY <1>2, <2>1 DEF IsFirst
  <2>3. Before(m, next)
    BY <1>3, <1>5, <2>1 DEF IsFirst
  <2>4. QED
    BY <1>1, <1>2, <2>2, <2>3 DEF Ordered
<1>7. ~ Before(m, n)
  <2> SUFFICES ASSUME Before(m, n)
               PROVE  FALSE
    OBVIOUS
  <2>1. n \in LaterThan(m) /\ LaterThan(n) # {}
    BY <1>2, <1>4, <1>5
  <2>2. n = next \/ Before(next, n)
    BY <1>3, <2>1 DEF IsFirst
  <2>3. Before(n, next)
    BY <1>2, <1>5, <2>1 DEF IsFirst
  <2>4. QED
    BY <1>1, <1>2, <2>2, <2>3 DEF Ordered
<1>8. QED
  BY <1>1, <1>6, <1>7 DEF Ordered

(* All wires are next of one each.                                           *)
LEMMA NextPermutes ==
    ASSUME NEW F, SizesFit, BuildTyped(F)
    PROVE  LET next == [node \in copy_nodes |-> NextInCycle(node)]
           IN  /\ copy_nodes = {next[node] : node \in copy_nodes}
               /\ \A n, m \in copy_nodes : next[n] = next[m] => n = m
<1> DEFINE next == [node \in copy_nodes |-> NextInCycle(node)]
<1>1. next \in [copy_nodes -> copy_nodes]
  BY NextNode
<1>2. \A n, m \in copy_nodes : next[n] = next[m] => n = m
  BY NextDiffers
<1>3. next \in Injection(copy_nodes, copy_nodes) /\ IsFiniteSet(copy_nodes)
  <2>1. IsFiniteSet(copy_nodes)
    BY CopyNodes
  <2>2. next \in Injection(copy_nodes, copy_nodes)
    BY <1>1, <1>2 DEF Injection, IsInjective
  <2>3. QED
    BY <2>1, <2>2
<1>4. next \in Surjection(copy_nodes, copy_nodes)
  <2> HIDE DEF next
  <2>1. QED
    BY <1>3, FS_Injection
<1>5. copy_nodes = {next[node] : node \in copy_nodes}
  BY <1>1, <1>4 DEF Surjection
<1>6. QED
  BY <1>2, <1>5

(* The second wire of a public input follows the first.                      *)
LEMMA NextOfPublic ==
    ASSUME NEW F, SizesFit, BuildTyped(F), NEW row \in 0 .. get_num_public_inputs - 1
    PROVE  LaterThan(Node(row, 0)) # {} /\ NextInCycle(Node(row, 0)) = Node(row, 1)
<1> DEFINE n == Node(row, 0)
           m == Node(row, 1)
<1>1. /\ n \in copy_nodes /\ m \in copy_nodes
      /\ VariableOf(n) = public_inputs[row + 1] /\ VariableOf(m) = public_inputs[row + 1]
  BY CopyNodes
<1>2. m \in CycleOf(n)
  BY <1>1 DEF CycleOf, wire_copy_cycle
<1>3. n.row = row /\ n.column = 0 /\ m.row = row /\ m.column = 1
  BY DEF Node
<1>4. m \in LaterThan(n)
  BY <1>2, <1>3 DEF LaterThan, Before
<1>5. \A other \in LaterThan(n) : other = m \/ Before(m, other)
  <2> SUFFICES ASSUME NEW other \in LaterThan(n)
               PROVE  other = m \/ Before(m, other)
    OBVIOUS
  <2>1. other \in copy_nodes /\ Before(n, other)
    BY DEF LaterThan, CycleOf, wire_copy_cycle
  <2>2. other.row \in 0 .. Rows - 1 /\ other.column \in 0 .. program_width - 1
        /\ other = Node(other.row, other.column)
    BY <2>1, CopyNodes DEF Columns
  <2>3. row < other.row \/ (row = other.row /\ 0 < other.column)
    BY <1>3, <2>1 DEF Before
  <2>4. row < other.row \/ (row = other.row /\ (other.column = 1 \/ 1 < other.column))
    BY <2>2, <2>3
  <2>5. QED
    BY <1>3, <2>2, <2>4 DEF Before
<1>6. IsFirst(m, LaterThan(n))
  BY <1>4, <1>5 DEF IsFirst
<1>7. IsFirst(NextInCycle(n), LaterThan(n)) /\ NextInCycle(n) \in copy_nodes
  BY <1>1, <1>4, NextNode
<1>8. NextInCycle(n) = m
  BY <1>1, <1>6, <1>7, NodesOrdered DEF IsFirst, Ordered
<1>9. QED
  BY <1>4, <1>8

-----------------------------------------------------------------------------
(* The permutation polynomials, and what they have for a wire.               *)

\* What a permutation polynomial has for an element.
ValueOf(element, root) ==
    field_mul(field_pow(root, element.subgroup_index), ColumnFactor(element))

\* A permutation of the domain's size, whose elements are no panic.
PermutationFits(permutation, size) ==
    /\ permutation = [i \in 1 .. size |-> permutation[i]]
    /\ \A i \in 1 .. size : permutation[i].subgroup_index \in 0 .. size - 1
    /\ \A i \in 1 .. size :
          ~ permutation[i].is_public_input /\ ~ permutation[i].is_tag =>
              \E row \in 0 .. size - 1, column \in Columns :
                  permutation[i] = SubgroupElement(row, column)

(* The table has half of the roots, and the helper has them all.             *)
LEMMA HelperValues ==
    ASSUME NEW F, Field(F), NEW size, Sized(size), RootsIn(F, size),
           NEW permutation, PermutationFits(permutation, size)
    PROVE  compute_permutation_lagrange_base_single_helper(
               new_polynomial(size), permutation, Domains[size]).coefficients
           = [i \in 0 .. size - 1 |-> ValueOf(permutation[i + 1], Domains[size].root)]
<1> DEFINE d == Domains[size]
           half == size \div 2
           roots == d.round_roots[d.log2_size - 2]
           Root(raw_idx) == IF raw_idx >= half THEN negated(roots[raw_idx - half])
                            ELSE roots[raw_idx]
<1>1. /\ d.root \in F /\ field_pow(d.root, half) = negated(One)
      /\ \A j \in 0 .. half - 1 : roots[j] = field_pow(d.root, j)
  BY DEF RootsIn
<1>2. d.size = size
  BY DEF Domains, new_domain, Sized
<1>3. half \in Nat /\ size = half + half /\ size \in Nat
  BY DEF Sized
<1>4. ASSUME NEW j \in 0 .. size - 1
      PROVE  Root(j) = field_pow(d.root, j)
  <2>1. CASE j < half
    <3>1. j \in 0 .. half - 1 /\ ~ (j >= half)
      BY <1>3, <2>1
    <3>2. QED
      BY <1>1, <3>1
  <2>2. CASE ~ (j < half)
    <3>1. j - half \in 0 .. half - 1 /\ j >= half /\ j - half \in Nat /\ (j - half) + half = j
      BY <1>3, <2>2
    <3>2. field_pow(d.root, (j - half) + half) = negated(field_pow(d.root, j - half))
      <4> DEFINE k == j - half
      <4>1. k \in Nat
        BY <3>1
      <4> HIDE DEF k, half
      <4>2. field_pow(d.root, k + half) = negated(field_pow(d.root, k))
        BY <1>1, <1>3, <4>1, HalfTurn
      <4>3. QED
        BY <4>2 DEF k
    <3>3. QED
      BY <1>1, <3>1, <3>2
  <2>3. QED
    BY <2>1, <2>2
<1>5. new_polynomial(size).coefficients = [i \in 0 .. size - 1 |-> Zero]
  BY DEF new_polynomial, Array
<1>6. compute_permutation_lagrange_base_single_helper(new_polynomial(size), permutation, d).coefficients
      = [i \in 0 .. size - 1 |->
            IF i < size THEN field_mul(Root(permutation[i + 1].subgroup_index),
                                       ColumnFactor(permutation[i + 1]))
            ELSE Zero]
  BY <1>2, <1>5 DEF compute_permutation_lagrange_base_single_helper, new_polynomial
<1>7. \A i \in 0 .. size - 1 : i < size /\ i + 1 \in 1 .. size
  BY <1>3
<1>8. \A i \in 0 .. size - 1 : Root(permutation[i + 1].subgroup_index)
                               = field_pow(d.root, permutation[i + 1].subgroup_index)
  <2> HIDE DEF Root
  <2>1. QED
    BY <1>4, <1>7 DEF PermutationFits
<1>9. QED
  <2> HIDE DEF Root
  <2>1. QED
    BY <1>6, <1>7, <1>8 DEF ValueOf

(* Packed and unpacked again, an element is what it was.                     *)
LEMMA UnpackedIsPacked ==
    ASSUME SizesFit, NEW size, Sized(size), NEW permutation, PermutationFits(permutation, size),
           Plain(permutation)
    PROVE  Unpacked(Packed(permutation)) = permutation
<1>1. DOMAIN permutation = 1 .. size
  BY DEF PermutationFits
<1>2. ASSUME NEW i \in 1 .. size
      PROVE  SubgroupElement(Packed(permutation)[i] % 2^index_bits,
                             Packed(permutation)[i] \div 2^column_shift) = permutation[i]
  <2>1. PICK row \in 0 .. size - 1, column \in Columns : permutation[i] = SubgroupElement(row, column)
    BY <1>1 DEF PermutationFits, Plain
  <2>2. Packed(permutation)[i] = row + column * 2^column_shift
    <3>1. Packed(permutation)[i]
          = permutation[i].subgroup_index + permutation[i].column_index * 2^column_shift
      BY <1>1 DEF Packed
    <3>2. permutation[i].subgroup_index = row /\ permutation[i].column_index = column
      BY <2>1 DEF SubgroupElement
    <3>3. QED
      BY <3>1, <3>2
  <2>3. size \in CircuitSizes
    BY DEF Sized
  <2>4. /\ (row + column * 2^column_shift) % 2^index_bits = row
        /\ (row + column * 2^column_shift) \div 2^column_shift = column
    BY <2>3 DEF SizesFit
  <2>5. QED
    BY <2>1, <2>2, <2>4
<1>3. DOMAIN Packed(permutation) = 1 .. size
  BY <1>1 DEF Packed
<1>4. Unpacked(Packed(permutation)) = [i \in 1 .. size |-> permutation[i]]
  BY <1>2, <1>3 DEF Unpacked
<1>5. QED
  BY <1>4 DEF PermutationFits

(* Packed or not, a permutation becomes its elements' values.                *)
LEMMA PolynomialIsValues ==
    ASSUME NEW F, CircuitIn(F), Sized(circuit_size),
           NEW permutation, PermutationFits(permutation, circuit_size)
    PROVE  PermutationPolynomial(permutation).coefficients
           = [i \in 0 .. circuit_size - 1 |->
                 ValueOf(permutation[i + 1], Domains[circuit_size].root)]
<1>1. Field(F) /\ SizesFit /\ RootsIn(F, circuit_size)
  BY CircuitSizesAre DEF CircuitIn, Sized
<1>2. compute_permutation_lagrange_base_single_helper(
          new_polynomial(circuit_size), permutation, Domains[circuit_size]).coefficients
      = [i \in 0 .. circuit_size - 1 |-> ValueOf(permutation[i + 1], Domains[circuit_size].root)]
  BY <1>1, HelperValues
<1>3. CASE Plain(permutation)
  <2>1. Unpacked(Packed(permutation)) = permutation
    BY <1>1, <1>3, UnpackedIsPacked
  <2>2. PermutationPolynomial(permutation)
        = compute_permutation_lagrange_base_single_helper(
              new_polynomial(circuit_size), permutation, Domains[circuit_size])
    BY <1>3, <2>1 DEF PermutationPolynomial, compute_permutation_lagrange_base_single
  <2>3. QED
    BY ONLY <1>2, <2>2
<1>4. CASE ~ Plain(permutation)
  <2>1. PermutationPolynomial(permutation)
        = compute_permutation_lagrange_base_single_helper(
              new_polynomial(circuit_size), permutation, Domains[circuit_size])
    BY <1>4 DEF PermutationPolynomial
  <2>2. QED
    BY ONLY <1>2, <2>1
<1>5. QED
  BY <1>3, <1>4

(* The domain of a circuit within the bounds.                                *)
LEMMA SizeFits ==
    ASSUME NEW F, CircuitIn(F), BuildTyped(F), wires # <<>>
    PROVE  /\ Sized(circuit_size) /\ Rows <= circuit_size
           /\ \A query \in Queries : query.num_roots \in 0 .. circuit_size - 1
<1>1. /\ get_num_public_inputs \in 0 .. MaxPublicInputs /\ Len(wires) \in 1 .. MaxGates
      /\ Len(wires) \in Nat /\ get_num_public_inputs \in Nat
  <2>1. Len(wires) \in Nat /\ Len(wires) # 0 /\ Len(wires) <= MaxGates
    BY DEF BuildTyped
  <2>2. get_num_public_inputs \in Nat /\ get_num_public_inputs <= MaxPublicInputs
    <3>1. public_inputs \in Seq(VariableIndices) /\ Len(public_inputs) <= MaxPublicInputs
      BY DEF BuildTyped, IInv, PublicOnce
    <3>2. QED
      BY <3>1 DEF get_num_public_inputs
  <2>3. MaxPublicInputs \in Nat /\ MaxGates \in Nat
    BY DEF CircuitIn, SizesFit
  <2>4. QED
    BY <2>1, <2>2, <2>3
<1>2. Rows = get_num_public_inputs + Len(wires)
  BY DEF Rows
<1>3. circuit_size = get_circuit_subgroup_size(get_num_public_inputs + Len(wires) + NUM_RESERVED_GATES)
  BY DEF circuit_size
<1>4. QED
  BY ONLY <1>1, <1>2, <1>3, CircuitIn(F), SizesAre

\* An element that is no panic for a domain of this size.
ElementFits(element, size) ==
    /\ element.subgroup_index \in Nat
    /\ ~ element.is_public_input /\ ~ element.is_tag =>
          \E row \in 0 .. size - 1, column \in Columns : element = SubgroupElement(row, column)

(* No element of a circuit's mappings is one that panics.                    *)
LEMMA ElementsFit ==
    ASSUME NEW F, CircuitIn(F), BuildTyped(F), wires # <<>>, NEW with_tags \in BOOLEAN,
           NEW row \in 0 .. circuit_size - 1, NEW column \in Columns
    PROVE  LET node == Node(row, column)
           IN  /\ ElementFits(SigmaElement(node, with_tags), circuit_size)
               /\ ElementFits(IdElement(node, with_tags), circuit_size)
<1> DEFINE node == Node(row, column)
<1>1. /\ SizesFit /\ Sized(circuit_size) /\ Rows <= circuit_size
      /\ Rows \in Nat
  BY SizeFits, CopyNodes DEF CircuitIn
<1>2. ASSUME NEW r \in 0 .. circuit_size - 1, NEW c \in Columns, NEW n, n.row = r, n.column = c
      PROVE  ElementFits(Element(n), circuit_size) /\ Element(n) = SubgroupElement(r, c)
  <2>1. Element(n) = SubgroupElement(r, c)
    BY <1>2 DEF Element
  <2>2. SubgroupElement(r, c).subgroup_index = r /\ r \in Nat
    BY <1>1 DEF SubgroupElement
  <2>3. QED
    BY <2>1, <2>2 DEF ElementFits
<1>3. ElementFits(Element(node), circuit_size)
  BY <1>2 DEF Node
<1>4. ASSUME node \in copy_nodes
      PROVE  /\ ElementFits(TagElement(node), circuit_size)
             /\ ElementFits(Element(NextInCycle(node)), circuit_size)
  <2>1. VariableOf(node) \in VariableIndices
    BY <1>1, <1>4, CopyNodes
  <2>2. real_variable_index[VariableOf(node)] \in VariableIndices
    BY <2>1 DEF BuildTyped, IInv, ListInv, ListsTyped
  <2>3. real_variable_tags[real_variable_index[VariableOf(node)]] \in Nat
    BY <2>2 DEF BuildTyped
  <2>4. ElementFits(TagElement(node), circuit_size)
    BY <2>3 DEF TagElement, ElementFits, SubgroupElement
  <2>5. NextInCycle(node) \in copy_nodes
    BY <1>1, <1>4, NextNode
  <2>6. NextInCycle(node).row \in 0 .. Rows - 1 /\ NextInCycle(node).column \in Columns
    BY <1>1, <2>5, CopyNodes
  <2>7. NextInCycle(node).row \in 0 .. circuit_size - 1
    BY <1>1, <2>6 DEF Sized
  <2>8. QED
    BY <1>2, <2>4, <2>6, <2>7
<1>5. ElementFits([Element(node) EXCEPT !.is_public_input = TRUE], circuit_size)
  BY DEF ElementFits, Element, SubgroupElement, Node
<1>6. ElementFits(SigmaElement(node, with_tags), circuit_size)
  BY <1>3, <1>4, <1>5 DEF SigmaElement
<1>7. ElementFits(IdElement(node, with_tags), circuit_size)
  BY <1>3, <1>4 DEF IdElement
<1>8. QED
  BY <1>6, <1>7

LEMMA PermutationsFit ==
    ASSUME NEW F, CircuitIn(F), BuildTyped(F), wires # <<>>, NEW with_tags \in BOOLEAN,
           ~ CompilePanics(with_tags), NEW column \in Columns
    PROVE  /\ PermutationFits(Sigma(column, with_tags), circuit_size)
           /\ PermutationFits(Id(column, with_tags), circuit_size)
<1>1. Sized(circuit_size) /\ circuit_size \in Nat
  BY SizeFits DEF Sized
<1>2. Domains[circuit_size].size = circuit_size
  BY <1>1 DEF Domains, new_domain, Sized
<1>3. ASSUME NEW permutation \in {Sigma(column, with_tags), Id(column, with_tags)},
             permutation = [i \in 1 .. circuit_size |-> permutation[i]],
             \A i \in 1 .. circuit_size : ElementFits(permutation[i], circuit_size)
      PROVE  PermutationFits(permutation, circuit_size)
  <2>1. ~ PermutationPanics(new_polynomial(circuit_size), permutation, Domains[circuit_size])
    BY <1>3 DEF CompilePanics
  <2>2. \A i \in 1 .. circuit_size : ~ (permutation[i].subgroup_index >= circuit_size)
    BY <1>2, <1>3, <2>1 DEF PermutationPanics
  <2>3. \A i \in 1 .. circuit_size : permutation[i].subgroup_index \in 0 .. circuit_size - 1
    BY <1>1, <1>3, <2>2 DEF ElementFits
  <2>4. QED
    BY <1>3, <2>3 DEF PermutationFits, ElementFits
<1>4. \A i \in 1 .. circuit_size : i - 1 \in 0 .. circuit_size - 1
  BY <1>1
<1>5. /\ Sigma(column, with_tags) = [i \in 1 .. circuit_size |-> Sigma(column, with_tags)[i]]
      /\ \A i \in 1 .. circuit_size :
            Sigma(column, with_tags)[i] = SigmaElement(Node(i - 1, column), with_tags)
      /\ \A i \in 1 .. circuit_size : ElementFits(Sigma(column, with_tags)[i], circuit_size)
  BY <1>4, ElementsFit DEF Sigma
<1>6. /\ Id(column, with_tags) = [i \in 1 .. circuit_size |-> Id(column, with_tags)[i]]
      /\ \A i \in 1 .. circuit_size :
            Id(column, with_tags)[i] = IdElement(Node(i - 1, column), with_tags)
      /\ \A i \in 1 .. circuit_size : ElementFits(Id(column, with_tags)[i], circuit_size)
  BY <1>4, ElementsFit DEF Id
<1>7. QED
  BY <1>3, <1>5, <1>6

\* The root of the circuit's domain.
TheRoot == Domains[circuit_size].root

(* The compiled polynomials have the elements' values.                       *)
LEMMA CompiledValues ==
    ASSUME NEW F, CircuitIn(F), BuildTyped(F), wires # <<>>, NEW with_tags \in BOOLEAN,
           ~ CompilePanics(with_tags), NEW j \in 0 .. circuit_size - 1, NEW c \in Columns
    PROVE  /\ Compiled(with_tags).sigma[c][j] = ValueOf(SigmaElement(Node(j, c), with_tags), TheRoot)
           /\ Compiled(with_tags).id[c][j] = ValueOf(IdElement(Node(j, c), with_tags), TheRoot)
           /\ Compiled(with_tags).w[c][j] = WireValue(Node(j, c))
           /\ SigmaElement(Node(j, c), with_tags).subgroup_index \in Nat
           /\ IdElement(Node(j, c), with_tags).subgroup_index \in Nat
<1>1. Sized(circuit_size) /\ circuit_size \in Nat
  BY SizeFits DEF Sized
<1>2. /\ PermutationFits(Sigma(c, with_tags), circuit_size)
      /\ PermutationFits(Id(c, with_tags), circuit_size)
  BY PermutationsFit
<1>3. /\ PermutationPolynomial(Sigma(c, with_tags)).coefficients
         = [i \in 0 .. circuit_size - 1 |-> ValueOf(Sigma(c, with_tags)[i + 1], TheRoot)]
      /\ PermutationPolynomial(Id(c, with_tags)).coefficients
         = [i \in 0 .. circuit_size - 1 |-> ValueOf(Id(c, with_tags)[i + 1], TheRoot)]
  BY <1>1, <1>2, PolynomialIsValues DEF TheRoot
<1>4. j + 1 \in 1 .. circuit_size /\ (j + 1) - 1 = j
  BY <1>1
<1>5. /\ Sigma(c, with_tags)[j + 1] = SigmaElement(Node(j, c), with_tags)
      /\ Id(c, with_tags)[j + 1] = IdElement(Node(j, c), with_tags)
  BY <1>4 DEF Sigma, Id
<1>6. /\ Compiled(with_tags).sigma[c] = PermutationPolynomial(Sigma(c, with_tags)).coefficients
      /\ Compiled(with_tags).id[c] = PermutationPolynomial(Id(c, with_tags)).coefficients
      /\ Compiled(with_tags).w[c][j] = WireValue(Node(j, c))
  BY DEF Compiled
<1>7. /\ SigmaElement(Node(j, c), with_tags).subgroup_index \in Nat
      /\ IdElement(Node(j, c), with_tags).subgroup_index \in Nat
  BY ElementsFit DEF ElementFits
<1>8. QED
  BY <1>3, <1>5, <1>6, <1>7

(* Values of elements are in the field.                                      *)
LEMMA ValueIn ==
    ASSUME NEW F, CircuitIn(F), NEW size, Sized(size), NEW element, ElementFits(element, size)
    PROVE  ValueOf(element, Domains[size].root) \in F
<1>1. Field(F) /\ Domains[size].root \in F /\ One \in F
  BY MulLaws, CircuitSizesAre DEF CircuitIn, RootsIn, Sized
<1>2. field_pow(Domains[size].root, element.subgroup_index) \in F
  BY <1>1, PowerLaws DEF ElementFits
<1>3. ColumnFactor(element) \in F
  <2>1. CASE element.is_public_input \/ element.is_tag
    BY <2>1 DEF ColumnFactor, CircuitIn
  <2>2. CASE ~ element.is_public_input /\ ~ element.is_tag
    <3>1. PICK row \in 0 .. size - 1, column \in Columns : element = SubgroupElement(row, column)
      BY <2>2 DEF ElementFits
    <3>2. element.column_index = column
      BY <3>1 DEF SubgroupElement
    <3>3. column > 0 => coset_generator(column - 1) \in F
      <4> SUFFICES ASSUME column > 0
                   PROVE  coset_generator(column - 1) \in F
        OBVIOUS
      <4>1. column - 1 \in 0 .. program_width - 2
        BY DEF Columns, CircuitIn, SizesFit
      <4>2. QED
        BY <4>1 DEF CircuitIn
    <3>4. QED
      BY <1>1, <2>2, <3>2, <3>3 DEF ColumnFactor
  <2>3. QED
    BY <2>1, <2>2
<1>4. QED
  BY <1>1, <1>2, <1>3, MulLaws DEF ValueOf

LEMMA ValuesIn ==
    ASSUME NEW F, CircuitIn(F), BuildTyped(F), wires # <<>>, NEW with_tags \in BOOLEAN,
           NEW j \in 0 .. circuit_size - 1, NEW c \in Columns
    PROVE  LET node == Node(j, c)
           IN  /\ WireValue(node) \in F
               /\ ValueOf(SigmaElement(node, with_tags), TheRoot) \in F
               /\ ValueOf(IdElement(node, with_tags), TheRoot) \in F
<1> DEFINE node == Node(j, c)
<1>1. Sized(circuit_size) /\ Zero \in F /\ SizesFit
  BY SizeFits, AddLaws DEF CircuitIn
<1>2. WireValue(node) \in F
  <2>1. CASE node \in copy_nodes
    <3>1. VariableOf(node) \in VariableIndices
      BY <1>1, <2>1, CopyNodes
    <3>2. real_variable_index[VariableOf(node)] \in VariableIndices
      BY <3>1 DEF BuildTyped, IInv, ListInv, ListsTyped
    <3>3. get_variable(VariableOf(node)) \in F
      BY <3>2 DEF get_variable, BuildTyped
    <3>4. QED
      BY <2>1, <3>3 DEF WireValue
  <2>2. CASE node \notin copy_nodes
    BY <1>1, <2>2 DEF WireValue
  <2>3. QED
    BY <2>1, <2>2
<1>3. /\ ElementFits(SigmaElement(node, with_tags), circuit_size)
      /\ ElementFits(IdElement(node, with_tags), circuit_size)
  BY ElementsFit
<1>4. \A element : ElementFits(element, circuit_size) => ValueOf(element, TheRoot) \in F
  BY <1>1, ValueIn DEF TheRoot
<1>5. QED
  BY <1>2, <1>3, <1>4

(* A wire's permutation has the value of the next one's identity, but for    *)
(* the first wires of public inputs.                                         *)
LEMMA NextHasTheValue ==
    ASSUME NEW F, CircuitIn(F), BuildTyped(F), NEW with_tags \in BOOLEAN, NEW root,
           NEW node \in copy_nodes, ~ (node.row < get_num_public_inputs /\ node.column = 0)
    PROVE  /\ WireValue(NextInCycle(node)) = WireValue(node)
           /\ ValueOf(SigmaElement(node, with_tags), root)
              = ValueOf(IdElement(NextInCycle(node), with_tags), root)
<1> DEFINE m == NextInCycle(node)
<1>1. SizesFit
  BY DEF CircuitIn
<1>2. /\ m \in copy_nodes /\ RealOf(m) = RealOf(node)
      /\ FirstOf(CycleOf(m)) = m <=> LaterThan(node) = {}
  BY <1>1, NextNode
<1>3. WireValue(m) = WireValue(node)
  BY <1>2 DEF WireValue, get_variable, RealOf
<1>4. CASE with_tags /\ LaterThan(node) = {}
  <2>1. SigmaElement(node, with_tags) = TagElement(node) /\ IdElement(m, with_tags) = TagElement(m)
    BY <1>2, <1>4 DEF SigmaElement, IdElement
  <2>2. /\ TagElement(node).subgroup_index = TagElement(m).subgroup_index
        /\ TagElement(node).is_tag /\ ~ TagElement(node).is_public_input
        /\ TagElement(m).is_tag /\ ~ TagElement(m).is_public_input
    BY <1>2 DEF TagElement, SubgroupElement, RealOf
  <2>3. QED
    BY <1>3, <2>1, <2>2 DEF ValueOf, ColumnFactor
<1>5. CASE ~ (with_tags /\ LaterThan(node) = {})
  <2>1. SigmaElement(node, with_tags) = Element(m) /\ IdElement(m, with_tags) = Element(m)
    BY <1>2, <1>5 DEF SigmaElement, IdElement
  <2>2. QED
    BY <1>3, <2>1
<1>6. QED
  BY <1>4, <1>5

(* What the first two wires of a public input contribute.                    *)
LEMMA PublicValues ==
    ASSUME NEW F, CircuitIn(F), BuildTyped(F), NEW with_tags \in BOOLEAN, NEW root,
           NEW row \in 0 .. get_num_public_inputs - 1
    PROVE  LET node == Node(row, 0)
               m == NextInCycle(node)
           IN  /\ node \in copy_nodes
               /\ WireValue(node) = get_public_inputs[row + 1]
               /\ WireValue(m) = get_public_inputs[row + 1]
               /\ ValueOf(SigmaElement(node, with_tags), root)
                  = field_mul(field_pow(root, row), external_coset_generator)
               /\ ValueOf(IdElement(m, with_tags), root)
                  = field_mul(field_pow(root, row), coset_generator(0))
<1> DEFINE node == Node(row, 0)
           m == NextInCycle(node)
<1>1. SizesFit
  BY DEF CircuitIn
<1>2. /\ node \in copy_nodes /\ VariableOf(node) = public_inputs[row + 1]
      /\ m = Node(row, 1) /\ m \in copy_nodes /\ VariableOf(m) = public_inputs[row + 1]
      /\ LaterThan(node) # {}
  BY <1>1, CopyNodes, NextOfPublic
<1>3. ~ (FirstOf(CycleOf(m)) = m)
  BY <1>1, <1>2, NextNode
<1>4. row + 1 \in 1 .. get_num_public_inputs /\ row < get_num_public_inputs
  BY <1>1, CopyNodes
<1>5. get_public_inputs[row + 1] = get_variable(public_inputs[row + 1])
  BY <1>4 DEF get_public_inputs, get_public_input
<1>6. WireValue(node) = get_public_inputs[row + 1] /\ WireValue(m) = get_public_inputs[row + 1]
  BY <1>2, <1>5 DEF WireValue
<1>7. SigmaElement(node, with_tags) = [Element(node) EXCEPT !.is_public_input = TRUE]
  <2>1. node.row = row /\ node.column = 0
    BY DEF Node
  <2>2. QED
    BY <1>2, <1>4, <2>1 DEF SigmaElement
<1>8. IdElement(m, with_tags) = SubgroupElement(row, 1)
  <2>1. IdElement(m, with_tags) = Element(m)
    BY <1>3 DEF IdElement
  <2>2. m.row = row /\ m.column = 1
    BY <1>2 DEF Node
  <2>3. QED
    BY <2>1, <2>2 DEF Element
<1>9. ValueOf(SigmaElement(node, with_tags), root)
      = field_mul(field_pow(root, row), external_coset_generator)
  <2>1. /\ SigmaElement(node, with_tags).subgroup_index = row
        /\ SigmaElement(node, with_tags).is_public_input
    BY <1>7 DEF Element, SubgroupElement, Node
  <2>2. QED
    BY <2>1 DEF ValueOf, ColumnFactor
<1>10. ValueOf(IdElement(m, with_tags), root)
       = field_mul(field_pow(root, row), coset_generator(0))
  <2>1. /\ SubgroupElement(row, 1).subgroup_index = row
        /\ SubgroupElement(row, 1).column_index = 1
        /\ ~ SubgroupElement(row, 1).is_public_input /\ ~ SubgroupElement(row, 1).is_tag
    BY DEF SubgroupElement
  <2>2. ColumnFactor(SubgroupElement(row, 1)) = coset_generator(0)
    BY <2>1 DEF ColumnFactor
  <2>3. QED
    BY <1>8, <2>1, <2>2 DEF ValueOf
<1>11. QED
  BY <1>2, <1>6, <1>9, <1>10

(* The other cells map to themselves.                                        *)
LEMMA OthersStay ==
    ASSUME NEW node, node \notin copy_nodes, NEW with_tags
    PROVE  SigmaElement(node, with_tags) = Element(node) /\ IdElement(node, with_tags) = Element(node)
BY DEF SigmaElement, IdElement

-----------------------------------------------------------------------------
(* Their products balance, up to the public inputs.                          *)

(* Products of a table's rows, together, are the product of its cells.       *)
LEMMA RowsMultiply ==
    ASSUME NEW F, Field(F), program_width \in Nat, NEW n \in Nat, NEW f, NEW r,
           Terms(F, f, Cells(n)),
           \A j \in 0 .. n - 1 : r[j] = field_product([c \in Columns |-> f[Node(j, c)]])
    PROVE  /\ Terms(F, r, 0 .. n - 1)
           /\ ProductOver(r, 0 .. n - 1) = ProductOver(f, Cells(n))
<1>1. /\ \A j \in 0 .. n - 1, c \in Columns : Node(j, c) \in Cells(n)
      /\ \A cell \in Cells(n) : cell.row \in 0 .. n - 1 /\ cell.column \in Columns
                                /\ cell = Node(cell.row, cell.column)
  BY CellsFinite
<1>2. IsFiniteSet(Columns)
  BY FS_Interval DEF Columns
<1>3. ASSUME NEW j \in 0 .. n - 1
      PROVE  LET row == {Node(j, c) : c \in Columns}
             IN  row \subseteq Cells(n) /\ r[j] = ProductOver(f, row)
  <2> DEFINE g == [c \in Columns |-> f[Node(j, c)]]
             b == [c \in Columns |-> Node(j, c)]
             row == {Node(j, c) : c \in Columns}
  <2>1. Terms(F, g, Columns)
    BY <1>1, <1>2 DEF Terms
  <2>2. Moved(f, g, b, Columns, row)
    BY DEF Moved, Node
  <2>3. ProductOver(g, Columns) = r[j]
    BY DEF ProductOver
  <2>4. ProductOver(g, Columns) = ProductOver(f, row)
    <3> HIDE DEF g, b, row
    <3>1. QED
      BY ONLY <2>1, <2>2, Field(F), ProductsMove
  <2>5. row \subseteq Cells(n)
    BY <1>1
  <2>6. QED
    BY <2>3, <2>4, <2>5
<1>4. ProductsSplit(F, f, Cells(n))
  BY TermsSplit
<1>5. Terms(F, r, 0 .. n - 1)
  <2>1. IsFiniteSet(0 .. n - 1)
    BY FS_Interval
  <2>2. \A j \in 0 .. n - 1 : r[j] \in F
    BY <1>3, <1>4 DEF ProductsSplit
  <2>3. QED
    BY <2>1, <2>2 DEF Terms
<1>6. ProductsSplit(F, r, 0 .. n - 1)
  BY <1>5, TermsSplit
<1> DEFINE Agrees(k) == k <= n => ProductOver(r, 0 .. k - 1) = ProductOver(f, Cells(k))
           T == {k \in Nat : Agrees(k)}
<1>7. Agrees(0)
  <2>1. 0 .. 0 - 1 = {} /\ Cells(0) = {}
    BY DEF Cells
  <2>2. QED
    BY <1>4, <1>6, <2>1 DEF ProductsSplit
<1>8. ASSUME NEW k \in Nat, Agrees(k), k + 1 <= n
      PROVE  ProductOver(r, 0 .. k) = ProductOver(f, Cells(k + 1))
  <2> DEFINE row == {Node(k, c) : c \in Columns}
  <2>1. /\ k \in 0 .. n - 1 /\ k <= n
        /\ 0 .. k - 1 \subseteq 0 .. n - 1 /\ {k} \subseteq 0 .. n - 1
        /\ 0 .. k = (0 .. k - 1) \cup {k} /\ (0 .. k - 1) \cap {k} = {}
        /\ 0 .. (k + 1) - 1 = 0 .. k
    BY <1>8
  <2>2. row \subseteq Cells(n) /\ r[k] = ProductOver(f, row)
    BY <1>3, <2>1
  <2>3. Cells(k + 1) = Cells(k) \cup row
    <3>1. ASSUME NEW cell \in Cells(k + 1)
          PROVE  cell \in Cells(k) \cup row
      <4>1. PICK p \in (0 .. k) \X Columns : cell = Node(p[1], p[2])
        BY <2>1 DEF Cells
      <4>2. p[1] = k \/ p \in (0 .. k - 1) \X Columns
        OBVIOUS
      <4>3. QED
        BY <4>1, <4>2 DEF Cells
    <3>2. Cells(k) \subseteq Cells(k + 1)
      BY DEF Cells
    <3>3. row \subseteq Cells(k + 1)
      <4>1. \A j \in 0 .. (k + 1) - 1, c \in Columns : Node(j, c) \in Cells(k + 1)
        BY CellsFinite
      <4>2. QED
        BY <2>1, <4>1
    <3>4. QED
      BY <3>1, <3>2, <3>3
  <2>4. Cells(k) \cap row = {}
    <3>1. \A cell \in Cells(k) : cell.row \in 0 .. k - 1
      BY CellsFinite
    <3>2. \A cell \in row : cell.row = k
      BY DEF Node
    <3>3. QED
      BY <3>1, <3>2
  <2>5. Cells(k) \subseteq Cells(n)
    <3>1. (0 .. k - 1) \X Columns \subseteq (0 .. n - 1) \X Columns
      BY <2>1
    <3>2. QED
      BY <3>1 DEF Cells
  <2>6. ProductOver(f, Cells(k + 1)) = field_mul(ProductOver(f, Cells(k)), ProductOver(f, row))
    BY <1>4, <2>2, <2>3, <2>4, <2>5 DEF ProductsSplit
  <2>7. ProductOver(r, 0 .. k) = field_mul(ProductOver(r, 0 .. k - 1), r[k])
    BY <1>6, <2>1 DEF ProductsSplit
  <2>8. QED
    BY <1>8, <2>1, <2>2, <2>6, <2>7
<1>9. \A k \in Nat : k \in T => k + 1 \in T
  <2>1. \A k \in Nat : 0 .. (k + 1) - 1 = 0 .. k
    OBVIOUS
  <2>2. \A k \in Nat : Agrees(k) => Agrees(k + 1)
    BY <1>8, <2>1
  <2> HIDE DEF Agrees
  <2>3. QED
    BY <2>2
<1>10. \A k \in Nat : k \in T
  <2>1. 0 \in T
    <3> HIDE DEF Agrees
    <3>1. QED
      BY <1>7
  <2> HIDE DEF T
  <2>2. QED
    BY <1>9, <2>1, SetInduction
<1>11. QED
  BY <1>5, <1>10

(* A product without zeros is not zero.                                      *)
LEMMA ProductNonzero ==
    ASSUME NEW F, Field(F), NEW f, NEW S, Terms(F, f, S), \A i \in S : f[i] # Zero
    PROVE  ProductOver(f, S) # Zero
<1> DEFINE T == {s \in SUBSET S : ProductOver(f, s) # Zero}
<1>1. ProductsSplit(F, f, S)
  BY TermsSplit
<1>2. {} \in T
  BY <1>1 DEF ProductsSplit, Field
<1>3. ASSUME NEW s \in SUBSET S, NEW x \in S \ s, s \in T
      PROVE  s \cup {x} \in T
  <2>1. ProductOver(f, s \cup {x}) = field_mul(ProductOver(f, s), f[x])
    <3>1. {x} \in SUBSET S /\ s \cap {x} = {} /\ ProductOver(f, {x}) = f[x]
      BY <1>1 DEF ProductsSplit
    <3>2. QED
      BY <1>1, <3>1 DEF ProductsSplit
  <2>2. ProductOver(f, s) \in F /\ ProductOver(f, s) # Zero /\ f[x] \in F /\ f[x] # Zero
    BY <1>1, <1>3 DEF ProductsSplit, Terms
  <2>3. QED
    BY <2>1, <2>2, ZeroLaws
<1>4. \A s \in SUBSET S : s \in T
  <2>1. IsFiniteSet(S)
    BY DEF Terms
  <2> HIDE DEF T
  <2>2. QED
    BY <1>2, <1>3, <2>1, SubsetInduction
<1>5. QED
  BY <1>4

(* Ratios multiplied are the ratio of the products.                          *)
LEMMA ProductOfRatios ==
    ASSUME NEW F, Field(F), NEW f, NEW g, NEW q, NEW S, Terms(F, f, S), Terms(F, g, S),
           \A i \in S : g[i] # Zero /\ q[i] = field_mul(f[i], field_inverse(g[i]))
    PROVE  /\ Terms(F, q, S) /\ ProductOver(q, S) \in F
           /\ field_mul(ProductOver(q, S), ProductOver(g, S)) = ProductOver(f, S)
<1>1. ASSUME NEW i \in S
      PROVE  q[i] \in F /\ f[i] = field_mul(q[i], g[i])
  <2>1. f[i] \in F /\ g[i] \in F /\ g[i] # Zero
    BY DEF Terms
  <2>2. field_inverse(g[i]) \in F /\ field_mul(g[i], field_inverse(g[i])) = One
    BY <2>1 DEF Field
  <2>3. field_mul(field_inverse(g[i]), g[i]) = One
    BY <2>1, <2>2, MulLaws
  <2>4. field_mul(field_mul(f[i], field_inverse(g[i])), g[i]) = field_mul(f[i], One)
    BY <2>1, <2>2, <2>3, MulLaws
  <2>5. QED
    BY <2>1, <2>2, <2>4, MulLaws
<1>2. Terms(F, q, S)
  BY <1>1 DEF Terms
<1>3. MultipliesTerms(q, g, f, S)
  BY <1>1 DEF MultipliesTerms
<1>4. ProductOver(f, S) = field_mul(ProductOver(q, S), ProductOver(g, S))
  BY <1>2, <1>3, ProductsCombine
<1>5. ProductOver(q, S) \in F
  BY <1>2, TermsSplit DEF ProductsSplit
<1>6. QED
  BY <1>2, <1>4, <1>5

(* A factor that one term lacks and the other has.                           *)
LEMMA SwapFactors ==
    ASSUME NEW F, Field(F), NEW g \in F, NEW e \in F, NEW r \in F, NEW o \in F
    PROVE  field_mul(g, field_mul(field_mul(e, r), o)) = field_mul(e, field_mul(field_mul(g, r), o))
<1> DEFINE ro == field_mul(r, o)
<1>0. /\ \A x, y \in F : field_mul(x, y) \in F
      /\ \A x, y \in F : field_mul(x, y) = field_mul(y, x)
  BY ONLY Field(F), MulLaws, ZenonT(60)
<1>1. ro \in F /\ \A x, y \in F : field_mul(x, y) \in F /\ field_mul(x, y) = field_mul(y, x)
  BY <1>0
<1>2. \A x, y, z \in F : field_mul(x, field_mul(y, z)) = field_mul(field_mul(x, y), z)
  BY ONLY Field(F), MulLaws, ZenonT(60)
<1>3. /\ field_mul(field_mul(e, r), o) = field_mul(e, ro)
      /\ field_mul(field_mul(g, r), o) = field_mul(g, ro)
  BY <1>2
<1> HIDE DEF ro
<1>4. /\ field_mul(g, field_mul(e, ro)) = field_mul(field_mul(g, e), ro)
      /\ field_mul(e, field_mul(g, ro)) = field_mul(field_mul(e, g), ro)
  BY <1>1, <1>2
<1>5. field_mul(g, e) = field_mul(e, g)
  BY <1>1
<1>6. QED
  BY <1>3, <1>4, <1>5

(* A factor of the public inputs is a term of the permutation.               *)
LEMMA DeltaTerm ==
    ASSUME NEW F, Field(F), NEW w \in F, NEW p \in F, NEW k \in F, NEW beta \in F, NEW gamma \in F
    PROVE  field_add(field_add(w, field_mul(field_mul(p, k), beta)), gamma)
           = field_add(field_add(w, gamma), field_mul(k, field_mul(beta, p)))
<1> DEFINE x == field_mul(field_mul(p, k), beta)
           y == field_mul(k, field_mul(beta, p))
<1>1. \A a, b \in F : field_mul(a, b) \in F /\ field_mul(a, b) = field_mul(b, a)
  BY MulLaws
<1>2. \A a, b, c \in F : field_mul(a, field_mul(b, c)) = field_mul(field_mul(a, b), c)
  BY MulLaws
<1>3. x = y
  <2>1. field_mul(p, k) = field_mul(k, p) /\ field_mul(beta, p) = field_mul(p, beta)
    BY <1>1
  <2>2. field_mul(k, field_mul(p, beta)) = field_mul(field_mul(k, p), beta)
    BY <1>2
  <2>3. QED
    BY <2>1, <2>2
<1>4. x \in F
  BY <1>1
<1> HIDE DEF x, y
<1>5. \A a, b \in F : field_add(a, b) \in F /\ field_add(a, b) = field_add(b, a)
  BY AddLaws
<1>6. field_add(w, field_add(x, gamma)) = field_add(field_add(w, x), gamma)
      /\ field_add(w, field_add(gamma, x)) = field_add(field_add(w, gamma), x)
  BY <1>4, AddLaws
<1>7. field_add(x, gamma) = field_add(gamma, x)
  BY <1>4, <1>5
<1>8. QED
  BY <1>3, <1>6, <1>7 DEF x, y

\* What each cell contributes to the denominators and to the numerators.
PermutedTerms(with_tags, beta, gamma) ==
    [cell \in Cells(circuit_size) |->
        PermutationTerm(WireValue(cell), ValueOf(SigmaElement(cell, with_tags), TheRoot),
                        [beta |-> beta, gamma |-> gamma])]
IdentityTerms(with_tags, beta, gamma) ==
    [cell \in Cells(circuit_size) |->
        PermutationTerm(WireValue(cell), ValueOf(IdElement(cell, with_tags), TheRoot),
                        [beta |-> beta, gamma |-> gamma])]

(* Contributions are in the field.                                           *)
LEMMA TermsIn ==
    ASSUME NEW F, CircuitIn(F), BuildTyped(F), wires # <<>>, NEW with_tags \in BOOLEAN,
           NEW beta \in F, NEW gamma \in F
    PROVE  /\ Terms(F, PermutedTerms(with_tags, beta, gamma), Cells(circuit_size))
           /\ Terms(F, IdentityTerms(with_tags, beta, gamma), Cells(circuit_size))
<1>1. circuit_size \in Nat /\ program_width \in Nat
  BY SizeFits DEF CircuitIn, SizesFit, Sized
<1>2. IsFiniteSet(Cells(circuit_size))
  BY <1>1, CellsFinite
<1>3. \A w, s \in F : PermutationTerm(w, s, [beta |-> beta, gamma |-> gamma]) \in F
  BY AddLaws, MulLaws DEF PermutationTerm, CircuitIn
<1>4. ASSUME NEW cell \in Cells(circuit_size)
      PROVE  /\ PermutedTerms(with_tags, beta, gamma)[cell] \in F
             /\ IdentityTerms(with_tags, beta, gamma)[cell] \in F
  <2>1. /\ cell.row \in 0 .. circuit_size - 1 /\ cell.column \in Columns
        /\ cell = Node(cell.row, cell.column)
    BY <1>1, CellsFinite
  <2>2. /\ WireValue(cell) \in F
        /\ ValueOf(SigmaElement(cell, with_tags), TheRoot) \in F
        /\ ValueOf(IdElement(cell, with_tags), TheRoot) \in F
    BY <2>1, ValuesIn
  <2>3. QED
    BY <1>3, <2>2 DEF PermutedTerms, IdentityTerms
<1>5. QED
  BY <1>2, <1>4 DEF Terms

\* The factors of the public inputs, from the first column.
PublicCells == {Node(row, 0) : row \in 0 .. get_num_public_inputs - 1}

(* The public inputs' first wires unbalance the products by two factors.     *)
LEMMA PublicFactors ==
    ASSUME NEW F, CircuitIn(F), BuildTyped(F), wires # <<>>, NEW with_tags \in BOOLEAN,
           NEW beta \in F, NEW gamma \in F, NEW g,
           \A cell \in copy_nodes :
              g[cell] = IdentityTerms(with_tags, beta, gamma)[NextInCycle(cell)]
    PROVE  LET delta(coset) == DeltaFactor(get_public_inputs, beta, gamma, TheRoot, coset)
           IN  /\ ProductOver(PermutedTerms(with_tags, beta, gamma), PublicCells)
                  = delta(external_coset_generator)
               /\ ProductOver(g, PublicCells) = delta(coset_generator(0))
<1> DEFINE k == get_num_public_inputs
           U == PermutedTerms(with_tags, beta, gamma)
           S == 1 .. k
           b == [i \in S |-> Node(i - 1, 0)]
           factor(i, coset) ==
               field_add(field_add(get_public_inputs[i], gamma),
                         field_mul(coset, field_mul(beta, field_pow(TheRoot, i - 1))))
           external == [i \in S |-> factor(i, external_coset_generator)]
           first == [i \in S |-> factor(i, coset_generator(0))]
<1>1. /\ SizesFit /\ Field(F) /\ Sized(circuit_size) /\ Rows <= circuit_size
      /\ k \in Nat /\ Rows \in Nat /\ k <= Rows /\ circuit_size \in Nat
      /\ copy_nodes \subseteq Cells(Rows) /\ Cells(Rows) \subseteq Cells(circuit_size)
  <2>1. SizesFit /\ Field(F) /\ Sized(circuit_size) /\ Rows <= circuit_size
    BY SizeFits DEF CircuitIn
  <2>2. k \in Nat /\ Rows \in Nat /\ k <= Rows /\ copy_nodes \subseteq Cells(Rows)
    BY <2>1, CopyNodes
  <2>3. (0 .. Rows - 1) \X Columns \subseteq (0 .. circuit_size - 1) \X Columns
    BY <2>1, <2>2 DEF Sized
  <2>4. Cells(Rows) \subseteq Cells(circuit_size)
    BY <2>3 DEF Cells
  <2>5. QED
    BY <2>1, <2>2, <2>4 DEF Sized
<1>2. DOMAIN get_public_inputs = S
  BY DEF get_public_inputs
<1>3. /\ external_coset_generator \in F /\ coset_generator(0) \in F /\ TheRoot \in F
  <2>1. 0 \in 0 .. program_width - 2
    BY <1>1 DEF SizesFit
  <2>2. QED
    BY <1>1, <2>1, CircuitSizesAre DEF CircuitIn, RootsIn, TheRoot, Sized
<1>4. ASSUME NEW i \in S
      PROVE  /\ b[i] \in copy_nodes /\ external[i] \in F /\ first[i] \in F
             /\ U[b[i]] = external[i] /\ g[b[i]] = first[i]
  <2> DEFINE row == i - 1
             node == Node(row, 0)
             m == NextInCycle(node)
             w == get_public_inputs[i]
             p == field_pow(TheRoot, row)
  <2>1. row \in 0 .. k - 1 /\ row + 1 = i /\ row \in Nat
    BY <1>1
  <2>2. /\ node \in copy_nodes
        /\ WireValue(node) = w /\ WireValue(m) = w
        /\ ValueOf(SigmaElement(node, with_tags), TheRoot) = field_mul(p, external_coset_generator)
        /\ ValueOf(IdElement(m, with_tags), TheRoot) = field_mul(p, coset_generator(0))
    <3> HIDE DEF row
    <3>1. w = get_public_inputs[row + 1]
      BY <2>1
    <3>2. QED
      BY <2>1, <3>1, PublicValues
  <2>3. m \in copy_nodes
    BY <1>1, <2>2, NextNode
  <2>4. node \in Cells(circuit_size) /\ m \in Cells(circuit_size)
    BY <1>1, <2>2, <2>3
  <2>5. w \in F
    <3>1. Terms(F, U, Cells(circuit_size))
      BY TermsIn
    <3>2. node.row \in 0 .. circuit_size - 1 /\ node.column \in Columns /\ node = Node(node.row, node.column)
      BY <1>1, <2>4, CellsFinite DEF SizesFit
    <3>3. WireValue(node) \in F
      BY <3>2, ValuesIn
    <3>4. QED
      BY <2>2, <3>3
  <2>6. p \in F
    BY <1>1, <1>3, <2>1, PowerLaws
  <2> HIDE DEF row, node, m, w, p
  <2>7. U[node] = field_add(field_add(w, field_mul(field_mul(p, external_coset_generator), beta)), gamma)
    BY <2>2, <2>4 DEF PermutedTerms, PermutationTerm
  <2>8. g[node] = field_add(field_add(w, field_mul(field_mul(p, coset_generator(0)), beta)), gamma)
    <3>1. g[node] = IdentityTerms(with_tags, beta, gamma)[m]
      BY <2>2 DEF m
    <3>2. QED
      BY <2>2, <2>4, <3>1 DEF IdentityTerms, PermutationTerm
  <2>9. /\ external[i] = field_add(field_add(w, gamma),
                                   field_mul(external_coset_generator, field_mul(beta, p)))
        /\ first[i] = field_add(field_add(w, gamma),
                                field_mul(coset_generator(0), field_mul(beta, p)))
    BY DEF w, p, row
  <2>10. U[node] = external[i]
    BY <1>1, <1>3, <2>5, <2>6, <2>7, <2>9, DeltaTerm
  <2>11. g[node] = first[i]
    BY <1>1, <1>3, <2>5, <2>6, <2>8, <2>9, DeltaTerm
  <2>12. \A c \in F : field_add(field_add(w, gamma), field_mul(c, field_mul(beta, p))) \in F
    BY <1>1, <2>5, <2>6, AddLaws, MulLaws
  <2>13. b[i] = node
    BY DEF node, row
  <2>14. QED
    BY <1>3, <2>2, <2>9, <2>10, <2>11, <2>12, <2>13
<1>5. IsFiniteSet(S)
  <2>1. k \in Int
    BY ONLY <1>1
  <2> QED
    BY ONLY <2>1, FS_Interval, 1 \in Int DEF S
<1>6. PublicCells = {b[i] : i \in S}
  <2>1. \A i \in S : i - 1 \in 0 .. k - 1
    BY <1>1
  <2>2. \A row \in 0 .. k - 1 : row + 1 \in S /\ b[row + 1] = Node(row, 0)
    BY <1>1
  <2>3. QED
    BY <2>1, <2>2 DEF PublicCells
<1>7. \A i, j \in S : b[i] = b[j] => i = j
  <2>1. \A i \in S : b[i].row = i - 1
    BY DEF Node
  <2>2. \A i, j \in S : i - 1 = j - 1 => i = j
    BY <1>1
  <2>3. QED
    BY <2>1, <2>2
<1>8. /\ DeltaFactor(get_public_inputs, beta, gamma, TheRoot, external_coset_generator)
         = ProductOver(external, S)
      /\ DeltaFactor(get_public_inputs, beta, gamma, TheRoot, coset_generator(0))
         = ProductOver(first, S)
  BY <1>2 DEF DeltaFactor, ProductOver
<1>9. ProductOver(external, S) = ProductOver(U, PublicCells)
  <2>1. Terms(F, external, S) /\ Moved(U, external, b, S, PublicCells)
    <3> HIDE DEF external, b, S, U
    <3>1. QED
      BY <1>4, <1>5, <1>6, <1>7 DEF Terms, Moved
  <2> HIDE DEF external, b, S, U
  <2>2. QED
    BY ONLY <1>1, <2>1, ProductsMove
<1>10. ProductOver(first, S) = ProductOver(g, PublicCells)
  <2>1. Terms(F, first, S) /\ Moved(g, first, b, S, PublicCells)
    <3> HIDE DEF first, b, S
    <3>1. QED
      BY <1>4, <1>5, <1>6, <1>7 DEF Terms, Moved
  <2> HIDE DEF first, b, S
  <2>2. QED
    BY ONLY <1>1, <2>1, ProductsMove
<1>11. QED
  BY <1>8, <1>9, <1>10

(* From the last row that is used on, the products differ by these factors.  *)
LEMMA CellsBalance ==
    ASSUME NEW F, CircuitIn(F), BuildTyped(F), wires # <<>>, NEW with_tags \in BOOLEAN,
           NEW beta \in F, NEW gamma \in F, NEW n \in Rows .. circuit_size
    PROVE  LET delta(coset) == DeltaFactor(get_public_inputs, beta, gamma, TheRoot, coset)
               U == PermutedTerms(with_tags, beta, gamma)
               V == IdentityTerms(with_tags, beta, gamma)
           IN  /\ Terms(F, U, Cells(n)) /\ Terms(F, V, Cells(n))
               /\ delta(external_coset_generator) \in F /\ delta(coset_generator(0)) \in F
               /\ field_mul(delta(coset_generator(0)), ProductOver(U, Cells(n)))
                  = field_mul(delta(external_coset_generator), ProductOver(V, Cells(n)))
<1> DEFINE delta(coset) == DeltaFactor(get_public_inputs, beta, gamma, TheRoot, coset)
           U == PermutedTerms(with_tags, beta, gamma)
           V == IdentityTerms(with_tags, beta, gamma)
           next == [cell \in copy_nodes |-> NextInCycle(cell)]
           g == [cell \in copy_nodes |-> V[NextInCycle(cell)]]
           others == Cells(n) \ copy_nodes
           inner == copy_nodes \ PublicCells
<1>1. /\ SizesFit /\ Field(F) /\ Rows \in Nat /\ n \in Nat /\ Rows <= n /\ n <= circuit_size
      /\ circuit_size \in Nat /\ IsFiniteSet(copy_nodes)
      /\ copy_nodes \subseteq Cells(Rows)
  <2>1. SizesFit /\ Field(F) /\ Sized(circuit_size)
    BY SizeFits DEF CircuitIn
  <2>2. Rows \in Nat /\ copy_nodes \subseteq Cells(Rows) /\ IsFiniteSet(copy_nodes)
    BY <2>1, CopyNodes
  <2>3. QED
    BY <2>1, <2>2 DEF Sized
<1>2. Cells(Rows) \subseteq Cells(n) /\ Cells(n) \subseteq Cells(circuit_size)
  <2>1. /\ (0 .. Rows - 1) \X Columns \subseteq (0 .. n - 1) \X Columns
        /\ (0 .. n - 1) \X Columns \subseteq (0 .. circuit_size - 1) \X Columns
    BY <1>1
  <2>2. QED
    BY <2>1 DEF Cells
<1>3. copy_nodes \subseteq Cells(n) /\ copy_nodes \subseteq Cells(circuit_size)
  BY <1>1, <1>2
<1>4. Terms(F, U, Cells(circuit_size)) /\ Terms(F, V, Cells(circuit_size))
  BY TermsIn
<1>5. IsFiniteSet(Cells(n))
  BY <1>1, CellsFinite DEF SizesFit
<1>6. Terms(F, U, Cells(n)) /\ Terms(F, V, Cells(n))
  BY <1>2, <1>4, <1>5 DEF Terms
<1>7. PublicCells \subseteq copy_nodes
  BY <1>1, CopyNodes DEF PublicCells
<1>8. \A cell \in copy_nodes : NextInCycle(cell) \in copy_nodes
  BY <1>1, NextNode
<1>9. Terms(F, g, copy_nodes)
  BY <1>1, <1>3, <1>4, <1>8 DEF Terms
<1>10. ProductOver(U, PublicCells) = delta(external_coset_generator)
       /\ ProductOver(g, PublicCells) = delta(coset_generator(0))
  <2>1. \A cell \in copy_nodes : g[cell] = IdentityTerms(with_tags, beta, gamma)[NextInCycle(cell)]
    OBVIOUS
  <2> HIDE DEF g
  <2>2. QED
    BY <2>1, PublicFactors
<1>11. ProductOver(V, copy_nodes) = ProductOver(g, copy_nodes)
  <2>1. Moved(V, g, next, copy_nodes, copy_nodes)
    <3>1. copy_nodes = {next[cell] : cell \in copy_nodes}
          /\ \A l, m \in copy_nodes : next[l] = next[m] => l = m
      BY <1>1, NextPermutes
    <3>2. \A cell \in copy_nodes : g[cell] = V[next[cell]]
      OBVIOUS
    <3> HIDE DEF next, g, V
    <3>3. QED
      BY <3>1, <3>2 DEF Moved
  <2> HIDE DEF next, g, V
  <2>2. QED
    BY ONLY <1>1, <1>9, <2>1, ProductsMove
<1>12. \A cell \in inner : U[cell] = g[cell]
  <2> SUFFICES ASSUME NEW cell \in inner
               PROVE  U[cell] = g[cell]
    OBVIOUS
  <2>1. ~ (cell.row < get_num_public_inputs /\ cell.column = 0)
    <3> SUFFICES ASSUME cell.row < get_num_public_inputs, cell.column = 0
                 PROVE  FALSE
      OBVIOUS
    <3>1. cell.row \in 0 .. Rows - 1 /\ cell = Node(cell.row, cell.column)
          /\ get_num_public_inputs \in Nat
      BY <1>1, CopyNodes
    <3>2. cell.row \in 0 .. get_num_public_inputs - 1
      BY <3>1
    <3>3. QED
      BY <3>1, <3>2 DEF PublicCells
  <2>2. /\ WireValue(NextInCycle(cell)) = WireValue(cell)
        /\ ValueOf(SigmaElement(cell, with_tags), TheRoot)
           = ValueOf(IdElement(NextInCycle(cell), with_tags), TheRoot)
    BY <2>1, NextHasTheValue
  <2>3. cell \in Cells(circuit_size) /\ NextInCycle(cell) \in Cells(circuit_size)
    BY <1>3, <1>8
  <2>4. QED
    BY <2>2, <2>3 DEF PermutedTerms, IdentityTerms
<1>13. \A cell \in others : U[cell] = V[cell]
  BY <1>2, OthersStay DEF PermutedTerms, IdentityTerms
<1>14. ProductOver(U, inner) = ProductOver(g, inner)
  <2> HIDE DEF U, g
  <2>1. [cell \in inner |-> U[cell]] = [cell \in inner |-> g[cell]]
    BY <1>12
  <2>2. QED
    BY <2>1 DEF ProductOver
<1>15. ProductOver(U, others) = ProductOver(V, others)
  <2> HIDE DEF U, V
  <2>1. [cell \in others |-> U[cell]] = [cell \in others |-> V[cell]]
    BY <1>13
  <2>2. QED
    BY <2>1 DEF ProductOver
<1>16. /\ copy_nodes \cap others = {} /\ Cells(n) = copy_nodes \cup others
       /\ PublicCells \cap inner = {} /\ copy_nodes = PublicCells \cup inner
       /\ others \subseteq Cells(n) /\ inner \subseteq copy_nodes
  BY <1>3, <1>7
<1> DEFINE e == delta(external_coset_generator)
           f == delta(coset_generator(0))
           r == ProductOver(g, inner)
           o == ProductOver(V, others)
<1>17. ProductsSplit(F, U, Cells(n)) /\ ProductsSplit(F, V, Cells(n)) /\ ProductsSplit(F, g, copy_nodes)
  BY <1>1, <1>6, <1>9, TermsSplit
<1> HIDE DEF U, V, g, next, others, inner, delta
<1>18. /\ ProductOver(U, Cells(n)) = field_mul(ProductOver(U, copy_nodes), ProductOver(U, others))
       /\ ProductOver(V, Cells(n)) = field_mul(ProductOver(V, copy_nodes), ProductOver(V, others))
       /\ ProductOver(U, copy_nodes) = field_mul(ProductOver(U, PublicCells), ProductOver(U, inner))
       /\ ProductOver(g, copy_nodes) = field_mul(ProductOver(g, PublicCells), ProductOver(g, inner))
       /\ o \in F /\ r \in F /\ ProductOver(U, PublicCells) \in F /\ ProductOver(g, PublicCells) \in F
  <2>1. PublicCells \subseteq Cells(n) /\ inner \subseteq Cells(n)
    BY <1>3, <1>7, <1>16
  <2>2. QED
    BY <1>3, <1>7, <1>16, <1>17, <2>1 DEF ProductsSplit
<1>19. /\ ProductOver(U, Cells(n)) = field_mul(field_mul(e, r), o)
       /\ ProductOver(V, Cells(n)) = field_mul(field_mul(f, r), o)
       /\ e \in F /\ f \in F
  BY <1>10, <1>11, <1>14, <1>15, <1>18
<1>20. field_mul(f, ProductOver(U, Cells(n))) = field_mul(e, ProductOver(V, Cells(n)))
  <2> HIDE DEF e, f, r, o
  <2>1. QED
    BY <1>1, <1>18, <1>19, SwapFactors
<1>21. QED
  BY <1>6, <1>19, <1>20 DEF U, V, delta

\* Of a compiled circuit: the rows in use, its values, the identities of a
\* circuit without tags, and how the rows' products balance.
SizeFacts(circuit, rows) ==
    /\ Sized(circuit.size) /\ rows \in 0 .. circuit.size
    /\ \A query \in Queries : query.num_roots \in 0 .. circuit.size - 1

ValueFacts(F, circuit) ==
    \A c \in Columns, j \in 0 .. circuit.size - 1 :
        circuit.w[c][j] \in F /\ circuit.sigma[c][j] \in F /\ circuit.id[c][j] \in F

IdentityFacts(circuit) ==
    ~ circuit.with_tags =>
        \A c \in Columns, j \in 0 .. circuit.size - 1 :
            circuit.id[c][j] = field_mul(field_pow(Domains[circuit.size].root, j),
                                         IF c > 0 THEN coset_generator(c - 1) ELSE One)

NumeratorsOf(circuit, beta, gamma) ==
    [j \in 0 .. circuit.size - 1 |-> Numerator(circuit, j, beta, gamma)]
DenominatorsOf(circuit, beta, gamma) ==
    [j \in 0 .. circuit.size - 1 |-> Denominator(circuit, j, beta, gamma)]

BalanceFacts(F, circuit, inputs, rows) ==
    \A beta, gamma \in F, n \in rows .. circuit.size :
        LET delta(coset) == DeltaFactor(inputs, beta, gamma, Domains[circuit.size].root, coset)
            U == DenominatorsOf(circuit, beta, gamma)
            V == NumeratorsOf(circuit, beta, gamma)
        IN  /\ Terms(F, U, 0 .. n - 1) /\ Terms(F, V, 0 .. n - 1)
            /\ delta(external_coset_generator) \in F /\ delta(coset_generator(0)) \in F
            /\ field_mul(delta(coset_generator(0)), ProductOver(U, 0 .. n - 1))
               = field_mul(delta(external_coset_generator), ProductOver(V, 0 .. n - 1))

CompiledFacts(F, circuit, inputs, rows) ==
    /\ SizeFacts(circuit, rows) /\ ValueFacts(F, circuit) /\ IdentityFacts(circuit)
    /\ BalanceFacts(F, circuit, inputs, rows)

(* The rows of compiled polynomials balance up to the public inputs.         *)
LEMMA CompiledBalances ==
    ASSUME NEW F, CircuitIn(F), BuildTyped(F), wires # <<>>, NEW with_tags \in BOOLEAN,
           ~ CompilePanics(with_tags), NEW beta \in F, NEW gamma \in F, NEW n \in Rows .. circuit_size
    PROVE  LET delta(coset) == DeltaFactor(get_public_inputs, beta, gamma, TheRoot, coset)
               U == DenominatorsOf(Compiled(with_tags), beta, gamma)
               V == NumeratorsOf(Compiled(with_tags), beta, gamma)
           IN  /\ Terms(F, U, 0 .. n - 1) /\ Terms(F, V, 0 .. n - 1)
               /\ delta(external_coset_generator) \in F /\ delta(coset_generator(0)) \in F
               /\ field_mul(delta(coset_generator(0)), ProductOver(U, 0 .. n - 1))
                  = field_mul(delta(external_coset_generator), ProductOver(V, 0 .. n - 1))
<1> DEFINE circuit == Compiled(with_tags)
           c == [beta |-> beta, gamma |-> gamma]
           U == DenominatorsOf(circuit, beta, gamma)
           V == NumeratorsOf(circuit, beta, gamma)
           u == PermutedTerms(with_tags, beta, gamma)
           v == IdentityTerms(with_tags, beta, gamma)
<1>1. /\ Sized(circuit_size) /\ circuit_size \in Nat /\ Rows \in Nat /\ Field(F)
      /\ n \in Nat /\ n <= circuit_size /\ program_width \in Nat
  <2>1. SizesFit /\ Field(F) /\ Sized(circuit_size) /\ program_width \in Nat
    BY SizeFits DEF CircuitIn, SizesFit
  <2>2. Rows \in Nat
    BY <2>1, CopyNodes
  <2>3. QED
    BY <2>1, <2>2 DEF Sized
<1>2. circuit.size = circuit_size
  BY DEF Compiled
<1>3. ASSUME NEW j \in 0 .. circuit_size - 1
      PROVE  /\ U[j] = field_product([column \in Columns |-> u[Node(j, column)]])
             /\ V[j] = field_product([column \in Columns |-> v[Node(j, column)]])
  <2>1. ASSUME NEW column \in Columns
        PROVE  /\ PermutationTerm(circuit.w[column][j], circuit.sigma[column][j], c) = u[Node(j, column)]
               /\ PermutationTerm(circuit.w[column][j], circuit.id[column][j], c) = v[Node(j, column)]
    <3>1. /\ circuit.sigma[column][j] = ValueOf(SigmaElement(Node(j, column), with_tags), TheRoot)
          /\ circuit.id[column][j] = ValueOf(IdElement(Node(j, column), with_tags), TheRoot)
          /\ circuit.w[column][j] = WireValue(Node(j, column))
      BY CompiledValues
    <3>2. Node(j, column) \in Cells(circuit_size)
      BY <1>1, CellsFinite
    <3>3. QED
      BY <3>1, <3>2 DEF PermutedTerms, IdentityTerms
  <2>2. U[j] = field_product([column \in Columns |->
                   PermutationTerm(circuit.w[column][j], circuit.sigma[column][j], c)])
    BY <1>2 DEF DenominatorsOf, Denominator, RowProduct
  <2>3. V[j] = field_product([column \in Columns |->
                   PermutationTerm(circuit.w[column][j], circuit.id[column][j], c)])
    BY <1>2 DEF NumeratorsOf, Numerator, RowProduct
  <2> HIDE DEF circuit, c, u, v, U, V
  <2>4. [column \in Columns |-> PermutationTerm(circuit.w[column][j], circuit.sigma[column][j], c)]
        = [column \in Columns |-> u[Node(j, column)]]
    BY <2>1
  <2>5. [column \in Columns |-> PermutationTerm(circuit.w[column][j], circuit.id[column][j], c)]
        = [column \in Columns |-> v[Node(j, column)]]
    BY <2>1
  <2>6. QED
    BY <2>2, <2>3, <2>4, <2>5
<1> DEFINE delta(coset) == DeltaFactor(get_public_inputs, beta, gamma, TheRoot, coset)
           first == delta(coset_generator(0))
           external == delta(external_coset_generator)
<1>4. /\ Terms(F, u, Cells(n)) /\ Terms(F, v, Cells(n))
      /\ external \in F /\ first \in F
      /\ field_mul(first, ProductOver(u, Cells(n))) = field_mul(external, ProductOver(v, Cells(n)))
  BY CellsBalance
<1>5. /\ Field(F) /\ program_width \in Nat /\ n \in Nat
      /\ \A j \in 0 .. n - 1 : j \in 0 .. circuit_size - 1
  BY <1>1
<1>5a. \A j \in 0 .. n - 1 : U[j] = field_product([column \in Columns |-> u[Node(j, column)]])
  BY ONLY <1>3, <1>5
<1>5b. \A j \in 0 .. n - 1 : V[j] = field_product([column \in Columns |-> v[Node(j, column)]])
  BY ONLY <1>3, <1>5
<1> HIDE DEF u, v, U, V, first, external
<1>6. Terms(F, U, 0 .. n - 1) /\ ProductOver(U, 0 .. n - 1) = ProductOver(u, Cells(n))
  BY ONLY <1>4, <1>5, <1>5a, RowsMultiply, ZenonT(60)
<1>7. Terms(F, V, 0 .. n - 1) /\ ProductOver(V, 0 .. n - 1) = ProductOver(v, Cells(n))
  BY ONLY <1>4, <1>5, <1>5b, RowsMultiply, ZenonT(60)
<1>8. QED
  BY <1>4, <1>6, <1>7 DEF U, V, first, external

(* All that a proof and its verification need of a compiled circuit.         *)
LEMMA CompiledIsRight ==
    ASSUME NEW F, CircuitIn(F), BuildTyped(F), wires # <<>>, NEW with_tags \in BOOLEAN,
           ~ CompilePanics(with_tags)
    PROVE  CompiledFacts(F, Compiled(with_tags), get_public_inputs, Rows)
<1> DEFINE circuit == Compiled(with_tags)
<1>1. circuit.size = circuit_size /\ circuit.with_tags = with_tags
  BY DEF Compiled
<1>2. SizeFacts(circuit, Rows)
  <2>1. Rows \in Nat
    BY CopyNodes DEF CircuitIn
  <2>2. /\ Sized(circuit_size) /\ Rows <= circuit_size
        /\ \A query \in Queries : query.num_roots \in 0 .. circuit_size - 1
    BY SizeFits
  <2>3. QED
    BY <1>1, <2>1, <2>2 DEF SizeFacts
<1>3. ValueFacts(F, circuit)
  <2> SUFFICES ASSUME NEW c \in Columns, NEW j \in 0 .. circuit_size - 1
               PROVE  circuit.w[c][j] \in F /\ circuit.sigma[c][j] \in F /\ circuit.id[c][j] \in F
    BY <1>1 DEF ValueFacts
  <2>1. QED
    BY CompiledValues, ValuesIn
<1>4. IdentityFacts(circuit)
  <2> SUFFICES ASSUME ~ with_tags, NEW c \in Columns, NEW j \in 0 .. circuit_size - 1
               PROVE  circuit.id[c][j] = field_mul(field_pow(TheRoot, j),
                                             IF c > 0 THEN coset_generator(c - 1) ELSE One)
    BY <1>1 DEF IdentityFacts, TheRoot
  <2>1. circuit.id[c][j] = ValueOf(IdElement(Node(j, c), with_tags), TheRoot)
    BY CompiledValues
  <2>2. IdElement(Node(j, c), with_tags) = SubgroupElement(j, c)
    <3>1. IdElement(Node(j, c), with_tags) = Element(Node(j, c))
      BY DEF IdElement
    <3>2. QED
      BY <3>1 DEF Element, Node
  <2>3. /\ SubgroupElement(j, c).subgroup_index = j /\ SubgroupElement(j, c).column_index = c
        /\ ~ SubgroupElement(j, c).is_public_input /\ ~ SubgroupElement(j, c).is_tag
    BY DEF SubgroupElement
  <2>4. QED
    BY <2>1, <2>2, <2>3 DEF ValueOf, ColumnFactor
<1>5. BalanceFacts(F, circuit, get_public_inputs, Rows)
  BY <1>1, CompiledBalances DEF BalanceFacts, TheRoot
<1>6. QED
  BY <1>2, <1>3, <1>4, <1>5 DEF CompiledFacts

(* Divisions.                                                                *)
LEMMA QuotientIs ==
    ASSUME NEW F, Field(F), NEW a \in F, NEW p \in F, NEW b \in F, p # Zero, field_mul(p, a) = b
    PROVE  a = field_mul(b, field_inverse(p))
<1> DEFINE v == field_inverse(p)
<1>1. v \in F /\ field_mul(p, v) = One
  BY DEF Field
<1> HIDE DEF v
<1>2. \A x, y \in F : field_mul(x, y) \in F /\ field_mul(x, y) = field_mul(y, x)
  BY MulLaws
<1>a. \A x \in F : field_mul(x, One) = x
  BY MulLaws
<1>3. field_mul(a, field_mul(p, v)) = field_mul(field_mul(a, p), v)
  <2>1. \A x, y, w \in F : field_mul(x, field_mul(y, w)) = field_mul(field_mul(x, y), w)
    BY MulLaws
  <2>2. QED
    BY ONLY <1>1, <2>1, a \in F, p \in F
<1>4. field_mul(a, p) = b
  BY <1>2
<1>5. QED
  BY <1>1, <1>a, <1>3, <1>4 DEF v

LEMMA RatioOfProducts ==
    ASSUME NEW F, Field(F), NEW z \in F, NEW u \in F, NEW v \in F, NEW e \in F, NEW f \in F,
           u # Zero, e # Zero, field_mul(z, u) = v, field_mul(f, u) = field_mul(e, v)
    PROVE  z = field_mul(f, field_inverse(e))
<1>1. /\ \A x, y \in F : field_mul(x, y) \in F /\ field_mul(x, y) = field_mul(y, x)
  BY MulLaws
<1>2. field_mul(e, field_mul(z, u)) = field_mul(field_mul(e, z), u)
  BY MulLaws
<1> DEFINE ez == field_mul(e, z)
<1>3. ez \in F /\ field_mul(u, ez) = field_mul(f, u) /\ field_mul(u, f) = field_mul(f, u)
      /\ field_mul(f, u) \in F
  BY <1>1, <1>2
<1> HIDE DEF ez
<1>4. ez = field_mul(field_mul(f, u), field_inverse(u))
      /\ f = field_mul(field_mul(f, u), field_inverse(u))
  <2> DEFINE fu == field_mul(f, u)
  <2>1. fu \in F /\ field_mul(u, ez) = fu /\ field_mul(u, f) = fu
    BY <1>3
  <2> HIDE DEF fu
  <2>2. ez = field_mul(fu, field_inverse(u)) /\ f = field_mul(fu, field_inverse(u))
    BY <1>3, <2>1, QuotientIs
  <2>3. QED
    BY <2>2 DEF fu
<1>5. field_mul(e, z) = f
  BY <1>4 DEF ez
<1>6. QED
  BY <1>5, QuotientIs

(* A grand product's values are elements and, from the last row in use on,   *)
(* the factor of the public inputs.                                          *)
LEMMA GrandProductIsDelta ==
    ASSUME NEW F, Field(F), NEW circuit, NEW inputs, NEW rows, CompiledFacts(F, circuit, inputs, rows),
           NEW beta \in F, NEW gamma \in F,
           \A j \in 0 .. circuit.size - 1 : Denominator(circuit, j, beta, gamma) # Zero
    PROVE  LET z == GrandProduct(circuit, beta, gamma)
               root == Domains[circuit.size].root
           IN  /\ \A n \in 0 .. circuit.size : z[n] \in F
               /\ ~ DeltaPanics(inputs, beta, gamma, root) =>
                     \A n \in rows .. circuit.size :
                         z[n] = compute_public_input_delta(inputs, beta, gamma, root)
<1> DEFINE size == circuit.size
           root == Domains[size].root
           U == DenominatorsOf(circuit, beta, gamma)
           V == NumeratorsOf(circuit, beta, gamma)
           q == [j \in 0 .. size - 1 |-> field_mul(V[j], field_inverse(U[j]))]
           z == GrandProduct(circuit, beta, gamma)
           delta(coset) == DeltaFactor(inputs, beta, gamma, root, coset)
           e == delta(external_coset_generator)
           f == delta(coset_generator(0))
<1>1. Sized(size) /\ rows \in 0 .. size /\ size \in Nat /\ rows \in Nat
  BY DEF CompiledFacts, SizeFacts, Sized
<1>2. \A n \in rows .. size :
         /\ Terms(F, U, 0 .. n - 1) /\ Terms(F, V, 0 .. n - 1) /\ e \in F /\ f \in F
         /\ field_mul(f, ProductOver(U, 0 .. n - 1)) = field_mul(e, ProductOver(V, 0 .. n - 1))
  BY DEF CompiledFacts, BalanceFacts
<1>3. Terms(F, U, 0 .. size - 1) /\ Terms(F, V, 0 .. size - 1)
  <2>1. size \in rows .. size
    BY <1>1
  <2> HIDE DEF size, U, V
  <2>2. QED
    BY <1>2, <2>1
<1>4. \A n \in 0 .. size : z[n] = ProductOver(q, 0 .. n - 1)
  <2>1. ASSUME NEW n \in 0 .. size
        PROVE  z[n] = ProductOver(q, 0 .. n - 1)
    <3> DEFINE ratios == [j \in 0 .. size - 1 |->
                             field_mul(Numerator(circuit, j, beta, gamma),
                                       field_inverse(Denominator(circuit, j, beta, gamma)))]
    <3>1. q = ratios
      BY DEF NumeratorsOf, DenominatorsOf
    <3>2. z[n] = field_product([j \in 0 .. n - 1 |-> ratios[j]])
      BY DEF GrandProduct
    <3> HIDE DEF q, ratios, z
    <3>3. QED
      BY <3>1, <3>2 DEF ProductOver
  <2>2. QED
    BY <2>1
<1>5. \A j \in 0 .. size - 1 : U[j] # Zero /\ q[j] = field_mul(V[j], field_inverse(U[j]))
  BY DEF DenominatorsOf
<1> HIDE DEF U, V, q, z, size
<1>6. ASSUME NEW n \in 0 .. size
      PROVE  /\ z[n] \in F
             /\ field_mul(z[n], ProductOver(U, 0 .. n - 1)) = ProductOver(V, 0 .. n - 1)
             /\ ProductOver(U, 0 .. n - 1) \in F /\ ProductOver(V, 0 .. n - 1) \in F
             /\ ProductOver(U, 0 .. n - 1) # Zero
  <2> DEFINE S == 0 .. n - 1
  <2>1. S \subseteq 0 .. size - 1 /\ IsFiniteSet(S)
    <3>1. n \in Nat /\ n <= size
      BY <1>1
    <3>2. QED
      BY <1>1, <3>1, FS_Interval
  <2>2. Terms(F, U, S) /\ Terms(F, V, S)
    BY <1>3, <2>1 DEF Terms
  <2>3. \A j \in S : U[j] # Zero /\ q[j] = field_mul(V[j], field_inverse(U[j]))
    BY <1>5, <2>1
  <2>4. z[n] = ProductOver(q, S)
    BY <1>4
  <2> HIDE DEF S
  <2>5. ProductOver(q, S) \in F /\ field_mul(ProductOver(q, S), ProductOver(U, S)) = ProductOver(V, S)
    BY ONLY <2>2, <2>3, Field(F), ProductOfRatios
  <2>6. ProductOver(U, S) # Zero
    BY <2>2, <2>3, ProductNonzero
  <2>7. ProductOver(U, S) \in F /\ ProductOver(V, S) \in F
    BY <2>2, TermsSplit DEF ProductsSplit
  <2>8. QED
    BY <2>4, <2>5, <2>6, <2>7 DEF S
<1>7. ASSUME e # Zero, NEW n \in rows .. size
      PROVE  z[n] = field_mul(f, field_inverse(e))
  <2>1. n \in 0 .. size
    BY <1>1
  <2>2. /\ e \in F /\ f \in F
        /\ field_mul(f, ProductOver(U, 0 .. n - 1)) = field_mul(e, ProductOver(V, 0 .. n - 1))
    BY <1>2
  <2> HIDE DEF e, f
  <2>3. QED
    BY <1>6, <1>7, <2>1, <2>2, RatioOfProducts
<1>8. /\ DeltaPanics(inputs, beta, gamma, root) <=> e = Zero
      /\ compute_public_input_delta(inputs, beta, gamma, root) = field_mul(f, field_inverse(e))
  BY DEF DeltaPanics, compute_public_input_delta
<1>9. QED
  <2> HIDE DEF e, f, root
  <2>1. QED
    BY <1>6, <1>7, <1>8 DEF z, size, root

-----------------------------------------------------------------------------
(* Proofs.                                                                   *)

\* Of a proof: the challenges that no denominator is zero for, and its product.
ProofFacts(F, circuit, claim) ==
    \E beta, gamma \in F :
        /\ \A j \in 0 .. circuit.size - 1 : Denominator(circuit, j, beta, gamma) # Zero
        /\ claim = [beta |-> beta, gamma |-> gamma, z |-> GrandProduct(circuit, beta, gamma)]

\* Of a verification that went through: what it read, and made of that.
VerdictOf(circuit, claim, inputs, query) ==
    LET key == KeyFor(circuit, query)
        c == ChallengesFor(claim, query)
        read == ReadFor(circuit, claim, inputs, query)
    IN  [query |-> query, read |-> read, c |-> c,
         value |-> compute_quotient_evaluation_contribution(key, c, read, query.idpolys),
         next_alpha |-> next_alpha(query.alpha)]
VerdictFacts(circuit, claim, inputs, result) ==
    \E query \in Queries :
        /\ query.idpolys \/ ~ circuit.with_tags
        /\ ~ ContributionPanics(KeyFor(circuit, query), ChallengesFor(claim, query),
                                ReadFor(circuit, claim, inputs, query))
        /\ result = VerdictOf(circuit, claim, inputs, query)

ProofInv(F) ==
    /\ BuildTyped(F)
    /\ phase \in {"compiled", "proved", "verified"} =>
          CompiledFacts(F, compiled, get_public_inputs, Rows)
    /\ phase \in {"proved", "verified"} => ProofFacts(F, compiled, proof)
    /\ phase = "verified" => VerdictFacts(compiled, proof, get_public_inputs, verdict)

(* What is made of a circuit leaves its inputs alone.                        *)
LEMMA SameInputs ==
    ASSUME UNCHANGED composerVars
    PROVE  get_public_inputs' = get_public_inputs /\ Rows' = Rows
<1>1. UNCHANGED <<variables, real_variable_index, public_inputs, wires>>
  BY DEF composerVars
<1>2. get_num_public_inputs' = get_num_public_inputs
  BY <1>1 DEF get_num_public_inputs
<1>3. \A i : get_public_input(i)' = get_public_input(i)
  BY <1>1 DEF get_public_input, get_variable
<1>4. get_public_inputs' = get_public_inputs
  BY <1>2, <1>3 DEF get_public_inputs
<1>5. Rows' = Rows
  BY <1>1, <1>2 DEF Rows
<1>6. QED
  BY <1>4, <1>5

(* The invariant: what was compiled, proved or verified has the facts of its *)
(* phase.                                                                    *)
LEMMA InitProofInv ==
    ASSUME NEW F, CircuitIn(F), Init
    PROVE  ProofInv(F)
<1>1. IInv
  BY InitIInv
<1>2. VariableIndices = {} /\ public_inputs = <<>> /\ wires = <<>> /\ phase = "building"
      /\ real_variable_tags = <<>>
  BY DEF Init, ComposerInit, VariableIndices
<1>3. MaxPublicInputs \in Nat /\ MaxGates \in Nat
  BY DEF CircuitIn, SizesFit
<1>4. BuildTyped(F)
  BY <1>1, <1>2, <1>3 DEF BuildTyped
<1>5. QED
  BY <1>2, <1>4 DEF ProofInv

LEMMA NextProofInv ==
    ASSUME NEW F, CircuitIn(F), ProofInv(F), [Next]_vars
    PROVE  ProofInv(F)'
<1>1. BuildTyped(F) /\ BuildTyped(F)'
  BY NextBuildTyped DEF ProofInv
<1>2. ASSUME phase' \in {"building", "panicked"}
      PROVE  ProofInv(F)'
  BY <1>1, <1>2 DEF ProofInv
<1>3. ASSUME NEW with_tags \in BOOLEAN, Compile(with_tags)
      PROVE  ProofInv(F)'
  <2>1. CASE CompilePanics(with_tags)
    BY <1>2, <1>3, <2>1 DEF Compile
  <2>2. CASE ~ CompilePanics(with_tags)
    <3>1. /\ wires # <<>> /\ phase' = "compiled" /\ compiled' = Compiled(with_tags)
          /\ UNCHANGED composerVars
      BY <1>3, <2>2 DEF Compile
    <3>2. CompiledFacts(F, Compiled(with_tags), get_public_inputs, Rows)
      BY <1>1, <2>2, <3>1, CompiledIsRight
    <3>3. get_public_inputs' = get_public_inputs /\ Rows' = Rows
      BY <3>1, SameInputs
    <3>4. CompiledFacts(F, compiled', get_public_inputs', Rows')
      BY <3>1, <3>2, <3>3
    <3>5. QED
      BY <1>1, <3>1, <3>4 DEF ProofInv
  <2>3. QED
    BY <2>1, <2>2
<1>4. ASSUME NEW challenges \in Challenges, Prove(challenges[1], challenges[2])
      PROVE  ProofInv(F)'
  <2> DEFINE beta == challenges[1]
             gamma == challenges[2]
  <2>1. beta \in F /\ gamma \in F
    BY DEF CircuitIn
  <2>2. /\ phase = "compiled" /\ phase' = "proved" /\ compiled' = compiled /\ UNCHANGED composerVars
        /\ \A j \in 0 .. compiled.size - 1 : Denominator(compiled, j, beta, gamma) # Zero
        /\ proof' = [beta |-> beta, gamma |-> gamma, z |-> GrandProduct(compiled, beta, gamma)]
    BY <1>4 DEF Prove
  <2>3. ProofFacts(F, compiled, proof')
    <3> HIDE DEF beta, gamma
    <3>1. QED
      BY <2>1, <2>2 DEF ProofFacts
  <2>4. get_public_inputs' = get_public_inputs /\ Rows' = Rows
    BY <2>2, SameInputs
  <2>5. CompiledFacts(F, compiled, get_public_inputs, Rows)
    BY <2>2 DEF ProofInv
  <2>6. CompiledFacts(F, compiled', get_public_inputs', Rows') /\ ProofFacts(F, compiled', proof')
    BY <2>2, <2>3, <2>4, <2>5
  <2>7. QED
    BY <1>1, <2>2, <2>6 DEF ProofInv
<1>5. ASSUME NEW query \in Queries, Verify(query)
      PROVE  ProofInv(F)'
  <2> DEFINE panics == ContributionPanics(KeyFor(compiled, query), ChallengesFor(proof, query),
                           ReadFor(compiled, proof, get_public_inputs, query))
  <2>1. CASE panics
    BY <1>2, <1>5, <2>1 DEF Verify
  <2>2. CASE ~ panics
    <3>1. /\ phase = "proved" /\ phase' = "verified" /\ compiled' = compiled /\ proof' = proof
          /\ UNCHANGED composerVars
          /\ query.idpolys \/ ~ compiled.with_tags
          /\ verdict' = VerdictOf(compiled, proof, get_public_inputs, query)
      BY <1>5, <2>2 DEF Verify, VerdictOf
    <3>2. VerdictFacts(compiled, proof, get_public_inputs, verdict')
      BY <2>2, <3>1 DEF VerdictFacts
    <3>3. get_public_inputs' = get_public_inputs /\ Rows' = Rows
      BY <3>1, SameInputs
    <3>4. CompiledFacts(F, compiled, get_public_inputs, Rows) /\ ProofFacts(F, compiled, proof)
      BY <3>1 DEF ProofInv
    <3>5. /\ CompiledFacts(F, compiled', get_public_inputs', Rows')
          /\ ProofFacts(F, compiled', proof')
          /\ VerdictFacts(compiled', proof', get_public_inputs', verdict')
      BY <3>1, <3>2, <3>3, <3>4
    <3>6. QED
      BY <1>1, <3>1, <3>5 DEF ProofInv
  <2>3. QED
    BY <2>1, <2>2
<1>6. ASSUME UNCHANGED vars
      PROVE  ProofInv(F)'
  <2>1. UNCHANGED <<composerVars, phase, compiled, proof, verdict>>
    BY <1>6 DEF vars
  <2>2. get_public_inputs' = get_public_inputs /\ Rows' = Rows
    BY <2>1, SameInputs
  <2>3. QED
    BY <1>1, <2>1, <2>2 DEF ProofInv
<1>7. CASE \/ \E value \in Values : CallAddVariable(value) \/ CallAddPublicVariable(value)
           \/ \E a \in DOMAIN variables : CallSetPublicInput(a)
           \/ \E a, b \in DOMAIN variables : CallAssertEqual(a, b)
           \/ \E indices \in Gates : CallCreateGate(indices)
  BY <1>2, <1>7 DEF CallAddVariable, CallAddPublicVariable, CallSetPublicInput, CallAssertEqual,
                    CallCreateGate, Builds
<1>8. QED
  BY <1>3, <1>4, <1>5, <1>6, <1>7 DEF Next

(* Whatever circuit is built, with tags or without, and even when wires that *)
(* are asserted to be equal differ in value, the grand product of its        *)
(* permutation ends at the factor that compute_public_input_delta makes of   *)
(* the public inputs, from the last row in use on.                           *)
THEOREM TheGrandProductEndsAtDelta == CircuitFits => (Spec => []DeltaRebalances)
<1>1. ASSUME NEW F, CircuitIn(F), ProofInv(F)
      PROVE  DeltaRebalances
  <2> SUFFICES ASSUME phase = "proved"
               PROVE  DeltaRebalances
    BY DEF DeltaRebalances
  <2>1. CompiledFacts(F, compiled, get_public_inputs, Rows) /\ ProofFacts(F, compiled, proof)
    BY <1>1 DEF ProofInv
  <2>2. PICK beta \in F, gamma \in F :
           /\ \A j \in 0 .. compiled.size - 1 : Denominator(compiled, j, beta, gamma) # Zero
           /\ proof = [beta |-> beta, gamma |-> gamma, z |-> GrandProduct(compiled, beta, gamma)]
    BY <2>1 DEF ProofFacts
  <2>3. proof.beta = beta /\ proof.gamma = gamma /\ proof.z = GrandProduct(compiled, beta, gamma)
    BY <2>2
  <2>4. Field(F)
    BY <1>1 DEF CircuitIn
  <2>5. ~ DeltaPanics(get_public_inputs, beta, gamma, Domains[compiled.size].root) =>
           \A n \in Rows .. compiled.size :
               GrandProduct(compiled, beta, gamma)[n]
               = compute_public_input_delta(get_public_inputs, beta, gamma, Domains[compiled.size].root)
    BY <2>1, <2>2, <2>4, GrandProductIsDelta
  <2>6. QED
    BY <2>3, <2>5 DEF DeltaRebalances, Rows
<1>2. ASSUME NEW F, CircuitIn(F)
      PROVE  Spec => []DeltaRebalances
  <2>1. Init => ProofInv(F)
    BY <1>2, InitProofInv
  <2>2. ProofInv(F) /\ [Next]_vars => ProofInv(F)'
    BY <1>2, NextProofInv
  <2>3. ProofInv(F) => DeltaRebalances
    BY <1>1, <1>2
  <2>4. QED
    BY <2>1, <2>2, <2>3, PTL DEF Spec
<1>3. QED
  BY <1>2 DEF CircuitFits

-----------------------------------------------------------------------------
(* Verifications.                                                            *)

(* The domains that a circuit may have.                                      *)
LEMMA DomainsAreRoots ==
    ASSUME NEW F, NEW size, Sized(size), RootsIn(F, size)
    PROVE  /\ DomainIn(F, Domains[size], size)
           /\ PowerOfTwo(size) /\ Domains[size].root \in F /\ RootOf(Domains[size].root, size)
           /\ Ones(size) # Zero
<1> DEFINE d == Domains[size]
<1>1. d.root \in F /\ field_pow(d.root, size \div 2) = negated(One) /\ Ones(size) # Zero
  BY DEF RootsIn
<1>2. PowerOfTwo(size)
  BY DEF Sized
<1>3. d.domain_inverse = field_inverse(Ones(size))
  BY DEF Domains, new_domain, Ones, Sized
<1>4. RootOf(d.root, size)
  <2>1. \A m \in Nat : size = 2 * m => m = size \div 2
    OBVIOUS
  <2>2. size # 1
    BY DEF Sized
  <2> HIDE DEF d
  <2>3. QED
    BY <1>1, <2>1, <2>2 DEF RootOf
<1>5. QED
  BY <1>1, <1>2, <1>3, <1>4 DEF DomainIn

(* The L_i are the basis of the values on the subgroup.                      *)
LEMMA LIsBasis ==
    ASSUME NEW F, Field(F), NEW size, Sized(size), RootsIn(F, size), NEW x \in F
    PROVE  /\ \A i \in 1 .. size : L(size, i, x) = Basis(Domains[size].root, x, size, i - 1)
           /\ \A i \in 1 .. size : L(size, i, x) \in F
           /\ \A j \in 0 .. size - 1 : Basis(Domains[size].root, x, size, j) \in F
<1>1. \A i \in 1 .. size : L(size, i, x) = Basis(Domains[size].root, x, size, i - 1)
  BY DEF L, Basis
<1>2. \A i \in 1 .. size : i - 1 \in 0 .. size - 1
  BY DEF Sized
<1>3. ASSUME NEW j \in 0 .. size - 1
      PROVE  Basis(Domains[size].root, x, size, j) \in F
  BY DomainsAreRoots, BasisTimesOthers
<1>4. QED
  BY <1>1, <1>2, <1>3

(* Evaluations are in the field.                                             *)
LEMMA EvaluationsIn ==
    ASSUME NEW F, Field(F), NEW size, Sized(size), RootsIn(F, size), NEW x \in F,
           NEW values, \A j \in 0 .. size - 1 : values[j] \in F
    PROVE  EvaluatedAt(size, values, x) \in F
<1> DEFINE S == 0 .. size - 1
           f == [i \in S |-> field_mul(values[i], L(size, i + 1, x))]
<1>1. \A i \in S : i + 1 \in 1 .. size
  BY DEF Sized
<1>2. IsFiniteSet(S)
  BY FS_Interval DEF Sized
<1>3. \A i \in S : L(size, i + 1, x) \in F
  BY <1>1, LIsBasis
<1>4. Terms(F, f, S)
  BY <1>2, <1>3, MulLaws DEF Terms
<1>5. SumOver(f, S) \in F
  <2> HIDE DEF f, S
  <2>1. QED
    BY <1>4, TermsSplit DEF SumsSplit
<1>6. EvaluatedAt(size, values, x) = SumOver(f, S)
  BY DEF EvaluatedAt, SumOver
<1>7. QED
  BY <1>5, <1>6

(* The values of an identity are those of a multiple of X.                   *)
LEMMA IdentityEvaluates ==
    ASSUME NEW F, Field(F), NEW size, Sized(size), RootsIn(F, size), NEW x \in F, NEW k \in F,
           NEW values,
           \A j \in 0 .. size - 1 : values[j] = field_mul(field_pow(Domains[size].root, j), k)
    PROVE  EvaluatedAt(size, values, x) = field_mul(x, k)
<1> DEFINE S == 0 .. size - 1
           w == Domains[size].root
           f == [i \in S |-> field_mul(values[i], L(size, i + 1, x))]
           g == [i \in Nat |-> field_mul(field_pow(w, i), Basis(w, x, size, i))]
<1>1. \A i \in S : i + 1 \in 1 .. size /\ (i + 1) - 1 = i /\ i \in Nat
  BY DEF Sized
<1>2. IsFiniteSet(S)
  BY FS_Interval DEF Sized
<1>3. w \in F /\ PowerOfTwo(size) /\ size # 1 /\ RootOf(w, size) /\ Ones(size) # Zero
  BY DomainsAreRoots DEF Sized
<1>4. ASSUME NEW i \in S
      PROVE  f[i] = field_mul(k, g[i]) /\ g[i] \in F
  <2> DEFINE p == field_pow(w, i)
             b == Basis(w, x, size, i)
  <2>1. p \in F
    BY <1>1, <1>3, PowerLaws
  <2>2. b \in F
    BY LIsBasis
  <2>3. L(size, i + 1, x) = b
    BY <1>1, LIsBasis
  <2>4. f[i] = field_mul(field_mul(p, k), b) /\ g[i] = field_mul(p, b)
    BY <1>1, <2>3
  <2> HIDE DEF p, b, f, g, w, S
  <2>5. /\ \A y, z \in F : field_mul(y, z) \in F /\ field_mul(y, z) = field_mul(z, y)
    BY MulLaws
  <2>6. field_mul(k, field_mul(p, b)) = field_mul(field_mul(k, p), b)
    <3>1. \A y, z, v \in F : field_mul(y, field_mul(z, v)) = field_mul(field_mul(y, z), v)
      BY MulLaws
    <3>2. QED
      BY <2>1, <2>2, <3>1
  <2>7. field_mul(k, p) = field_mul(p, k)
    BY <2>1, <2>5
  <2>8. QED
    BY <2>1, <2>2, <2>4, <2>5, <2>6, <2>7
<1>5. SumOver(g, S) = x
  BY <1>3, PowersInterpolate
<1>6. SumOver(f, S) = field_mul(k, SumOver(g, S))
  <2>1. Terms(F, g, S)
    BY <1>2, <1>4 DEF Terms
  <2>2. \A i \in S : f[i] = field_mul(k, g[i])
    BY <1>4
  <2> HIDE DEF f, g, S
  <2>3. QED
    BY <2>1, <2>2, SumScaled
<1>7. EvaluatedAt(size, values, x) = SumOver(f, S)
  BY DEF EvaluatedAt, SumOver
<1>8. field_mul(k, x) = field_mul(x, k)
  BY MulLaws
<1>9. QED
  BY <1>5, <1>6, <1>7, <1>8

(* The last factor of a product.                                             *)
LEMMA LastFactor ==
    ASSUME NEW F, Field(F), NEW n \in Nat, n >= 2, NEW f, \A i \in 1 .. n : f[i] \in F
    PROVE  /\ field_product([i \in 1 .. n - 1 |-> f[i]]) \in F
           /\ field_product([i \in 1 .. n |-> f[i]])
              = field_mul(field_product([i \in 1 .. n - 1 |-> f[i]]), f[n])
<1>1. Terms(F, f, 1 .. n)
  BY FS_Interval DEF Terms
<1>2. ProductsSplit(F, f, 1 .. n)
  BY <1>1, TermsSplit
<1>3. /\ 1 .. n = (1 .. n - 1) \cup {n} /\ (1 .. n - 1) \cap {n} = {} /\ n \in 1 .. n
      /\ (1 .. n - 1) \subseteq 1 .. n /\ {n} \subseteq 1 .. n
  OBVIOUS
<1>4. /\ ProductOver(f, 1 .. n) = field_mul(ProductOver(f, 1 .. n - 1), ProductOver(f, {n}))
      /\ ProductOver(f, {n}) = f[n] /\ ProductOver(f, 1 .. n - 1) \in F
  BY <1>2, <1>3 DEF ProductsSplit
<1>5. QED
  BY <1>4 DEF ProductOver

\* What the widget reads: elements, with the values of L_1, L_{n-k} and of the
\* public inputs' factor.
ReadsAre(F, key, c, read, idpolys, first, last, delta) ==
    /\ c.alpha \in F /\ c.beta \in F /\ c.gamma \in F
    /\ \A i \in 1 .. program_width :
          /\ read.w[i] \in F /\ read.sigma[i] \in F /\ read.id[i] \in F
          /\ id_evaluation(i, c, read, idpolys) = read.id[i]
    /\ read.z_perm \in F /\ read.z_perm_omega \in F
    /\ first \in F /\ l_start(key, c) = first
    /\ last \in F /\ l_end(key, c) = last
    /\ delta \in F
    /\ compute_public_input_delta(read.public_inputs, c.beta, c.gamma, key.domain.root) = delta

ProductOfTerms(c, read, s) ==
    field_product([i \in 1 .. program_width |-> PermutationTerm(read.w[i], s[i], c)])

(* The five parts are the identity, whatever is read.                        *)
LEMMA PartsAreTheIdentity ==
    ASSUME NEW F, Field(F), program_width \in Nat, program_width >= 2,
           NEW key, NEW c, NEW read, NEW idpolys, NEW first, NEW last, NEW delta,
           ReadsAre(F, key, c, read, idpolys, first, last, delta)
    PROVE  compute_quotient_evaluation_contribution(key, c, read, idpolys)
           = field_mul(c.alpha, field_add(
                 field_sub(field_mul(ProductOfTerms(c, read, read.id), read.z_perm),
                           field_mul(ProductOfTerms(c, read, read.sigma), read.z_perm_omega)),
                 field_mul(c.alpha, field_add(
                     field_mul(field_sub(read.z_perm_omega, delta), last),
                     field_mul(c.alpha, field_mul(field_sub(read.z_perm, One), first))))))
<1> DEFINE pw == program_width
           f == [i \in 1 .. pw |-> PermutationTerm(read.w[i], read.sigma[i], c)]
           h == [i \in 1 .. pw |-> PermutationTerm(read.w[i], read.id[i], c)]
           a == c.alpha
           b == c.beta
           g == field_add(read.w[pw], c.gamma)
           s == read.sigma[pw]
           S == sigma_factors(c, read)
           I == ProductOfTerms(c, read, read.id)
           p == read.z_perm
           o == read.z_perm_omega
           e == field_sub(o, delta)
<1>1. /\ a \in F /\ b \in F /\ c.gamma \in F /\ p \in F /\ o \in F /\ first \in F /\ last \in F
      /\ delta \in F
      /\ \A i \in 1 .. pw : read.w[i] \in F /\ read.sigma[i] \in F /\ read.id[i] \in F
  BY DEF ReadsAre
<1>2. pw \in 1 .. pw /\ \A i \in 1 .. pw - 1 : i \in 1 .. pw
  OBVIOUS
<1>3. s \in F /\ g \in F /\ read.w[pw] \in F
  BY <1>1, <1>2, AddLaws
<1>4. \A w, t \in F : PermutationTerm(w, t, c) \in F
  <2> SUFFICES ASSUME NEW w \in F, NEW t \in F
               PROVE  PermutationTerm(w, t, c) \in F
    OBVIOUS
  <2>1. field_mul(t, c.beta) \in F
    BY <1>1, MulLaws
  <2>2. field_add(w, field_mul(t, c.beta)) \in F
    BY <2>1, AddLaws
  <2>3. QED
    BY <1>1, <2>2, AddLaws DEF PermutationTerm
<1>5. \A i \in 1 .. pw : f[i] \in F /\ h[i] \in F
  BY <1>1, <1>4
<1>6. /\ S \in F
      /\ ProductOfTerms(c, read, read.sigma) = field_mul(S, f[pw])
  <2>1. /\ field_product([i \in 1 .. pw - 1 |-> f[i]]) \in F
        /\ field_product([i \in 1 .. pw |-> f[i]])
           = field_mul(field_product([i \in 1 .. pw - 1 |-> f[i]]), f[pw])
    <3> HIDE DEF f
    <3>1. QED
      BY <1>5, LastFactor
  <2>2. [i \in 1 .. pw - 1 |-> f[i]]
        = [i \in 1 .. pw - 1 |-> PermutationTerm(read.w[i], read.sigma[i], c)]
    BY <1>2
  <2>3. [i \in 1 .. pw |-> f[i]] = f
    OBVIOUS
  <2>4. S = field_product([i \in 1 .. pw - 1 |-> f[i]])
    BY <2>2 DEF sigma_factors
  <2>5. ProductOfTerms(c, read, read.sigma) = field_product(f)
    BY DEF ProductOfTerms
  <2> HIDE DEF f, S
  <2>6. QED
    BY <2>1, <2>3, <2>4, <2>5
<1>7. f[pw] = field_add(g, field_mul(s, b))
  <2>1. f[pw] = field_add(field_add(read.w[pw], field_mul(s, b)), c.gamma)
    BY <1>2 DEF PermutationTerm
  <2> DEFINE t == field_mul(s, b)
  <2>2. t \in F
    BY <1>1, <1>3, MulLaws
  <2> HIDE DEF t, s
  <2>3. \A x, y, z \in F : field_add(field_add(x, y), z) = field_add(field_add(x, z), y)
    <3>1. \A x, y, z \in F : field_add(x, field_add(y, z)) = field_add(field_add(x, y), z)
      BY AddLaws
    <3>2. \A y, z \in F : field_add(y, z) = field_add(z, y)
      BY AddLaws
    <3>3. QED
      BY <3>1, <3>2
  <2>4. field_add(field_add(read.w[pw], t), c.gamma) = field_add(g, t)
    BY <1>1, <1>3, <2>2, <2>3
  <2>5. QED
    BY <2>1, <2>4 DEF t
<1>8. I \in F
  <2>1. Terms(F, h, 1 .. pw)
    BY <1>5, FS_Interval DEF Terms
  <2>2. ProductOver(h, 1 .. pw) \in F
    <3> HIDE DEF h
    <3>1. QED
      BY <2>1, TermsSplit DEF ProductsSplit
  <2>3. ProductOver(h, 1 .. pw) = field_product(h)
    BY DEF ProductOver
  <2>4. QED
    BY <2>2, <2>3 DEF ProductOfTerms
<1>9. e \in F
  BY <1>1 DEF Field
<1>10. I = field_product([i \in 1 .. pw |->
               PermutationTerm(read.w[i], id_evaluation(i, c, read, idpolys), c)])
  <2>1. \A i \in 1 .. pw : id_evaluation(i, c, read, idpolys) = read.id[i]
    BY DEF ReadsAre
  <2>2. [i \in 1 .. pw |-> PermutationTerm(read.w[i], id_evaluation(i, c, read, idpolys), c)]
        = [i \in 1 .. pw |-> PermutationTerm(read.w[i], read.id[i], c)]
    BY <2>1
  <2>3. QED
    BY <2>2 DEF ProductOfTerms
<1>11. /\ l_start(key, c) = first /\ l_end(key, c) = last
       /\ compute_public_input_delta(read.public_inputs, c.beta, c.gamma, key.domain.root) = delta
  BY DEF ReadsAre
<1> DEFINE a2 == field_mul(a, a)
           a3 == field_mul(a2, a)
<1>12. compute_quotient_evaluation_contribution(key, c, read, idpolys)
       = field_add(field_add(
             field_sub(field_sub(field_mul(field_mul(e, last), a2), field_mul(first, a3)),
                       field_mul(field_mul(field_mul(S, g), o), a)),
             field_mul(field_mul(negated(field_mul(field_mul(S, o), a)), b), s)),
             field_mul(field_add(field_mul(I, a), field_mul(first, a3)), p))
  <2>1. delta_contribution(key, c, read) = field_mul(field_mul(e, last), a2)
    BY <1>11 DEF delta_contribution, alpha_squared
  <2>2. alpha_cubed(c.alpha) = a3
    BY DEF alpha_cubed, alpha_squared
  <2>3. sigma_contribution(c, read) = field_mul(field_mul(field_mul(S, g), o), a)
    BY DEF sigma_contribution
  <2>4. sigma_last_multiplicand(c, read) = field_mul(negated(field_mul(field_mul(S, o), a)), b)
    BY DEF sigma_last_multiplicand
  <2>5. z_multiplicand(key, c, read, idpolys) = field_add(field_mul(I, a), field_mul(first, a3))
    BY <1>10, <1>11, <2>2 DEF z_multiplicand
  <2> HIDE DEF a2, a3, e, S, g, I, a, b
  <2>6. QED
    BY <1>11, <2>1, <2>2, <2>3, <2>4, <2>5 DEF compute_quotient_evaluation_contribution
<1>13. field_add(field_add(
           field_sub(field_sub(field_mul(field_mul(e, last), a2), field_mul(first, a3)),
                     field_mul(field_mul(field_mul(S, g), o), a)),
           field_mul(field_mul(negated(field_mul(field_mul(S, o), a)), b), s)),
           field_mul(field_add(field_mul(I, a), field_mul(first, a3)), p))
       = field_mul(a, field_add(
             field_sub(field_mul(I, p),
                       field_mul(field_mul(S, field_add(g, field_mul(s, b))), o)),
             field_mul(a, field_add(field_mul(e, last),
                 field_mul(a, field_mul(field_sub(p, One), first))))))
  <2>1. /\ a \in F /\ I \in F /\ p \in F /\ S \in F /\ o \in F /\ g \in F /\ s \in F
        /\ b \in F /\ last \in F /\ first \in F /\ e \in F
    BY <1>1, <1>3, <1>6, <1>8, <1>9
  <2>2. PartsIn(F, a, I, p, S, o, g, s, b, last, first, e)
    BY <2>1 DEF PartsIn
  <2> HIDE DEF a, b, e, S, g, I, s, p, o, f, h
  <2>3. QED
    BY ONLY Field(F), <2>2, FivePartsCombine DEF a2, a3
<1>14. ProductOfTerms(c, read, read.sigma) = field_mul(S, field_add(g, field_mul(s, b)))
  BY <1>6, <1>7
<1>15. QED
  <2> HIDE DEF S, g, I, f, h, a2, a3, s, b
  <2>1. QED
    BY <1>12, <1>13, <1>14 DEF I

(* The next power of alpha, as the two functions have it.                    *)
LEMMA AlphasMultiply ==
    ASSUME NEW F, Field(F), NEW a \in F
    PROVE  next_alpha(a) = append_scalar_multiplication_inputs(a, a)
<1> DEFINE a2 == field_mul(a, a)
<1>1. a2 \in F
  BY MulLaws
<1>2. field_mul(a2, a2) = field_mul(field_mul(a2, a), a)
  <2> HIDE DEF a2
  <2>1. field_mul(a2, field_mul(a, a)) = field_mul(field_mul(a2, a), a)
    BY <1>1, MulLaws
  <2>2. QED
    BY <2>1 DEF a2
<1>3. field_mul(a2, a) = field_mul(a, a2)
  <2> HIDE DEF a2
  <2>1. QED
    BY <1>1, MulLaws
<1>4. QED
  BY <1>2, <1>3 DEF next_alpha, append_scalar_multiplication_inputs, alpha_squared

(* What the verifier reads of an honest proof, and makes of it before it     *)
(* puts the parts together.                                                  *)
LEMMA ReadsOfAProof ==
    ASSUME NEW F, CircuitIn(F), NEW circuit, NEW inputs, NEW rows,
           CompiledFacts(F, circuit, inputs, rows),
           NEW beta \in F, NEW gamma \in F,
           \A j \in 0 .. circuit.size - 1 : Denominator(circuit, j, beta, gamma) # Zero,
           NEW claim, claim = [beta |-> beta, gamma |-> gamma, z |-> GrandProduct(circuit, beta, gamma)],
           NEW query \in Queries, query.idpolys \/ ~ circuit.with_tags,
           ~ ContributionPanics(KeyFor(circuit, query), ChallengesFor(claim, query),
                                ReadFor(circuit, claim, inputs, query))
    PROVE  ReadsAre(F, KeyFor(circuit, query), ChallengesFor(claim, query),
                    ReadFor(circuit, claim, inputs, query), query.idpolys,
                    L(circuit.size, 1, query.z),
                    L(circuit.size, circuit.size - query.num_roots, query.z),
                    claim.z[circuit.size])
<1> DEFINE size == circuit.size
           x == query.z
           root == Domains[size].root
           key == KeyFor(circuit, query)
           c == ChallengesFor(claim, query)
           read == ReadFor(circuit, claim, inputs, query)
           k == query.num_roots
<1>1. /\ Field(F) /\ Sized(size) /\ rows \in 0 .. size /\ k \in 0 .. size - 1
      /\ program_width \in Nat /\ program_width >= 2
  BY DEF CircuitIn, SizesFit, CompiledFacts, SizeFacts
<1>2. RootsIn(F, size)
  BY <1>1, CircuitSizesAre DEF CircuitIn, Sized
<1>3. x \in F /\ query.alpha \in F /\ query.wrong_by \in F
  BY DEF CircuitIn
<1>4. DomainIn(F, Domains[size], size) /\ root \in F
  BY <1>1, <1>2, DomainsAreRoots
<1>5. /\ c.alpha = query.alpha /\ c.beta = beta /\ c.gamma = gamma /\ c.z = x
      /\ claim.z = GrandProduct(circuit, beta, gamma)
  BY DEF ChallengesFor
<1>6. key.domain = Domains[size] /\ key.z_pow_n = field_pow(x, size) /\ key.num_roots = k
  BY DEF KeyFor
<1>7. /\ \A i \in 1 .. program_width :
            /\ read.w[i] = EvaluatedAt(size, circuit.w[i - 1], x)
            /\ read.sigma[i] = EvaluatedAt(size, circuit.sigma[i - 1], x)
            /\ read.id[i] = EvaluatedAt(size, circuit.id[i - 1], x)
      /\ read.z_perm = field_add(EvaluatedAt(size, claim.z, x), query.wrong_by)
      /\ read.z_perm_omega = EvaluatedAt(size, claim.z, field_mul(x, root))
      /\ read.public_inputs = inputs
  BY DEF ReadFor
<1>8. /\ StartDenominator(c) # Zero /\ EndDenominator(key, c) # Zero
      /\ ~ DeltaPanics(inputs, beta, gamma, root)
  BY <1>5, <1>6, <1>7 DEF ContributionPanics
<1>9. /\ \A n \in 0 .. size : claim.z[n] \in F
      /\ \A n \in rows .. size : claim.z[n] = compute_public_input_delta(inputs, beta, gamma, root)
  <2>1. /\ \A n \in 0 .. circuit.size : GrandProduct(circuit, beta, gamma)[n] \in F
        /\ ~ DeltaPanics(inputs, beta, gamma, Domains[circuit.size].root) =>
              \A n \in rows .. circuit.size :
                  GrandProduct(circuit, beta, gamma)[n]
                  = compute_public_input_delta(inputs, beta, gamma, Domains[circuit.size].root)
    BY <1>1, GrandProductIsDelta
  <2>2. QED
    BY <1>5, <1>8, <2>1
<1>10. \A i \in 1 .. program_width : i - 1 \in Columns
  BY <1>1 DEF Columns
<1>11. \A column \in Columns, j \in 0 .. size - 1 :
          circuit.w[column][j] \in F /\ circuit.sigma[column][j] \in F /\ circuit.id[column][j] \in F
  BY DEF CompiledFacts, ValueFacts
<1> HIDE DEF size, x, root, key, c, read, k
<1>12. ASSUME NEW y \in F, NEW values, \A j \in 0 .. size - 1 : values[j] \in F
       PROVE  EvaluatedAt(size, values, y) \in F
  BY ONLY <1>1, <1>2, <1>12, EvaluationsIn
<1>13. \A i \in 1 .. program_width : read.w[i] \in F /\ read.sigma[i] \in F /\ read.id[i] \in F
  <2> SUFFICES ASSUME NEW i \in 1 .. program_width
               PROVE  read.w[i] \in F /\ read.sigma[i] \in F /\ read.id[i] \in F
    OBVIOUS
  <2>1. /\ \A j \in 0 .. size - 1 : circuit.w[i - 1][j] \in F
        /\ \A j \in 0 .. size - 1 : circuit.sigma[i - 1][j] \in F
        /\ \A j \in 0 .. size - 1 : circuit.id[i - 1][j] \in F
    BY <1>10, <1>11
  <2>2. QED
    BY <1>3, <1>7, <1>12, <2>1
<1>14. read.z_perm \in F /\ read.z_perm_omega \in F
  <2>1. \A j \in 0 .. size - 1 : claim.z[j] \in F
    <3>1. \A j \in 0 .. size - 1 : j \in 0 .. size
      BY <1>1 DEF Sized
    <3>2. QED
      BY <1>9, <3>1
  <2>2. field_mul(x, root) \in F
    BY <1>1, <1>3, <1>4, MulLaws
  <2>3. EvaluatedAt(size, claim.z, x) \in F /\ EvaluatedAt(size, claim.z, field_mul(x, root)) \in F
    BY <1>3, <1>12, <2>1, <2>2
  <2>4. \A y, z \in F : field_add(y, z) \in F
    BY <1>1, AddLaws
  <2>5. QED
    BY <1>3, <1>7, <2>3, <2>4
<1>15. /\ l_start(key, c) = L(size, 1, x) /\ L(size, 1, x) \in F
       /\ l_end(key, c) = L(size, size - k, x) /\ L(size, size - k, x) \in F
  <2>1. /\ l_start(key, c) = Basis(key.domain.root, c.z, size, 0)
        /\ l_end(key, c) = Basis(key.domain.root, c.z, size, size - 1 - key.num_roots)
    <3>1. /\ DomainIn(F, key.domain, size) /\ c.z \in F /\ key.z_pow_n = field_pow(c.z, size)
          /\ key.num_roots \in 0 .. size - 1
      BY <1>1, <1>3, <1>4, <1>5, <1>6
    <3>2. QED
      <4>1. Field(F) /\ StartDenominator(c) # Zero /\ EndDenominator(key, c) # Zero
        BY <1>1, <1>8
      <4>2. /\ l_start(key, c) = Basis(key.domain.root, c.z, size, 0)
            /\ l_end(key, c) = Basis(key.domain.root, c.z, size, size - 1 - key.num_roots)
            /\ l_start(key, c) \in F /\ l_end(key, c) \in F
        BY ONLY <3>1, <4>1, StartAndEnd
      <4>3. QED
        BY <4>2
  <2>2. key.domain.root = root
    BY <1>6 DEF root
  <2>3. /\ \A i \in 1 .. size : L(size, i, x) = Basis(root, x, size, i - 1)
        /\ \A i \in 1 .. size : L(size, i, x) \in F
    <3>1. /\ \A i \in 1 .. size : L(size, i, x) = Basis(Domains[size].root, x, size, i - 1)
          /\ \A i \in 1 .. size : L(size, i, x) \in F
      BY ONLY <1>1, <1>2, <1>3, LIsBasis
    <3>2. QED
      BY <3>1 DEF root
  <2>4. 1 \in 1 .. size /\ 1 - 1 = 0 /\ size - k \in 1 .. size /\ (size - k) - 1 = size - 1 - k
    BY <1>1 DEF Sized
  <2>5. L(size, 1, x) = Basis(root, x, size, 0) /\ L(size, 1, x) \in F
    BY <2>3, <2>4
  <2>6. L(size, size - k, x) = Basis(root, x, size, size - 1 - k) /\ L(size, size - k, x) \in F
    BY <2>3, <2>4
  <2>7. QED
    BY <1>5, <1>6, <2>1, <2>2, <2>5, <2>6
<1>16. ASSUME NEW i \in 1 .. program_width
       PROVE  id_evaluation(i, c, read, query.idpolys) = read.id[i]
  <2>1. CASE query.idpolys
    BY <2>1 DEF id_evaluation
  <2>2. CASE ~ query.idpolys
    <3> DEFINE column == i - 1
               coset == IF i = 1 THEN One ELSE coset_generator(i - 2)
    <3>1. column \in Columns /\ (column > 0 <=> i # 1) /\ column - 1 = i - 2
          /\ (i # 1 => i - 2 \in 0 .. program_width - 2)
      BY <1>1, <1>10
    <3>2. coset \in F
      <4>1. One \in F
        BY <1>1, MulLaws
      <4>2. CASE i = 1
        BY <4>1, <4>2
      <4>3. CASE i # 1
        BY <3>1, <4>3 DEF CircuitIn
      <4>4. QED
        BY <4>2, <4>3
    <3>3. \A j \in 0 .. size - 1 :
             circuit.id[column][j] = field_mul(field_pow(root, j),
                                         IF column > 0 THEN coset_generator(column - 1) ELSE One)
      BY <2>2, <3>1 DEF CompiledFacts, IdentityFacts, size, root
    <3>4. (IF column > 0 THEN coset_generator(column - 1) ELSE One) = coset
      BY <3>1
    <3> HIDE DEF coset
    <3>5. \A j \in 0 .. size - 1 :
             circuit.id[column][j] = field_mul(field_pow(Domains[size].root, j), coset)
      BY <3>3, <3>4 DEF root
    <3>6. EvaluatedAt(size, circuit.id[column], x) = field_mul(x, coset)
      <4> DEFINE values == circuit.id[column]
      <4>1. \A j \in 0 .. size - 1 : values[j] = field_mul(field_pow(Domains[size].root, j), coset)
        BY <3>5
      <4> HIDE DEF values
      <4>2. EvaluatedAt(size, values, x) = field_mul(x, coset)
        BY ONLY <1>1, <1>2, <1>3, <3>2, <4>1, IdentityEvaluates
      <4>3. QED
        BY <4>2 DEF values
    <3>7. id_evaluation(i, c, read, query.idpolys) = field_mul(x, coset)
      BY <1>5, <2>2 DEF id_evaluation, coset
    <3>8. QED
      BY <1>7, <3>6, <3>7
  <2>3. QED
    BY <2>1, <2>2
<1>17. /\ claim.z[size] \in F
       /\ compute_public_input_delta(read.public_inputs, c.beta, c.gamma, key.domain.root)
          = claim.z[size]
  <2>1. size \in 0 .. size /\ size \in rows .. size
    BY <1>1 DEF Sized
  <2>2. QED
    BY <1>5, <1>6, <1>7, <1>9, <2>1 DEF root
<1>18. c.alpha \in F /\ c.beta \in F /\ c.gamma \in F
  BY <1>3, <1>5
<1>19. QED
  <2>1. ReadsAre(F, key, c, read, query.idpolys, L(size, 1, x), L(size, size - k, x), claim.z[size])
    BY <1>13, <1>14, <1>15, <1>16, <1>17, <1>18 DEF ReadsAre
  <2>2. QED
    BY <2>1 DEF size, x, key, c, read, k

(* Whatever is claimed of a proof's grand product at the point, the five     *)
(* parts that the verifier's widget puts together are the identity that the  *)
(* comment of the source gives, with L_1 and L_{n-k} as they are defined.    *)
THEOREM TheVerifierChecksTheIdentity == CircuitFits => (Spec => []VerifierComputesTheIdentity)
<1>1. ASSUME NEW F, CircuitIn(F), ProofInv(F)
      PROVE  VerifierComputesTheIdentity
  <2> SUFFICES ASSUME phase = "verified"
               PROVE  VerifierComputesTheIdentity
    BY DEF VerifierComputesTheIdentity
  <2>1. /\ CompiledFacts(F, compiled, get_public_inputs, Rows) /\ ProofFacts(F, compiled, proof)
        /\ VerdictFacts(compiled, proof, get_public_inputs, verdict)
    BY <1>1 DEF ProofInv
  <2>2. PICK beta \in F, gamma \in F :
           /\ \A j \in 0 .. compiled.size - 1 : Denominator(compiled, j, beta, gamma) # Zero
           /\ proof = [beta |-> beta, gamma |-> gamma, z |-> GrandProduct(compiled, beta, gamma)]
    BY <2>1 DEF ProofFacts
  <2>3. PICK query \in Queries :
           /\ query.idpolys \/ ~ compiled.with_tags
           /\ ~ ContributionPanics(KeyFor(compiled, query), ChallengesFor(proof, query),
                                   ReadFor(compiled, proof, get_public_inputs, query))
           /\ verdict = VerdictOf(compiled, proof, get_public_inputs, query)
    BY <2>1 DEF VerdictFacts
  <2> DEFINE key == KeyFor(compiled, query)
             c == ChallengesFor(proof, query)
             read == ReadFor(compiled, proof, get_public_inputs, query)
             first == L(compiled.size, 1, query.z)
             last == L(compiled.size, compiled.size - query.num_roots, query.z)
             delta == proof.z[compiled.size]
  <2>4. ReadsAre(F, key, c, read, query.idpolys, first, last, delta)
    BY <1>1, <2>1, <2>2, <2>3, ReadsOfAProof
  <2>5. /\ verdict.query = query /\ verdict.read = read /\ verdict.c = c
        /\ verdict.value = compute_quotient_evaluation_contribution(key, c, read, query.idpolys)
        /\ verdict.next_alpha = next_alpha(query.alpha)
    BY <2>3 DEF VerdictOf
  <2>6. c.z = query.z /\ c.alpha = query.alpha
    BY DEF ChallengesFor
  <2>7. Field(F) /\ program_width \in Nat /\ program_width >= 2 /\ query.alpha \in F
    BY <1>1 DEF CircuitIn, SizesFit
  <2>8. compute_quotient_evaluation_contribution(key, c, read, query.idpolys)
        = field_mul(c.alpha, field_add(
              field_sub(field_mul(ProductOfTerms(c, read, read.id), read.z_perm),
                        field_mul(ProductOfTerms(c, read, read.sigma), read.z_perm_omega)),
              field_mul(c.alpha, field_add(
                  field_mul(field_sub(read.z_perm_omega, delta), last),
                  field_mul(c.alpha, field_mul(field_sub(read.z_perm, One), first))))))
    <3> HIDE DEF key, c, read, first, last, delta
    <3>1. QED
      BY ONLY <2>4, <2>7, PartsAreTheIdentity
  <2>9. next_alpha(query.alpha) = append_scalar_multiplication_inputs(query.alpha, query.alpha)
    BY <2>7, AlphasMultiply
  <2> HIDE DEF key, c, read
  <2>10. QED
    BY <2>5, <2>6, <2>8, <2>9 DEF VerifierComputesTheIdentity, ProductOfTerms
<1>2. ASSUME NEW F, CircuitIn(F)
      PROVE  Spec => []VerifierComputesTheIdentity
  <2>1. Init => ProofInv(F)
    BY <1>2, InitProofInv
  <2>2. ProofInv(F) /\ [Next]_vars => ProofInv(F)'
    BY <1>2, NextProofInv
  <2>3. ProofInv(F) => VerifierComputesTheIdentity
    BY <1>1, <1>2
  <2>4. QED
    BY <2>1, <2>2, <2>3, PTL DEF Spec
<1>3. QED
  BY <1>2 DEF CircuitFits
=============================================================================

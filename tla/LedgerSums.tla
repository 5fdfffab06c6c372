----------------------------- MODULE LedgerSums -----------------------------
(***************************************************************************)
(* Lemmas about the sums of LedgerCalls.  Total is a fold: a function on   *)
(* the subsets of a finite set that is defined by recursion.  That there   *)
(* is such a function, and that the order in which the fold chooses the    *)
(* elements is of no importance, is shown by induction on the subsets; the *)
(* inductive statement is a set of them, so that no lemma needs an         *)
(* operator as its parameter.                                              *)
(***************************************************************************)
EXTENDS LedgerCalls, FiniteSetTheorems, WellFoundedInduction, TLAPS

(* D holds every subset of S if it holds those whose own subsets it holds. *)
LEMMA SubsetInduction ==
    ASSUME NEW S, IsFiniteSet(S), NEW D,
           \A T \in SUBSET S : (\A U \in SUBSET T : U # T => U \in D) => T \in D
    PROVE  \A T \in SUBSET S : T \in D
<1> SUFFICES ASSUME (SUBSET S) \ D # {}
             PROVE  FALSE
    OBVIOUS
<1> DEFINE R == StrictSubsetOrdering(S)
           B == (SUBSET S) \ D
<1>1. IsWellFoundedOn(R, SUBSET S)
  <2>1. IsWellFoundedOn(StrictSubsetOrdering(S), FiniteSubsetsOf(S))
      BY FS_StrictSubsetOrderingWellFounded
  <2>2. FiniteSubsetsOf(S) = SUBSET S
      BY FS_FiniteSubsetsOfFinite
  <2> QED
      BY <2>1, <2>2
<1>2. B \subseteq SUBSET S /\ B # {}
    OBVIOUS
<1> HIDE DEF R, B
<1>3. PICK T \in B : \A U \in B : ~(<<U, T>> \in R)
    BY <1>1, <1>2, WFMin
<1>4. \A U \in SUBSET T : U # T => U \in D
    BY <1>3 DEF B, R, StrictSubsetOrdering
<1> QED
    BY <1>3, <1>4 DEF B

(* The element the fold takes next, what it then does with the sum g of    *)
(* the others, and that g is the function the fold is defined to be.       *)
Some(s) == CHOOSE x \in s : TRUE
Rule(f, g, s) == IF s = {} THEN 0 ELSE f[Some(s)] + g[s \ {Some(s)}]
Solves(f, g, S) == g = [s \in SUBSET S |-> Rule(f, g, s)]

(* The definition of the fold, in these terms.                             *)
LEMMA TotalDef ==
    ASSUME NEW f, NEW S
    PROVE  Total(f, S) = (CHOOSE g : Solves(f, g, S))[S]
BY DEF Total, MapThenSumSet, MapThenFoldSet, Solves, Rule, Some

(* Two solutions agree wherever both are defined.                          *)
LEMMA SolutionsAgree ==
    ASSUME NEW f, NEW S, IsFiniteSet(S), NEW A, NEW B, NEW g, NEW h,
           Solves(f, g, A), Solves(f, h, B), S \subseteq A, S \subseteq B
    PROVE  g[S] = h[S]
<1> DEFINE D == {T \in SUBSET S : g[T] = h[T]}
<1>1. ASSUME NEW T \in SUBSET S, \A U \in SUBSET T : U # T => U \in D
      PROVE  T \in D
  <2>1. g[T] = Rule(f, g, T) /\ h[T] = Rule(f, h, T)
      BY DEF Solves
  <2>2. CASE T = {}
      BY <2>1, <2>2 DEF Rule
  <2>3. CASE T # {}
    <3>1. Some(T) \in T
        BY <2>3 DEF Some
    <3>2. T \ {Some(T)} \in D
        BY <1>1, <3>1
    <3> QED
        BY <2>1, <2>3, <3>2 DEF Rule
  <2> QED
      BY <2>2, <2>3
<1> HIDE DEF D
<1>2. S \in D
    BY <1>1, SubsetInduction
<1> QED
    BY <1>2 DEF D

(* There is such a function: put together from those of smaller sets.      *)
LEMMA SolutionExists ==
    ASSUME NEW f, NEW S, IsFiniteSet(S)
    PROVE  \E g : Solves(f, g, S)
<1> DEFINE D == {T \in SUBSET S : \E g : Solves(f, g, T)}
<1>1. ASSUME NEW T \in SUBSET S, \A U \in SUBSET T : U # T => U \in D
      PROVE  T \in D
  <2> DEFINE sol(U) == CHOOSE g : Solves(f, g, U)
             g == [U \in SUBSET T |-> Rule(f, sol(U \ {Some(U)}), U)]
  <2>1. \A U \in SUBSET T : U # T => Solves(f, sol(U), U)
      BY <1>1
  <2>2. ASSUME NEW U \in SUBSET T, U # {}
        PROVE  g[U \ {Some(U)}] = sol(U \ {Some(U)})[U \ {Some(U)}]
    <3> DEFINE V == U \ {Some(U)}
    <3>1. V \in SUBSET T /\ V # T /\ V \in SUBSET S
        BY <2>2 DEF Some
    <3>2. Solves(f, sol(V), V)
        BY <2>1, <3>1
    <3>3. sol(V)[V] = Rule(f, sol(V), V)
        BY <3>2 DEF Solves
    <3>4. g[V] = Rule(f, sol(V \ {Some(V)}), V)
        BY <3>1
    <3>5. CASE V = {}
        BY <3>3, <3>4, <3>5 DEF Rule
    <3>6. CASE V # {}
      <4> DEFINE W == V \ {Some(V)}
      <4>1. W \in SUBSET V /\ W # T /\ W \in SUBSET T /\ IsFiniteSet(W)
          BY <3>1, FS_Subset, <3>6 DEF Some
      <4>2. Solves(f, sol(W), W)
          BY <2>1, <4>1
      <4> HIDE DEF W, V, sol, g
      <4>3. sol(W)[W] = sol(V)[W]
          BY <3>2, <4>1, <4>2, SolutionsAgree
      <4>4. g[V] = sol(V)[V]
          BY <3>3, <3>4, <3>6, <4>3 DEF Rule, W
      <4> QED
          BY <4>4 DEF V
    <3> QED
        BY <3>5, <3>6
  <2>3. Solves(f, g, T)
    <3>1. ASSUME NEW U \in SUBSET T
          PROVE  g[U] = Rule(f, g, U)
      <4>1. g[U] = Rule(f, sol(U \ {Some(U)}), U)
          OBVIOUS
      <4> HIDE DEF g, sol
      <4> QED
          BY <2>2, <4>1 DEF Rule
    <3> QED
        BY <3>1 DEF Solves
  <2> QED
      BY <2>3
<1> HIDE DEF D
<1>2. S \in D
    BY <1>1, SubsetInduction
<1> QED
    BY <1>2 DEF D

(* The sum follows the recursion of the fold.                              *)
LEMMA TotalRule ==
    ASSUME NEW f, NEW S, IsFiniteSet(S)
    PROVE  /\ S = {} => Total(f, S) = 0
           /\ S # {} => Total(f, S) = f[Some(S)] + Total(f, S \ {Some(S)})
<1> DEFINE sol(U) == CHOOSE g : Solves(f, g, U)
           V == S \ {Some(S)}
<1>1. Solves(f, sol(S), S) /\ Solves(f, sol(V), V)
    BY SolutionExists, FS_RemoveElement
<1>2. Total(f, S) = sol(S)[S] /\ Total(f, V) = sol(V)[V]
    BY TotalDef
<1> HIDE DEF sol
<1>3. sol(S)[V] = sol(V)[V]
    BY <1>1, SolutionsAgree, FS_RemoveElement
<1>4. sol(S)[S] = Rule(f, sol(S), S)
    BY <1>1 DEF Solves
<1> QED
    BY <1>2, <1>3, <1>4 DEF Rule

(* A sum of integers is an integer.                                        *)
LEMMA TotalType ==
    ASSUME NEW f, NEW S, IsFiniteSet(S), \A x \in S : f[x] \in Int
    PROVE  Total(f, S) \in Int
<1> DEFINE D == {T \in SUBSET S : Total(f, T) \in Int}
<1>1. ASSUME NEW T \in SUBSET S, \A U \in SUBSET T : U # T => U \in D
      PROVE  T \in D
  <2>1. IsFiniteSet(T)
      BY FS_Subset
  <2>2. T # {} => Some(T) \in T
      BY DEF Some
  <2>3. CASE T = {}
      BY <2>1, <2>3, TotalRule
  <2>4. CASE T # {}
    <3>1. T \ {Some(T)} \in D
        BY <1>1, <2>2, <2>4
    <3> QED
        BY <2>1, <2>2, <2>4, <3>1, TotalRule
  <2> QED
      BY <2>3, <2>4
<1> HIDE DEF D
<1>2. S \in D
    BY <1>1, SubsetInduction
<1> QED
    BY <1>2 DEF D

(* Any element can be taken out first.                                     *)
LEMMA TotalRemove ==
    ASSUME NEW f, NEW S, IsFiniteSet(S), \A x \in S : f[x] \in Int, NEW x \in S
    PROVE  Total(f, S) = f[x] + Total(f, S \ {x})
<1> DEFINE D == {T \in SUBSET S : \A y \in T : Total(f, T) = f[y] + Total(f, T \ {y})}
<1>1. ASSUME NEW T \in SUBSET S, \A U \in SUBSET T : U # T => U \in D, NEW y \in T
      PROVE  Total(f, T) = f[y] + Total(f, T \ {y})
  <2> DEFINE z == Some(T)
  <2>1. IsFiniteSet(T) /\ z \in T
      BY FS_Subset DEF Some
  <2>2. Total(f, T) = f[z] + Total(f, T \ {z})
      BY <2>1, TotalRule
  <2> HIDE DEF z
  <2>3. CASE z = y
      BY <2>2, <2>3
  <2>4. CASE z # y
    <3>1. Total(f, T \ {z}) = f[y] + Total(f, (T \ {z}) \ {y})
        BY <1>1, <2>1, <2>4
    <3>2. Total(f, T \ {y}) = f[z] + Total(f, (T \ {y}) \ {z})
        BY <1>1, <2>1, <2>4
    <3>3. (T \ {z}) \ {y} = (T \ {y}) \ {z}
        OBVIOUS
    <3>4. Total(f, (T \ {z}) \ {y}) \in Int
        BY <2>1, FS_Subset, TotalType
    <3>5. f[z] \in Int /\ f[y] \in Int
        BY <1>1, <2>1
    <3>6. Total(f, T \ {y}) = f[z] + Total(f, (T \ {z}) \ {y})
        BY <3>2, <3>3
    <3>7. Total(f, T) = f[z] + (f[y] + Total(f, (T \ {z}) \ {y}))
        BY <2>2, <3>1
    <3> QED
        BY <3>4, <3>5, <3>6, <3>7
  <2> QED
      BY <2>3, <2>4
<1> HIDE DEF D
<1>2. S \in D
    BY <1>1, SubsetInduction DEF D
<1> QED
    BY <1>2 DEF D

(* The sum depends on the values at the elements only.                     *)
LEMMA TotalSame ==
    ASSUME NEW f, NEW g, NEW S, IsFiniteSet(S), \A x \in S : f[x] = g[x]
    PROVE  Total(f, S) = Total(g, S)
<1> DEFINE D == {T \in SUBSET S : Total(f, T) = Total(g, T)}
<1>1. ASSUME NEW T \in SUBSET S, \A U \in SUBSET T : U # T => U \in D
      PROVE  T \in D
  <2>1. IsFiniteSet(T)
      BY FS_Subset
  <2>2. T # {} => Some(T) \in T
      BY DEF Some
  <2>3. CASE T = {}
      BY <2>1, <2>3, TotalRule
  <2>4. CASE T # {}
    <3>1. T \ {Some(T)} \in D
        BY <1>1, <2>2, <2>4
    <3> QED
        BY <2>1, <2>2, <2>4, <3>1, TotalRule
  <2> QED
      BY <2>3, <2>4
<1> HIDE DEF D
<1>2. S \in D
    BY <1>1, SubsetInduction
<1> QED
    BY <1>2 DEF D

(* A larger value somewhere is a larger sum.                               *)
LEMMA TotalChange ==
    ASSUME NEW f, NEW g, NEW S, IsFiniteSet(S), NEW x \in S, NEW d \in Int,
           \A y \in S : f[y] \in Int,
           \A y \in S : g[y] = IF y = x THEN f[y] + d ELSE f[y]
    PROVE  Total(g, S) = Total(f, S) + d
<1>1. Total(f, S) = f[x] + Total(f, S \ {x}) /\ Total(g, S) = g[x] + Total(g, S \ {x})
    BY TotalRemove
<1>2. IsFiniteSet(S \ {x})
    BY FS_RemoveElement
<1>3. Total(g, S \ {x}) = Total(f, S \ {x})
    BY <1>2, TotalSame
<1>4. Total(f, S \ {x}) \in Int
    BY <1>2, TotalType
<1> QED
    BY <1>1, <1>3, <1>4

-----------------------------------------------------------------------------
(* What has been entered.                                                  *)

LEMMA EffectType ==
    ASSUME NEW c \in Calls, NEW a \in Accounts
    PROVE  Effect(c, a) \in Int
BY CallsAssumption DEF CallType, FirstEntry, SecondEntry, Effect

LEMMA NothingEntered ==
    ASSUME NEW args, NEW a
    PROVE  Entered(args, {}, a) = 0
BY FS_EmptySet, TotalRule DEF Entered

(* The sums depend on the posted calls only.                               *)
LEMMA SameEntered ==
    ASSUME NEW args, NEW new, NEW S, \A r \in S : new[r] = args[r], NEW a
    PROVE  Entered(new, S, a) = Entered(args, S, a)
<1>1. [r \in S |-> Effect(new[r], a)] = [r \in S |-> Effect(args[r], a)]
    OBVIOUS
<1> QED
    BY <1>1 DEF Entered

LEMMA EnteredType ==
    ASSUME NEW args, NEW S, IsFiniteSet(S), \A r \in S : args[r] \in Calls,
           NEW a \in Accounts
    PROVE  Entered(args, S, a) \in Int
<1> DEFINE f == [r \in S |-> Effect(args[r], a)]
<1>1. \A r \in S : Effect(args[r], a) \in Int
    BY EffectType
<1>2. \A r \in S : f[r] \in Int
    BY <1>1
<1> HIDE DEF f
<1>3. Total(f, S) \in Int
    BY <1>2, TotalType
<1> QED
    BY <1>3 DEF Entered, f

(* A posting adds its own entries.                                         *)
LEMMA OneMoreEntered ==
    ASSUME NEW args, NEW S, IsFiniteSet(S), NEW r, r \notin S,
           \A p \in S \cup {r} : args[p] \in Calls, NEW a \in Accounts
    PROVE  /\ Entered(args, S \cup {r}, a) = Entered(args, S, a) + Effect(args[r], a)
           /\ Entered(args, S, a) \in Int
           /\ Effect(args[r], a) \in Int
<1> DEFINE old == [p \in S |-> Effect(args[p], a)]
           new == [p \in S \cup {r} |-> Effect(args[p], a)]
<1>1. \A p \in S \cup {r} : Effect(args[p], a) \in Int
    BY EffectType
<1>2. /\ \A p \in S : old[p] \in Int /\ new[p] = old[p]
      /\ \A p \in S \cup {r} : new[p] \in Int
      /\ new[r] = Effect(args[r], a)
    BY <1>1
<1>3. /\ Entered(args, S, a) = Total(old, S)
      /\ Entered(args, S \cup {r}, a) = Total(new, S \cup {r})
    BY DEF Entered
<1> HIDE DEF old, new
<1>4. IsFiniteSet(S \cup {r}) /\ (S \cup {r}) \ {r} = S
    BY FS_AddElement
<1>5. Total(new, S \cup {r}) = new[r] + Total(new, S)
  <2>1. Total(new, S \cup {r}) = new[r] + Total(new, (S \cup {r}) \ {r})
      BY <1>2, <1>4, TotalRemove
  <2> QED
      BY <2>1, <1>4
<1>6. Total(new, S) = Total(old, S)
    BY <1>2, TotalSame
<1>7. Total(old, S) \in Int /\ new[r] \in Int
    BY <1>2, TotalType
<1> QED
    BY <1>1, <1>2, <1>3, <1>5, <1>6, <1>7

=============================================================================

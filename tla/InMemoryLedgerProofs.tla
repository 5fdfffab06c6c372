------------------------ MODULE InMemoryLedgerProofs ------------------------
(***************************************************************************)
(* Proofs about the in-memory ledger, for any number of calls and accounts *)
(* and any width of the balances.  A call is one step, so nothing is known *)
(* of half-made postings here; the invariant ties the map of remembered    *)
(* results to the calls they were first returned to.                       *)
(***************************************************************************)
EXTENDS InMemoryLedger, LedgerSums, FiniteSetTheorems, TLAPS

(* Wrapping around leaves an int64, and leaves an int64 as it is.          *)
LEMMA WrapIsInt64 ==
    ASSUME NEW n \in Int
    PROVE  Wrap(n) \in Int64
<1> DEFINE width == 2 * (MaxInt64 + 1)
<1>1. width \in Nat \ {0}
    BY WidthAssumption
<1>2. (n + MaxInt64 + 1) % width \in 0 .. (width - 1)
    BY <1>1, WidthAssumption
<1> QED
    BY <1>2, WidthAssumption DEF Wrap, Int64

(* Which accounts a call names, and what it adds to the first.             *)
LEMMA CallShape ==
    ASSUME NEW c \in Calls
    PROVE  /\ c.first \in Accounts /\ c.second \in Accounts
           /\ c.amount \in Int
           /\ FirstEntry(c) \in Int /\ SecondEntry(c) \in Int
           /\ Key(c) \in Kinds \X ClientTxIDs
           /\ Known(c) \subseteq Accounts
           /\ c.second \in Known(c) \cup {Suspense}
BY CallsAssumption DEF CallType, Accounts, FirstEntry, SecondEntry, Key, Known

LEMMA InitIInv == Init => IInv
<1> SUFFICES ASSUME Init
             PROVE  IInv
    OBVIOUS
<1>1. 0 \in Int64
    BY WidthAssumption DEF Int64
<1>2. Opening \in [Accounts -> Int64]
    BY OpeningAssumption, OpeningWidthAssumption
<1>3. TypeOK
    BY <1>1, <1>2, OpeningAssumption
    DEF Init, TypeOK, Reply, Replies, NoResult, Results, Statuses
<1>4. Posted = {} /\ DOMAIN results = {}
    BY DEF Init, Posted, Reply
<1> QED
    BY <1>3, <1>4 DEF Init, Reply, IInv, PostedRemembered, ResultsAnswered, DuplicateRepeatsAnswer

LEMMA EnsureAccountPreservesIInv ==
    ASSUME IInv, NEW a \in Accounts, EnsureAccount(a)
    PROVE  IInv'
BY DEF EnsureAccount, IInv, TypeOK, Posted, PostedRemembered, ResultsAnswered,
       DuplicateRepeatsAnswer

(* A refusal is neither posted nor a duplicate.                            *)
LEMMA RefusePreservesIInv ==
    ASSUME IInv, NEW r \in Requests, NEW c \in Calls, reply[r].status = "none",
           call' = [call EXCEPT ![r] = c], Refuse(r, c)
    PROVE  IInv'
<1> USE DEF Refuse, Reply, IInv, TypeOK
<1>1. NoResult \in Results
    BY WidthAssumption DEF NoResult, Results, Int64
<1>2. TypeOK'
    BY <1>1 DEF Replies, Statuses
<1>3. Posted' = Posted /\ r \notin Posted
    BY DEF Posted
<1>4. PostedRemembered' /\ ResultsAnswered'
    BY <1>3 DEF Posted, PostedRemembered, ResultsAnswered
<1>5. DuplicateRepeatsAnswer'
    BY <1>3 DEF Posted, DuplicateRepeatsAnswer
<1> QED
    BY <1>2, <1>4, <1>5

(* A duplicate is answered what the posted call was.                       *)
LEMMA DuplicatePreservesIInv ==
    ASSUME IInv, NEW r \in Requests, NEW c \in Calls, reply[r].status = "none",
           call' = [call EXCEPT ![r] = c], Duplicate(r, c)
    PROVE  IInv'
<1> USE DEF Duplicate, Reply, IInv, TypeOK
<1>1. TypeOK'
    BY DEF Replies, Statuses
<1>2. Posted' = Posted /\ r \notin Posted
    BY DEF Posted
<1>3. PostedRemembered' /\ ResultsAnswered'
    BY <1>2 DEF Posted, PostedRemembered, ResultsAnswered
<1>4. PICK p \in Posted : Key(call[p]) = Key(c) /\ reply[p].result = results[Key(c)]
    BY DEF ResultsAnswered
<1>5. DuplicateRepeatsAnswer'
    BY <1>2, <1>4 DEF Posted, DuplicateRepeatsAnswer
<1> QED
    BY <1>1, <1>3, <1>5

(* A posting remembers its result and returns it.                          *)
LEMMA PostPreservesIInv ==
    ASSUME IInv, NEW r \in Requests, NEW c \in Calls, reply[r].status = "none",
           call' = [call EXCEPT ![r] = c], Post(r, c)
    PROVE  IInv'
<1>1. balance[c.first] + FirstEntry(c) \in Int /\ balance[c.second] + SecondEntry(c) \in Int
    BY CallShape, WidthAssumption DEF IInv, TypeOK, Int64
<1>2. NewFirst(c) \in Int64 /\ NewSecond(c) \in Int64 /\ 0 \in Int64
    BY <1>1, WrapIsInt64, WidthAssumption DEF NewFirst, NewSecond, Int64
<1>3. Result(c) \in Results
    BY <1>2 DEF Result, Results
<1>4. /\ r \notin Posted
      /\ Posted' = Posted \cup {r}
      /\ reply'[r] = Reply("ok", Result(c))
      /\ \A q \in Requests \ {r} : reply'[q] = reply[q] /\ call'[q] = call[q]
      /\ call'[r] = c
    BY DEF Post, Posted, Reply, IInv, TypeOK
<1>5. /\ Key(c) \notin DOMAIN results
      /\ DOMAIN results' = DOMAIN results \cup {Key(c)}
      /\ results'[Key(c)] = Result(c)
      /\ \A k \in DOMAIN results : results'[k] = results[k]
    BY DEF Post
<1>6. TypeOK'
  <2>1. accounts' \in SUBSET Accounts
      BY CallShape DEF Post, IInv, TypeOK
  <2>2. balance' \in [Accounts -> Int64]
      BY <1>2 DEF Post, IInv, TypeOK
  <2>3. reply' \in [Requests -> Replies]
      BY <1>3 DEF Post, Reply, Replies, Statuses, IInv, TypeOK
  <2> QED
      BY <2>1, <2>2, <2>3, <1>3, <1>5, CallShape DEF IInv, TypeOK
<1>7. PostedRemembered'
    BY <1>4, <1>5 DEF IInv, Posted, PostedRemembered
<1>8. ResultsAnswered'
  <2> SUFFICES ASSUME NEW k \in DOMAIN results'
               PROVE  \E p \in Posted' : Key(call'[p]) = k /\ reply'[p].result = results'[k]
      BY DEF ResultsAnswered
  <2>1. CASE k = Key(c)
      BY <2>1, <1>4, <1>5 DEF Reply
  <2>2. CASE k \in DOMAIN results
    <3>1. PICK p \in Posted : Key(call[p]) = k /\ reply[p].result = results[k]
        BY <2>2 DEF IInv, ResultsAnswered
    <3> QED
        BY <3>1, <2>2, <1>4, <1>5 DEF Posted
  <2> QED
      BY <2>1, <2>2, <1>5
<1>9. DuplicateRepeatsAnswer'
  <2> SUFFICES ASSUME NEW q \in Requests, reply'[q].status = "duplicate"
               PROVE  \E p \in Posted' : /\ Key(call'[p]) = Key(call'[q])
                                         /\ reply'[p].result = reply'[q].result
      BY DEF DuplicateRepeatsAnswer
  <2>1. q # r /\ reply[q].status = "duplicate"
      BY <1>4 DEF Reply
  <2>2. PICK p \in Posted : Key(call[p]) = Key(call[q]) /\ reply[p].result = reply[q].result
      BY <2>1 DEF IInv, DuplicateRepeatsAnswer
  <2> QED
      BY <2>1, <2>2, <1>4 DEF Posted
<1> QED
    BY <1>6, <1>7, <1>8, <1>9 DEF IInv

LEMMA StutterPreservesIInv == IInv /\ UNCHANGED vars => IInv'
BY DEF vars, IInv, TypeOK, Posted, PostedRemembered, ResultsAnswered, DuplicateRepeatsAnswer

(* Every step preserves the invariant.                                     *)
LEMMA NextPreservesIInv == IInv /\ [Next]_vars => IInv'
BY EnsureAccountPreservesIInv, RefusePreservesIInv, DuplicatePreservesIInv, PostPreservesIInv,
   StutterPreservesIInv
DEF Next, Serve, AllServed

(* The strengthened invariant holds in every reachable state.              *)
THEOREM Invariance == Spec => []IInv
BY InitIInv, NextPreservesIInv, PTL DEF Spec

(* Every variable keeps its shape: the balances stay int64.                *)
THEOREM TypeCorrect == Spec => []TypeOK
<1>1. IInv => TypeOK
    BY DEF IInv
<1> QED
    BY <1>1, Invariance, PTL

(* A retry is answered what the call it repeats was answered.              *)
THEOREM RetriesRepeatAnswer == Spec => []DuplicateRepeatsAnswer
<1>1. IInv => DuplicateRepeatsAnswer
    BY DEF IInv
<1> QED
    BY <1>1, Invariance, PTL

-----------------------------------------------------------------------------
(* Balances below zero.                                                    *)

(* A sum that is not negative wraps to less than zero only by size.        *)
LEMMA WrapOfNatural ==
    ASSUME NEW n \in Nat, Wrap(n) < 0
    PROVE  n > MaxInt64
<1> SUFFICES ASSUME n <= MaxInt64
             PROVE  Wrap(n) = n
    BY WidthAssumption
<1> DEFINE width == 2 * (MaxInt64 + 1)
<1>1. width \in Nat \ {0} /\ n + MaxInt64 + 1 \in 0 .. (width - 1)
    BY WidthAssumption
<1> HIDE DEF width
<1>2. (n + MaxInt64 + 1) % width = n + MaxInt64 + 1
    BY <1>1
<1> QED
    BY <1>2, WidthAssumption DEF Wrap, width

(* A posting leaves a wallet with a sum that is not negative: a debit is   *)
(* covered, and everything else is a credit.                               *)
LEMMA PostFallsByOutgrowing ==
    ASSUME IInv, NEW r \in Requests, NEW c \in Calls, reply[r].status = "none",
           call' = [call EXCEPT ![r] = c], Post(r, c)
    PROVE  FallsByOutgrowing
<1> SUFFICES ASSUME NEW w \in Wallets, balance[w] >= 0, balance'[w] < 0
             PROVE  \E p \in Posted' \ Posted : Outgrows(call'[p], w)
    BY DEF FallsByOutgrowing
<1>1. r \in Posted' \ Posted /\ call'[r] = c
    BY DEF Post, Posted, Reply, IInv, TypeOK
<1>2. balance[w] \in Nat /\ MaxInt64 \in Nat /\ w # Suspense /\ w \in Accounts
    BY WidthAssumption, SuspenseAssumption DEF IInv, TypeOK, Int64, Accounts
<1>3. CASE w = c.second
  <2>1. c.kind = "p2p"
      BY <1>2, <1>3, CallsAssumption
  <2>2. balance[w] + SecondEntry(c) \in Nat
      BY <2>1, <1>2, CallShape DEF Post, SecondEntry, FirstEntry, Debits
  <2>3. balance'[w] = Wrap(balance[w] + SecondEntry(c))
      BY <1>3, CallShape DEF Post, NewSecond, IInv, TypeOK
  <2> QED
      BY <2>2, <2>3, <1>1, <1>3, WrapOfNatural DEF Outgrows
<1>4. CASE w = c.first /\ w # c.second
  <2>1. balance[w] + FirstEntry(c) \in Nat
      BY <1>2, <1>4, CallShape DEF Post, Covers, FirstEntry, Debits
  <2>2. balance'[w] = Wrap(balance[w] + FirstEntry(c))
      BY <1>4, CallShape DEF Post, NewFirst, IInv, TypeOK
  <2> QED
      BY <2>1, <2>2, <1>1, <1>4, WrapOfNatural DEF Outgrows
<1>5. CASE w # c.first /\ w # c.second
  <2>1. balance'[w] = balance[w]
      BY <1>2, <1>5 DEF Post, IInv, TypeOK
  <2> QED
      BY <2>1, <1>2
<1> QED
    BY <1>3, <1>4, <1>5

(* No wallet ever falls below zero but by growing past the largest int64.  *)
THEOREM NegativeByOutgrowing == Spec => NegativeOnlyByStep
<1>1. IInv /\ balance' = balance => FallsByOutgrowing
  <2> SUFFICES ASSUME IInv, balance' = balance, NEW w \in Wallets, balance[w] >= 0
               PROVE  ~(balance'[w] < 0)
      BY DEF FallsByOutgrowing
  <2>1. balance[w] \in Int
      BY WidthAssumption DEF IInv, TypeOK, Int64, Accounts
  <2> QED
      BY <2>1
<1>2. IInv /\ [Next]_vars => [FallsByOutgrowing]_vars
    BY <1>1, PostFallsByOutgrowing
    DEF Next, EnsureAccount, Serve, Refuse, Duplicate, AllServed, vars
<1> QED
    BY <1>2, Invariance, PTL DEF Spec, NegativeOnlyByStep

-----------------------------------------------------------------------------
(* Balances and the sums of what was posted.                               *)

(* Euclid's division: quotient and remainder, and that there is but one.   *)
LEMMA DivMod ==
    ASSUME NEW n \in Int, NEW m \in Nat \ {0}
    PROVE  n = m * (n \div m) + (n % m) /\ n % m \in 0 .. (m - 1) /\ n \div m \in Int
OBVIOUS

LEMMA SmallMultiple ==
    ASSUME NEW q \in Int, NEW m \in Nat \ {0}, -m < m * q, m * q < m
    PROVE  q = 0
<1>1. q >= 1 => m * q >= m
    OBVIOUS
<1>2. q <= -1 => m * q <= -m
    OBVIOUS
<1> QED
    BY <1>1, <1>2

LEMMA ModUnique ==
    ASSUME NEW n \in Int, NEW m \in Nat \ {0}, NEW q \in Int, NEW k \in 0 .. (m - 1),
           n = m * q + k
    PROVE  n % m = k
<1> DEFINE d == n \div m
           j == n % m
<1>1. d \in Int /\ j \in 0 .. (m - 1) /\ m * q + k = m * d + j
    BY DivMod
<1> HIDE DEF d, j
<1>2. q - d \in Int /\ m * (q - d) = m * q - m * d
    BY <1>1
<1>3. m * (q - d) < m /\ -m < m * (q - d)
    BY <1>1, <1>2
<1>4. q = d
    BY <1>1, <1>2, <1>3, SmallMultiple
<1>5. j = k
    BY <1>1, <1>4
<1> QED
    BY <1>5 DEF j

(* It makes no difference whether one wraps before an addition, too.       *)
LEMMA ModAdd ==
    ASSUME NEW n \in Int, NEW e \in Int, NEW m \in Nat \ {0}
    PROVE  ((n % m) + e) % m = (n + e) % m
<1> DEFINE q == n \div m
           j == n % m
           p == (n + e) \div m
           k == (n + e) % m
<1>1. n = m * q + j /\ j \in 0 .. (m - 1) /\ q \in Int
    BY DivMod
<1>2. n + e = m * p + k /\ k \in 0 .. (m - 1) /\ p \in Int
    BY DivMod, n + e \in Int
<1> HIDE DEF q, j, p, k
<1>3. m * (p - q) = m * p - m * q
    BY <1>1, <1>2
<1>4. j + e = m * (p - q) + k /\ j + e \in Int /\ p - q \in Int
    BY <1>1, <1>2, <1>3
<1>5. (j + e) % m = k
    BY <1>2, <1>4, ModUnique
<1> QED
    BY <1>5 DEF j, k

LEMMA WrapAdd ==
    ASSUME NEW n \in Int, NEW e \in Int
    PROVE  Wrap(Wrap(n) + e) = Wrap(n + e)
<1> DEFINE width == 2 * (MaxInt64 + 1)
           up == n + MaxInt64 + 1
<1>1. width \in Nat \ {0} /\ up \in Int /\ MaxInt64 \in Int
    BY WidthAssumption
<1>2. Wrap(n) = (up % width) - (MaxInt64 + 1) /\ up % width \in Int
    BY <1>1, DivMod DEF Wrap
<1>3. Wrap(n) + e + MaxInt64 + 1 = (up % width) + e
    BY <1>1, <1>2
<1>4. n + e + MaxInt64 + 1 = up + e
    BY <1>1
<1>5. ((up % width) + e) % width = (up + e) % width
    BY <1>1, ModAdd
<1> QED
    BY <1>3, <1>4, <1>5 DEF Wrap

LEMMA WrapOfInt64 ==
    ASSUME NEW n \in Int64
    PROVE  Wrap(n) = n
<1> DEFINE width == 2 * (MaxInt64 + 1)
<1>1. width \in Nat \ {0} /\ n + MaxInt64 + 1 \in 0 .. (width - 1) /\ n \in Int
    BY WidthAssumption DEF Int64
<1> HIDE DEF width
<1>2. n + MaxInt64 + 1 = width * 0 + (n + MaxInt64 + 1) /\ n + MaxInt64 + 1 \in Int
    BY <1>1
<1>3. (n + MaxInt64 + 1) % width = n + MaxInt64 + 1
    BY <1>1, <1>2, ModUnique
<1> QED
    BY <1>1, <1>3, WidthAssumption DEF Wrap, width

(* A sum that is not negative is never less than what it wraps to.         *)
LEMMA WrapIsBelow ==
    ASSUME NEW n \in Nat
    PROVE  Wrap(n) <= n
<1> DEFINE width == 2 * (MaxInt64 + 1)
           up == n + MaxInt64 + 1
           q == up \div width
           k == up % width
<1>1. width \in Nat \ {0} /\ up \in Nat
    BY WidthAssumption
<1>2. Wrap(n) = k - (MaxInt64 + 1)
    BY DEF Wrap
<1>3. n = up - (MaxInt64 + 1)
    BY WidthAssumption
<1> HIDE DEF width, up
<1>4. up = width * q + k /\ k \in 0 .. (width - 1) /\ q \in Int
    BY <1>1, DivMod
<1> HIDE DEF q, k
<1>5. q < 0 => width * q <= -width
    BY <1>1, <1>4
<1>6. q >= 0 => width * q >= 0
    BY <1>1, <1>4
<1>7. k <= up
    BY <1>1, <1>4, <1>5, <1>6
<1> QED
    BY <1>1, <1>2, <1>3, <1>4, <1>7, WidthAssumption

(* Nobody transfers to himself.                                            *)
NoSelfTransfer == \A c \in Calls : c.first # c.second

(* No call has been posted.                                                *)
LEMMA InitExactInv == Init => ExactInv
<1> SUFFICES ASSUME Init
             PROVE  ExactInv
    OBVIOUS
<1>1. Posted = {}
    BY DEF Init, Posted, Reply
<1>2. \A a \in Accounts : Opening[a] \in Int /\ Exact(a) = Opening[a]
    BY <1>1, OpeningAssumption, NothingEntered DEF Exact
<1>3. \A a \in Accounts : balance[a] = Wrap(Exact(a))
    BY <1>2, OpeningWidthAssumption, WrapOfInt64 DEF Init
<1>4. \A w \in Wallets : Exact(w) >= 0
    BY <1>2, OpeningAssumption DEF Accounts
<1> QED
    BY <1>1, <1>3, <1>4, FS_EmptySet DEF ExactInv

(* A step that posts nothing.                                              *)
LEMMA QuietKeepsExactInv ==
    ASSUME ExactInv, balance' = balance, Posted' = Posted,
           \A p \in Posted : call'[p] = call[p]
    PROVE  ExactInv'
<1>1. \A a \in Accounts : Entered(call', Posted', a) = Entered(call, Posted, a)
    BY SameEntered
<1>2. \A a \in Accounts : Exact(a)' = Exact(a)
    BY <1>1 DEF Exact
<1> QED
    BY <1>2 DEF ExactInv, Accounts

(* One more posting, c, on top of those there are.                         *)
LEMMA OneMorePosted ==
    ASSUME IsFiniteSet(Posted), NEW r, r \notin Posted, Posted' = Posted \cup {r},
           \A p \in Posted : call'[p] = call[p], NEW c, call'[r] = c,
           \A p \in Posted \cup {r} : call'[p] \in Calls, NEW a \in Accounts
    PROVE  Exact(a) \in Int /\ Effect(c, a) \in Int /\ Exact(a)' = Exact(a) + Effect(c, a)
<1>1. Entered(call', Posted, a) = Entered(call, Posted, a)
    BY SameEntered
<1>2. /\ Entered(call', Posted \cup {r}, a) = Entered(call', Posted, a) + Effect(call'[r], a)
      /\ Entered(call', Posted, a) \in Int
      /\ Effect(call'[r], a) \in Int
    BY OneMoreEntered
<1>3. Opening[a] \in Int
    BY OpeningAssumption
<1> QED
    BY <1>1, <1>2, <1>3 DEF Exact

(* A posting adds its entries to the sums, and the same, wrapped, to the   *)
(* balances; what is taken from a wallet was there.                        *)
LEMMA PostKeepsExactInv ==
    ASSUME IInv, ExactInv, NoSelfTransfer, NEW r \in Requests, NEW c \in Calls,
           reply[r].status = "none", call' = [call EXCEPT ![r] = c], Post(r, c)
    PROVE  ExactInv'
<1>1. /\ r \notin Posted
      /\ Posted' = Posted \cup {r}
      /\ \A p \in Posted : call'[p] = call[p]
      /\ call'[r] = c
    BY DEF Post, Posted, Reply, IInv, TypeOK
<1>2. \A p \in Posted \cup {r} : call'[p] \in Calls
    BY <1>1 DEF IInv, PostedRemembered
<1>3. ASSUME NEW a \in Accounts
      PROVE  Exact(a) \in Int /\ Effect(c, a) \in Int /\ Exact(a)' = Exact(a) + Effect(c, a)
    BY <1>1, <1>2, OneMorePosted DEF ExactInv
<1>4. ASSUME NEW a \in Accounts
      PROVE  balance'[a] = Wrap(Exact(a)')
  <2>1. balance[a] = Wrap(Exact(a)) /\ balance[a] \in Int
      BY WidthAssumption DEF ExactInv, IInv, TypeOK, Int64
  <2>2. Wrap(balance[a] + Effect(c, a)) = Wrap(Exact(a)')
      BY <1>3, <2>1, WrapAdd
  <2>3. balance'[a] = Wrap(balance[a] + Effect(c, a))
    <3>1. CASE a \notin {c.first, c.second}
      <4>1. balance'[a] = balance[a] /\ Effect(c, a) = 0
          BY <3>1 DEF Post, Effect, IInv, TypeOK
      <4>2. Wrap(balance[a]) = balance[a]
          BY WrapOfInt64 DEF IInv, TypeOK
      <4> QED
          BY <4>1, <4>2, <2>1
    <3>2. CASE a = c.first
      <4>1. Effect(c, a) = FirstEntry(c)
          BY <3>2, CallShape DEF NoSelfTransfer, Effect
      <4>2. balance'[a] = NewFirst(c)
          BY <3>2 DEF NoSelfTransfer, Post, IInv, TypeOK
      <4> QED
          BY <3>2, <4>1, <4>2 DEF NewFirst
    <3>3. CASE a = c.second
      <4>1. Effect(c, a) = SecondEntry(c)
          BY <3>3, CallShape DEF NoSelfTransfer, Effect
      <4>2. balance'[a] = NewSecond(c)
          BY <3>3 DEF Post, IInv, TypeOK
      <4> QED
          BY <3>3, <4>1, <4>2 DEF NewSecond
    <3> QED
        BY <3>1, <3>2, <3>3
  <2> QED
      BY <2>2, <2>3
<1>5. ASSUME NEW w \in Wallets
      PROVE  Exact(w)' >= 0
  <2>1. w \in Accounts /\ w # Suspense
      BY SuspenseAssumption DEF Accounts
  <2>2. Exact(w) \in Nat /\ Effect(c, w) \in Int /\ Exact(w)' = Exact(w) + Effect(c, w)
      BY <1>3, <2>1 DEF ExactInv
  <2>3. CASE Effect(c, w) >= 0
      BY <2>2, <2>3
  <2>4. CASE Effect(c, w) < 0
    <3>1. w = c.first /\ Debits(c) /\ Effect(c, w) = -c.amount
        BY <2>1, <2>4, CallShape, CallsAssumption
        DEF NoSelfTransfer, Effect, FirstEntry, SecondEntry, Debits, Post
    <3>2. balance[w] >= c.amount /\ balance[w] = Wrap(Exact(w)) /\ balance[w] \in Int
        BY <2>1, <3>1, WidthAssumption DEF Post, Covers, ExactInv, IInv, TypeOK, Int64
    <3>3. Wrap(Exact(w)) <= Exact(w)
        BY <2>2, WrapIsBelow
    <3> QED
        BY <2>2, <3>1, <3>2, <3>3, CallShape
  <2> QED
      BY <2>2, <2>3, <2>4
<1>6. IsFiniteSet(Posted')
    BY <1>1, FS_AddElement DEF ExactInv
<1> QED
    BY <1>4, <1>5, <1>6 DEF ExactInv, Accounts

LEMMA NextPreservesExactInv == NoSelfTransfer /\ IInv /\ ExactInv /\ [Next]_vars => ExactInv'
<1> SUFFICES ASSUME NoSelfTransfer, IInv, ExactInv, [Next]_vars
             PROVE  ExactInv'
    OBVIOUS
<1>1. ASSUME NEW r \in Requests, NEW c \in Calls, reply[r].status = "none",
             call' = [call EXCEPT ![r] = c], Refuse(r, c) \/ Duplicate(r, c)
      PROVE  ExactInv'
    BY <1>1, QuietKeepsExactInv DEF Refuse, Duplicate, Reply, Posted, IInv, TypeOK
<1>2. CASE (\E a \in Accounts : EnsureAccount(a)) \/ AllServed \/ UNCHANGED vars
    BY <1>2, QuietKeepsExactInv DEF EnsureAccount, AllServed, vars, Posted
<1> QED
    BY <1>1, <1>2, PostKeepsExactInv DEF Next, Serve

(* As long as nobody transfers to himself, each balance is the sum of its  *)
(* postings, wrapped, and a wallet below zero has received more than an    *)
(* int64 holds; the check of funds is never outrun.                        *)
THEOREM BalancesExplained ==
    ASSUME NoSelfTransfer
    PROVE  Spec => []NegativeOnlyByOverflow
<1>1. Spec => []ExactInv
    BY InitExactInv, NextPreservesExactInv, Invariance, PTL DEF Spec
<1>2. IInv /\ ExactInv => NegativeOnlyByOverflow
  <2> SUFFICES ASSUME IInv, ExactInv, NEW w \in Wallets, balance[w] < 0
               PROVE  Exact(w) > MaxInt64
      BY DEF ExactInv, NegativeOnlyByOverflow
  <2>1. w \in Accounts /\ Opening[w] \in Int
      BY OpeningAssumption DEF Accounts
  <2>2. Exact(w) \in Int
    <3>1. \A p \in Posted : call[p] \in Calls
        BY DEF IInv, PostedRemembered
    <3>2. Entered(call, Posted, w) \in Int
        BY <2>1, <3>1, EnteredType DEF ExactInv
    <3> QED
        BY <2>1, <3>2 DEF Exact
  <2>3. Exact(w) \in Nat /\ Wrap(Exact(w)) < 0
      BY <2>1, <2>2 DEF ExactInv
  <2> QED
      BY <2>3, WrapOfNatural
<1> QED
    BY <1>1, <1>2, Invariance, PTL

-----------------------------------------------------------------------------
(* Refinement.                                                             *)

(* funding.NewService has ensured the suspense account at start-up.        *)
SuspenseOpened == Suspense \in InitAccounts

(* Accounts are never closed.                                              *)
LEMMA SuspenseStays == Init /\ SuspenseOpened => Suspense \in accounts
BY DEF Init, SuspenseOpened

LEMMA AccountsStay == [Next]_vars => accounts \subseteq accounts'
BY DEF Next, EnsureAccount, Serve, Refuse, Duplicate, Post, AllServed, vars

(* Where nothing overflows, the two new balances are the old ones and the  *)
(* entries of the posting.                                                 *)
LEMMA PostIsExact ==
    ASSUME IInv, NoSelfTransfer, Suspense \in accounts, NEW r \in Requests, NEW c \in Calls,
           reply[r].status = "none", call' = [call EXCEPT ![r] = c], Post(r, c), ~Overflows(c)
    PROVE  Contract!Post(c)
<1>1. c.first \in Accounts /\ c.second \in Accounts /\ c.first # c.second
    BY CallShape DEF NoSelfTransfer
<1>2. c.first \in accounts /\ c.second \in accounts /\ accounts' = accounts
    BY CallShape DEF Post, Known
<1>3. balance' = [a \in Accounts |-> balance[a] + Effect(c, a)]
  <2>1. balance' \in [Accounts -> Int64]
      BY PostPreservesIInv DEF IInv, TypeOK
  <2> SUFFICES ASSUME NEW a \in Accounts
               PROVE  balance'[a] = balance[a] + Effect(c, a)
      BY <2>1
  <2>2. balance[a] \in Int
      BY WidthAssumption DEF IInv, TypeOK, Int64
  <2> QED
      BY <2>2, <1>1, CallShape DEF Post, Overflows, Effect, IInv, TypeOK
<1>4. /\ r \notin Posted
      /\ Posted' = Posted \cup {r}
      /\ \A p \in Posted : call'[p] = call[p]
      /\ call'[r] = c
    BY DEF Post, Posted, Reply, IInv, TypeOK
<1>5. {call[p] : p \in Posted}' = {call[p] : p \in Posted} \cup {c}
    BY <1>4
<1>6. \A p \in {call[q] : q \in Posted} : Key(p) # Key(c)
    BY DEF Post, IInv, PostedRemembered
<1> QED
    BY <1>2, <1>3, <1>5, <1>6
    DEF Post, Covers, Contract!Post, Contract!Key, Contract!Debits, Contract!Effect, Key, Debits,
        Effect, FirstEntry, SecondEntry, Contract!FirstEntry, Contract!SecondEntry,
        Accounts, Contract!Accounts

(* A call that posts nothing is a stutter of the contract.                 *)
LEMMA QuietStep ==
    ASSUME IInv, accounts' = accounts, balance' = balance, Posted' = Posted,
           \A p \in Posted : call'[p] = call[p]
    PROVE  UNCHANGED Contract!contractVars
BY DEF Contract!contractVars

(* Every step is a step of the contract, a stutter, or the one overflow.   *)
LEMMA StepImplementsContract ==
    ASSUME IInv, NoSelfTransfer, Suspense \in accounts, [Next]_vars
    PROVE  [Contract!Next \/ OverflowingPost]_(Contract!contractVars)
<1>1. CASE UNCHANGED vars
    BY <1>1, QuietStep DEF vars, Posted
<1>2. ASSUME NEW a \in Accounts, EnsureAccount(a)
      PROVE  Contract!Next
    BY <1>2 DEF EnsureAccount, Posted, Contract!Next, Contract!EnsureAccount, Accounts,
                Contract!Accounts
<1>3. ASSUME NEW r \in Requests, NEW c \in Calls, reply[r].status = "none",
             call' = [call EXCEPT ![r] = c], Refuse(r, c) \/ Duplicate(r, c)
      PROVE  UNCHANGED Contract!contractVars
    BY <1>3, QuietStep DEF Refuse, Duplicate, Reply, Posted, IInv, TypeOK
<1>4. ASSUME NEW r \in Requests, NEW c \in Calls, reply[r].status = "none",
             call' = [call EXCEPT ![r] = c], Post(r, c)
      PROVE  Contract!Next \/ OverflowingPost
  <2>1. CASE Overflows(c)
    <3>1. r \in Posted' \ Posted /\ call'[r] = c
        BY <1>4 DEF Post, Posted, Reply, IInv, TypeOK
    <3> QED
        BY <2>1, <3>1 DEF OverflowingPost
  <2>2. CASE ~Overflows(c)
      BY <2>2, <1>4, PostIsExact DEF Contract!Next
  <2> QED
      BY <2>1, <2>2
<1> QED
    BY <1>1, <1>2, <1>3, <1>4 DEF Next, Serve, AllServed, vars

(* The in-memory ledger keeps the contract, but for the posting that takes *)
(* a balance out of int64, as long as nobody transfers to himself and the  *)
(* suspense account is there at the start.                                 *)
THEOREM Refinement ==
    ASSUME NoSelfTransfer, SuspenseOpened
    PROVE  Spec => ImplementsContract
<1>1. Init => Contract!Init
    BY DEF Init, Posted, Reply, Contract!Init
<1>2. Init => Suspense \in accounts
    BY SuspenseStays
<1>3. Suspense \in accounts /\ [Next]_vars => (Suspense \in accounts)'
    BY AccountsStay
<1>4. IInv /\ Suspense \in accounts /\ [Next]_vars =>
        [Contract!Next \/ OverflowingPost]_(Contract!contractVars)
    BY StepImplementsContract
<1> QED
    BY <1>1, <1>2, <1>3, <1>4, Invariance, PTL DEF Spec, ImplementsContract

=============================================================================

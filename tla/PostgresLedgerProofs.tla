------------------------ MODULE PostgresLedgerProofs ------------------------
(***************************************************************************)
(* Proofs that PostgresLedger keeps its properties for any number of       *)
(* requests, accounts and identifiers.  First what calls look like; then   *)
(* one lemma for each kind of step (rolled back, moved on, applied,        *)
(* answered) and one for each action, which say that IInv is preserved;    *)
(* then the theorems, the absence of deadlocks among card postings, and    *)
(* the refinement of the ledger contract.                                  *)
(***************************************************************************)
EXTENDS PostgresLedgerInvariant, LedgerSums, FiniteSetTheorems, TLAPS

(* What the assumptions say of one posting.                                *)
LEMMA CallShape ==
    ASSUME NEW c \in Calls
    PROVE  /\ c \in CallType
           /\ c.kind \in Kinds
           /\ c.first \in Wallets
           /\ c.first \in Accounts
           /\ c.second \in Accounts
           /\ c.amount \in Int
           /\ c.kind = "p2p" => c.second \in Wallets
           /\ c.kind # "p2p" => c.second = Suspense
           /\ FirstEntry(c) \in Int
           /\ SecondEntry(c) \in Int
           /\ \A a \in Accounts : Effect(c, a) \in Int
BY CallsAssumption DEF CallType, Accounts, FirstEntry, SecondEntry, Effect

(* The same of the call of a request that has begun.                       *)
LEMMA CallFacts ==
    ASSUME CallsBound, NEW r \in Requests, pc[r] # "idle"
    PROVE  /\ call[r] \in Calls
           /\ call[r].kind \in Kinds
           /\ call[r].first \in Wallets
           /\ call[r].first \in Accounts
           /\ call[r].second \in Accounts
           /\ call[r].amount \in Int
           /\ call[r].kind = "p2p" => call[r].second \in Wallets
           /\ call[r].kind # "p2p" => call[r].second = Suspense
           /\ FirstEntry(call[r]) \in Int
           /\ SecondEntry(call[r]) \in Int
           /\ \A a \in Accounts : Effect(call[r], a) \in Int
BY CallShape DEF CallsBound

(* No request has begun, so the invariant speaks of the opening only.      *)
LEMMA InitIInv == Init => IInv
<1> SUFFICES ASSUME Init PROVE IInv
    OBVIOUS
<1> USE DEF Init
<1>1. TypeOK
    BY OpeningAssumption, MaxInt64Assumption
    DEF TypeOK, Stages, Replies, NoReply, Answer, Statuses, Int64, NoEntries
<1>2. CallsBound
    BY DEF CallsBound, InTransaction
<1>3. RowsHeld
    BY RequestAssumption DEF RowsHeld, HoldingBoth, InTransaction
<1>4. Funded
    BY DEF Funded, Inserted
<1>5. EntriesSoFar
    BY DEF EntriesSoFar, NoEntries
<1>6. PostedLate
    BY DEF PostedLate, Reporting
<1>7. KeysUnique
    BY DEF KeysUnique, AtMostOncePerKey, Inserted
<1>8. KeyTakenElsewhere
    BY DEF KeyTakenElsewhere
<1>9. AnsweredAtEnd
    BY DEF AnsweredAtEnd, NoReply, Answer
<1>10. NoOverdraft
    BY OpeningAssumption DEF NoOverdraft
<1>11. AnswersMatchLedger
    BY DEF AnswersMatchLedger, NoReply, Answer
<1>12. ConflictOnlyAcrossAccounts
    BY DEF ConflictOnlyAcrossAccounts, NoReply, Answer
<1> QED
    BY <1>1, <1>2, <1>3, <1>4, <1>5, <1>6, <1>7, <1>8, <1>9, <1>10, <1>11, <1>12
    DEF IInv

(* tx.Rollback with an answer that is true, from any stage of the          *)
(* transaction: locks and uncommitted entries go, the tables stay.         *)
LEMMA RollbackPreservesIInv ==
    ASSUME IInv, NEW r \in Requests, NEW answer \in Replies,
           pc[r] \in InTransaction,
           answer.status # "ok",
           answer.status = "duplicate" => answer.tx \in posted /\ SameKey(answer.tx, r),
           answer.status = "conflict" =>
               \E p \in posted : SameKey(p, r) /\ ~SharesAccount(p, r),
           Rollback(r, answer)
    PROVE  IInv'
<1> USE DEF IInv, Rollback, Goto
<1>1. TypeOK'
    BY DEF TypeOK, Stages, NoEntries, LocksReleasedBy
<1>2. CallsBound'
    BY DEF TypeOK, CallsBound, InTransaction
<1>3. RowsHeld'
    BY CallFacts, RequestAssumption
    DEF TypeOK, RowsHeld, HoldingBoth, InTransaction, LocksReleasedBy
<1>4. Funded'
    BY DEF TypeOK, Funded, Inserted
<1>5. EntriesSoFar'
    BY DEF TypeOK, EntriesSoFar, NoEntries
<1>6. PostedLate'
    BY DEF TypeOK, PostedLate, Reporting
<1>7. KeysUnique'
    BY DEF TypeOK, KeysUnique, AtMostOncePerKey, Inserted, SameKey
<1>8. KeyTakenElsewhere'
    BY DEF TypeOK, KeyTakenElsewhere, SameKey, SharesAccount
<1>9. AnsweredAtEnd'
    BY DEF TypeOK, AnsweredAtEnd
<1>10. NoOverdraft'
    BY DEF NoOverdraft
<1>11. AnswersMatchLedger'
    BY DEF TypeOK, AnswersMatchLedger, PostedLate, Reporting, InTransaction, SameKey
<1>12. ConflictOnlyAcrossAccounts'
    BY DEF TypeOK, ConflictOnlyAcrossAccounts, SameKey, SharesAccount
<1> QED
    BY <1>1, <1>2, <1>3, <1>4, <1>5, <1>6, <1>7, <1>8, <1>9, <1>10, <1>11, <1>12

(* A statement that only moves its request on, when what the next stage    *)
(* relies on has been established.                                         *)
LEMMA AdvancePreservesIInv ==
    ASSUME IInv, NEW r \in Requests, NEW stage \in {"funds", "insertTx", "insertFirst"},
           pc[r] \in {"check", "funds", "insertTx"},
           stage \in {"insertTx", "insertFirst"} =>
               (Debits(call[r]) => balance[call[r].first] >= call[r].amount),
           stage \in {"funds", "insertTx"} =>
               \A p \in posted : SameKey(p, r) => ~SharesAccount(p, r),
           stage = "insertFirst" =>
               /\ \A p \in posted : ~SameKey(p, r)
               /\ \A s \in Requests \ {r} : pc[s] \in Inserted => ~SameKey(s, r),
           Goto(r, stage),
           UNCHANGED <<accounts, balance, posted, call, lock, entries, reply>>
    PROVE  IInv'
<1> USE DEF IInv, Goto
<1>1. TypeOK'
    BY DEF TypeOK, Stages, InTransaction
<1>2. CallsBound'
    BY DEF TypeOK, CallsBound, InTransaction
<1>3. RowsHeld'
    BY DEF TypeOK, RowsHeld, HoldingBoth, InTransaction
<1>4. Funded'
    BY DEF TypeOK, Funded, Inserted
<1>5. EntriesSoFar'
    BY DEF TypeOK, EntriesSoFar
<1>6. PostedLate'
    BY DEF TypeOK, PostedLate, Reporting
<1>7. KeysUnique'
    BY DEF TypeOK, KeysUnique, AtMostOncePerKey, Inserted, SameKey
<1>8. KeyTakenElsewhere'
    BY DEF TypeOK, KeyTakenElsewhere, SameKey, SharesAccount
<1>9. AnsweredAtEnd'
    BY DEF TypeOK, AnsweredAtEnd
<1>10. NoOverdraft'
    BY DEF NoOverdraft
<1>11. AnswersMatchLedger'
    BY DEF AnswersMatchLedger, SameKey
<1>12. ConflictOnlyAcrossAccounts'
    BY DEF ConflictOnlyAcrossAccounts, SameKey, SharesAccount
<1> QED
    BY <1>1, <1>2, <1>3, <1>4, <1>5, <1>6, <1>7, <1>8, <1>9, <1>10, <1>11, <1>12

(* A read after the commit changes only the reply of its own request.      *)
LEMMA ReportPreservesIInv ==
    ASSUME IInv, NEW r \in Requests, NEW stage \in {"readSecond", "done"},
           NEW answer \in Replies,
           pc[r] \in Reporting,
           stage = "readSecond" => answer.status = reply[r].status,
           stage = "done" => \/ answer.status = "error"
                             \/ answer.status = "ok" /\ answer.tx = r,
           Goto(r, stage),
           reply' = [reply EXCEPT ![r] = answer],
           UNCHANGED <<accounts, balance, posted, call, lock, entries>>
    PROVE  IInv'
<1> USE DEF IInv, Goto
<1>1. TypeOK'
    BY DEF TypeOK, Stages, Reporting
<1>2. CallsBound'
    BY DEF TypeOK, CallsBound, InTransaction, Reporting
<1>3. RowsHeld'
    BY DEF TypeOK, RowsHeld, HoldingBoth, InTransaction, Reporting
<1>4. Funded'
    BY DEF TypeOK, Funded, Inserted
<1>5. EntriesSoFar'
    BY DEF TypeOK, EntriesSoFar, Reporting
<1>6. PostedLate'
    BY DEF TypeOK, PostedLate, Reporting
<1>7. KeysUnique'
    BY DEF TypeOK, KeysUnique, AtMostOncePerKey, Inserted, SameKey
<1>8. KeyTakenElsewhere'
    BY DEF TypeOK, KeyTakenElsewhere, SameKey, SharesAccount
<1>9. AnsweredAtEnd'
    BY DEF TypeOK, AnsweredAtEnd, Reporting
<1>10. NoOverdraft'
    BY DEF NoOverdraft
<1>11. AnswersMatchLedger'
    BY DEF TypeOK, AnswersMatchLedger, AnsweredAtEnd, PostedLate, Reporting, SameKey
<1>12. ConflictOnlyAcrossAccounts'
    BY DEF TypeOK, ConflictOnlyAcrossAccounts, AnsweredAtEnd, Reporting, SameKey, SharesAccount
<1> QED
    BY <1>1, <1>2, <1>3, <1>4, <1>5, <1>6, <1>7, <1>8, <1>9, <1>10, <1>11, <1>12

(* The commit: the one step that moves money.                              *)
LEMMA ApplyPreservesIInv ==
    ASSUME IInv, NEW r \in Requests, NEW stage \in {"readFirst", "done"},
           NEW answer \in Replies,
           pc[r] = "commit",
           answer.status = IF stage = "done" THEN "error" ELSE "none",
           Goto(r, stage),
           reply' = [reply EXCEPT ![r] = answer],
           Apply(r)
    PROVE  IInv'
<1> USE DEF IInv, Goto, Apply
<1>0. /\ call[r] \in Calls
      /\ call[r].amount \in Int
      /\ call[r].amount > 0
      /\ call[r].first \in Wallets
      /\ call[r].kind # "p2p" => call[r].second = Suspense
      /\ lock[call[r].first] = r /\ lock[call[r].second] = r
      /\ Debits(call[r]) => balance[call[r].first] >= call[r].amount
      /\ \A a \in Accounts : entries[r][a] = Effect(call[r], a)
      /\ \A a \in Accounts : balance'[a] = balance[a] + Effect(call[r], a)
    BY CallFacts
    DEF TypeOK, CallsBound, RowsHeld, Funded, EntriesSoFar, HoldingBoth, InTransaction, Inserted
<1>1. TypeOK'
    BY CallFacts DEF TypeOK, Stages, Reporting, NoEntries, LocksReleasedBy
<1>2. CallsBound'
    BY DEF TypeOK, CallsBound, InTransaction, Reporting
<1>3. RowsHeld'
    BY CallFacts, RequestAssumption
    DEF TypeOK, RowsHeld, HoldingBoth, InTransaction, LocksReleasedBy
<1>4. Funded'
  <2> SUFFICES ASSUME NEW s \in Requests, pc'[s] \in Inserted \cup {"insertTx"},
                      Debits(call[s])
               PROVE  balance'[call[s].first] >= call[s].amount
      BY DEF Funded
  <2>1. s # r /\ pc[s] = pc'[s]
      BY DEF TypeOK, Inserted
  <2>2. lock[call[s].first] = s /\ call[s].first \in Accounts
      BY <2>1, CallFacts DEF RowsHeld, HoldingBoth, InTransaction, Inserted
  <2>3. Effect(call[r], call[s].first) = 0
      BY <1>0, <2>1, <2>2 DEF Effect
  <2>4. balance[call[s].first] \in Int
      BY <2>2 DEF TypeOK
  <2> QED
      BY <1>0, <2>1, <2>2, <2>3, <2>4 DEF Funded
<1>5. EntriesSoFar'
    BY DEF TypeOK, EntriesSoFar, NoEntries
<1>6. PostedLate'
    BY DEF TypeOK, PostedLate, Reporting
<1>7. KeysUnique'
    BY DEF TypeOK, KeysUnique, AtMostOncePerKey, Inserted, SameKey
<1>8. KeyTakenElsewhere'
  <2> SUFFICES ASSUME NEW s \in Requests, NEW p \in posted',
                      pc'[s] \in {"funds", "insertTx"}, SameKey(p, s)
               PROVE  ~SharesAccount(p, s)
      BY DEF KeyTakenElsewhere, SameKey, SharesAccount
  <2>1. s # r /\ pc[s] = pc'[s]
      BY DEF TypeOK
  <2>2. CASE p \in posted
      BY <2>1, <2>2 DEF KeyTakenElsewhere
  <2>3. CASE p = r
    <3>1. lock[call[s].first] = s /\ lock[call[s].second] = s
        BY <2>1 DEF RowsHeld, HoldingBoth, InTransaction
    <3> QED
        BY <1>0, <2>1, <2>3, <3>1 DEF SharesAccount, Touches
  <2> QED
      BY <2>2, <2>3
<1>9. AnsweredAtEnd'
    BY DEF TypeOK, AnsweredAtEnd
<1>10. NoOverdraft'
  <2> SUFFICES ASSUME NEW w \in Wallets
               PROVE  balance'[w] >= 0
      BY DEF NoOverdraft
  <2>1. w \in Accounts /\ balance[w] \in Int /\ balance[w] >= 0 /\ w # Suspense
      BY SuspenseAssumption DEF TypeOK, NoOverdraft, Accounts
  <2>2. CASE w = call[r].first /\ Debits(call[r])
      BY <1>0, <2>1, <2>2 DEF Effect, FirstEntry, SecondEntry
  <2>3. CASE w = call[r].first /\ ~Debits(call[r])
      BY <1>0, <2>1, <2>3 DEF Effect, FirstEntry, SecondEntry, Debits
  <2>4. CASE w # call[r].first
      BY <1>0, <2>1, <2>4 DEF Effect, FirstEntry, SecondEntry, Debits
  <2> QED
      BY <2>2, <2>3, <2>4
<1>11. AnswersMatchLedger'
    BY DEF TypeOK, AnswersMatchLedger, AnsweredAtEnd, SameKey
<1>12. ConflictOnlyAcrossAccounts'
    BY DEF TypeOK, ConflictOnlyAcrossAccounts, AnsweredAtEnd, SameKey, SharesAccount
<1> QED
    BY <1>1, <1>2, <1>3, <1>4, <1>5, <1>6, <1>7, <1>8, <1>9, <1>10, <1>11, <1>12

(* A refusal has the shape of a reply.                                     *)
LEMMA RefusalIsReply ==
    /\ \A status \in Statuses : Refusal(status) \in Replies
    /\ \A status : Refusal(status).status = status
BY MaxInt64Assumption DEF Refusal, Answer, Replies, Int64

(* A new account changes nothing that a posting relies on.                 *)
LEMMA EnsureAccountPreservesIInv ==
    ASSUME IInv, NEW a \in Accounts, EnsureAccount(a)
    PROVE  IInv'
BY DEF IInv, EnsureAccount, TypeOK, CallsBound, RowsHeld, Funded, EntriesSoFar,
       PostedLate, KeysUnique, AtMostOncePerKey, KeyTakenElsewhere, AnsweredAtEnd,
       NoOverdraft, AnswersMatchLedger, ConflictOnlyAcrossAccounts, SameKey,
       SharesAccount

(* BEGIN: the request has a call and holds nothing.                        *)
LEMMA BeginPreservesIInv ==
    ASSUME IInv, NEW r \in Requests, Begin(r)
    PROVE  IInv'
<1>1. PICK c \in Calls :
        /\ call' = [call EXCEPT ![r] = c]
        /\ \/ c.amount > 0 /\ Goto(r, "lockFirst") /\ reply' = reply
           \/ c.amount <= 0 /\ Goto(r, "done")
              /\ reply' = [reply EXCEPT ![r] = Refusal("error")]
    BY DEF Begin
<1>2. Refusal("error") \in Replies /\ Refusal("error").status = "error"
    BY RefusalIsReply DEF Statuses
<1>3. pc[r] = "idle" /\ r \notin posted /\ reply[r].status = "none"
    BY DEF Begin, IInv, PostedLate, Reporting, AnsweredAtEnd
<1>4. \A p \in posted : p # r /\ call'[p] = call[p]
    BY <1>1, <1>3 DEF IInv, TypeOK
<1>5. \A s \in Requests \ {r} : call'[s] = call[s] /\ pc'[s] = pc[s] /\ reply'[s] = reply[s]
    BY <1>1 DEF Goto, IInv, TypeOK
<1>6. pc'[r] \in {"lockFirst", "done"} /\ call'[r] = c /\ reply'[r].status \in {"none", "error"}
    BY <1>1, <1>2, <1>3 DEF Goto, IInv, TypeOK
<1> USE DEF Begin, IInv, Goto
<1>7. TypeOK'
    BY <1>1, <1>2 DEF TypeOK, Stages, InTransaction
<1>8. CallsBound'
    BY <1>1 DEF TypeOK, CallsBound, InTransaction
<1>9. RowsHeld'
    BY <1>1, <1>3 DEF TypeOK, RowsHeld, HoldingBoth, InTransaction
<1>10. Funded'
    BY <1>1 DEF TypeOK, Funded, Inserted
<1>11. EntriesSoFar'
    BY <1>1, <1>3 DEF TypeOK, EntriesSoFar
<1>12. PostedLate'
    BY <1>1, <1>3 DEF TypeOK, PostedLate, Reporting
<1>13. KeysUnique'
    BY <1>4, <1>5, <1>6 DEF TypeOK, KeysUnique, AtMostOncePerKey, Inserted, SameKey
<1>14. KeyTakenElsewhere'
    BY <1>4, <1>5, <1>6 DEF TypeOK, KeyTakenElsewhere, SameKey, SharesAccount
<1>15. AnsweredAtEnd'
    BY <1>1, <1>3 DEF TypeOK, AnsweredAtEnd
<1>16. NoOverdraft'
    BY DEF NoOverdraft
<1>17. AnswersMatchLedger'
    BY <1>4, <1>5, <1>6 DEF TypeOK, AnswersMatchLedger, SameKey
<1>18. ConflictOnlyAcrossAccounts'
    BY <1>4, <1>5, <1>6
    DEF TypeOK, ConflictOnlyAcrossAccounts, SameKey, SharesAccount
<1> QED
    BY <1>7, <1>8, <1>9, <1>10, <1>11, <1>12, <1>13, <1>14, <1>15, <1>16, <1>17, <1>18

(* Any error inside the transaction rolls it back.                         *)
LEMMA ErrorPreservesIInv ==
    ASSUME IInv, NEW r \in Requests, NEW status \in {"error", "insufficient"},
           pc[r] \in InTransaction, Rollback(r, Refusal(status))
    PROVE  IInv'
BY RefusalIsReply, RollbackPreservesIInv DEF Statuses

(* SELECT ... FOR UPDATE: the row was free or its own, and is now its own. *)
LEMMA LockPreservesIInv ==
    ASSUME IInv, NEW r \in Requests, LockFirst(r) \/ LockSecond(r)
    PROVE  IInv'
<1>0. call[r].first \in Accounts /\ call[r].second \in Accounts
    BY CallFacts DEF IInv, LockFirst, LockSecond
<1>1. CASE Rollback(r, Refusal("error"))
    BY <1>1, ErrorPreservesIInv DEF LockFirst, LockSecond, InTransaction
<1>2. CASE ~Rollback(r, Refusal("error"))
  <2>1. PICK a \in Accounts, stage \in {"lockSecond", "check"} :
          /\ \/ pc[r] = "lockFirst" /\ a = call[r].first /\ stage = "lockSecond"
             \/ pc[r] = "lockSecond" /\ a = call[r].second /\ stage = "check"
          /\ a \in accounts
          /\ lock[a] \in {NoRequest, r}
          /\ lock' = [lock EXCEPT ![a] = r]
          /\ Goto(r, stage)
          /\ UNCHANGED <<accounts, balance, posted, call, entries, reply>>
    <3>1. LockOrder(call[r])[1] = call[r].first /\ LockOrder(call[r])[2] = call[r].second
        BY DEF LockOrder
    <3>2. CASE LockFirst(r)
      <4>1. /\ pc[r] = "lockFirst"
            /\ call[r].first \in accounts
            /\ lock[call[r].first] \in {NoRequest, r}
            /\ lock' = [lock EXCEPT ![call[r].first] = r]
            /\ Goto(r, "lockSecond")
            /\ UNCHANGED <<accounts, balance, posted, call, entries, reply>>
          BY <1>2, <3>1, <3>2 DEF LockFirst, LockRow
      <4> QED
          BY <1>0, <4>1
    <3>3. CASE LockSecond(r)
      <4>1. /\ pc[r] = "lockSecond"
            /\ call[r].second \in accounts
            /\ lock[call[r].second] \in {NoRequest, r}
            /\ lock' = [lock EXCEPT ![call[r].second] = r]
            /\ Goto(r, "check")
            /\ UNCHANGED <<accounts, balance, posted, call, entries, reply>>
          BY <1>2, <3>1, <3>3 DEF LockSecond, LockRow
      <4> QED
          BY <1>0, <4>1
    <3> QED
        BY <3>2, <3>3
  <2> USE DEF IInv, Goto
  <2>2. TypeOK'
      BY <2>1 DEF TypeOK, Stages, InTransaction
  <2>3. CallsBound'
      BY <2>1 DEF TypeOK, CallsBound, InTransaction
  <2>4. RowsHeld'
      BY <1>0, <2>1, CallFacts, RequestAssumption
      DEF TypeOK, RowsHeld, HoldingBoth, InTransaction
  <2>5. Funded'
      BY <2>1 DEF TypeOK, Funded, Inserted
  <2>6. EntriesSoFar'
      BY <2>1 DEF TypeOK, EntriesSoFar
  <2>7. PostedLate'
      BY <2>1 DEF TypeOK, PostedLate, Reporting
  <2>8. KeysUnique'
      BY <2>1 DEF TypeOK, KeysUnique, AtMostOncePerKey, Inserted, SameKey
  <2>9. KeyTakenElsewhere'
      BY <2>1 DEF TypeOK, KeyTakenElsewhere, SameKey, SharesAccount
  <2>10. AnsweredAtEnd'
      BY <2>1 DEF TypeOK, AnsweredAtEnd
  <2>11. NoOverdraft'
      BY <2>1 DEF NoOverdraft
  <2>12. AnswersMatchLedger'
      BY <2>1 DEF AnswersMatchLedger, SameKey
  <2>13. ConflictOnlyAcrossAccounts'
      BY <2>1 DEF ConflictOnlyAcrossAccounts, SameKey, SharesAccount
  <2> QED
      BY <2>2, <2>3, <2>4, <2>5, <2>6, <2>7, <2>8, <2>9, <2>10, <2>11, <2>12, <2>13
<1> QED
    BY <1>1, <1>2

(* The lookup: a duplicate names a posted call; without one, none with the *)
(* same key is posted.                                                     *)
LEMMA CheckExistingPreservesIInv ==
    ASSUME IInv, NEW r \in Requests, CheckExisting(r)
    PROVE  IInv'
<1>1. CASE (\A p \in posted : ~SameKey(p, r)) /\ Goto(r, NextOfCheck(call[r]))
           /\ UNCHANGED <<accounts, balance, posted, call, lock, entries, reply>>
  <2>1. ~Debits(call[r]) => NextOfCheck(call[r]) = "insertTx"
      BY DEF NextOfCheck
  <2>2. Debits(call[r]) => NextOfCheck(call[r]) = "funds"
      BY DEF NextOfCheck
  <2> QED
      BY <1>1, <2>1, <2>2, AdvancePreservesIInv DEF CheckExisting
<1>2. CASE Rollback(r, Refusal("error"))
    BY <1>2, ErrorPreservesIInv DEF CheckExisting, InTransaction
<1>3. ASSUME NEW p \in posted, SameKey(p, r), Readable(call[r].first),
             NEW second \in Int64,
             Rollback(r, Answer("duplicate", p, balance[call[r].first], second))
      PROVE  IInv'
  <2>1. Answer("duplicate", p, balance[call[r].first], second) \in Replies
      BY <1>3 DEF Answer, Replies, Statuses, Readable, IInv, TypeOK
  <2> QED
      BY <1>3, <2>1, RollbackPreservesIInv DEF Answer, CheckExisting, InTransaction
<1>4. 0 \in Int64
    BY MaxInt64Assumption DEF Int64
<1> QED
    BY <1>1, <1>2, <1>3, <1>4 DEF CheckExisting, Readable

(* The balance check establishes Funded, and the row lock keeps it.        *)
LEMMA CheckFundsPreservesIInv ==
    ASSUME IInv, NEW r \in Requests, CheckFunds(r)
    PROVE  IInv'
<1>1. CASE balance[call[r].first] >= call[r].amount /\ Goto(r, "insertTx")
           /\ UNCHANGED <<accounts, balance, posted, call, lock, entries, reply>>
  <2>1. \A p \in posted : SameKey(p, r) => ~SharesAccount(p, r)
      BY DEF IInv, KeyTakenElsewhere, CheckFunds
  <2> QED
      BY <1>1, <2>1, AdvancePreservesIInv DEF CheckFunds
<1>2. CASE Rollback(r, Refusal("insufficient")) \/ Rollback(r, Refusal("error"))
    BY <1>2, ErrorPreservesIInv DEF CheckFunds, InTransaction
<1> QED
    BY <1>1, <1>2 DEF CheckFunds

(* The unique index: no committed and no uncommitted row has the key.      *)
LEMMA InsertTxPreservesIInv ==
    ASSUME IInv, NEW r \in Requests, InsertTx(r)
    PROVE  IInv'
<1>1. CASE (\A p \in posted : ~SameKey(p, r)) /\ Goto(r, "insertFirst")
           /\ UNCHANGED <<accounts, balance, posted, call, lock, entries, reply>>
  <2>1. Debits(call[r]) => balance[call[r].first] >= call[r].amount
      BY DEF IInv, Funded, InsertTx
  <2> QED
      BY <1>1, <2>1, AdvancePreservesIInv DEF InsertTx
<1>2. CASE (\E p \in posted : SameKey(p, r)) /\ Rollback(r, Refusal("conflict"))
  <2>1. \E p \in posted : SameKey(p, r) /\ ~SharesAccount(p, r)
      BY <1>2 DEF IInv, KeyTakenElsewhere, InsertTx
  <2> QED
      BY <1>2, <2>1, RefusalIsReply, RollbackPreservesIInv
      DEF InsertTx, InTransaction, Statuses
<1> QED
    BY <1>1, <1>2 DEF InsertTx

(* Each insert adds its amount to the uncommitted entries.                 *)
LEMMA InsertEntryPreservesIInv ==
    ASSUME IInv, NEW r \in Requests, InsertFirst(r) \/ InsertSecond(r)
    PROVE  IInv'
<1>0. /\ call[r].first \in Accounts /\ call[r].second \in Accounts
      /\ FirstEntry(call[r]) \in Int /\ SecondEntry(call[r]) \in Int
    BY CallFacts DEF IInv, InsertFirst, InsertSecond
<1>1. PICK a \in Accounts, amount \in Int, stage \in {"insertSecond", "commit"} :
        /\ \/ pc[r] = "insertFirst" /\ a = call[r].first
              /\ amount = FirstEntry(call[r]) /\ stage = "insertSecond"
           \/ pc[r] = "insertSecond" /\ a = call[r].second
              /\ amount = SecondEntry(call[r]) /\ stage = "commit"
        /\ entries' = [entries EXCEPT ![r][a] = @ + amount]
        /\ Goto(r, stage)
        /\ UNCHANGED <<accounts, balance, posted, call, lock, reply>>
    BY <1>0 DEF InsertFirst, InsertSecond, InsertEntry
<1> USE DEF IInv, Goto
<1>2. TypeOK'
    BY <1>1 DEF TypeOK, Stages, InTransaction
<1>3. CallsBound'
    BY <1>1 DEF TypeOK, CallsBound, InTransaction
<1>4. RowsHeld'
    BY <1>1 DEF TypeOK, RowsHeld, HoldingBoth, InTransaction
<1>5. Funded'
    BY <1>1 DEF TypeOK, Funded, Inserted
<1>6. EntriesSoFar'
  <2>1. \A s \in Requests \ {r} : entries'[s] = entries[s] /\ pc'[s] = pc[s]
      BY <1>1 DEF TypeOK
  <2>2. /\ pc'[r] = stage
        /\ \A b \in Accounts :
            entries'[r][b] = IF b = a THEN entries[r][b] + amount ELSE entries[r][b]
      BY <1>1 DEF TypeOK
  <2>3. call' = call
      BY <1>1
  <2>4. CASE stage = "insertSecond"
    <3>1. \A b \in Accounts : entries[r][b] = 0
        BY <1>1, <2>4 DEF EntriesSoFar
    <3> QED
        BY <1>0, <1>1, <2>1, <2>2, <2>3, <2>4, <3>1 DEF EntriesSoFar
  <2>5. CASE stage = "commit"
    <3>1. \A b \in Accounts :
            entries[r][b] = IF b = call[r].first THEN FirstEntry(call[r]) ELSE 0
        BY <1>1, <2>5 DEF EntriesSoFar
    <3>2. \A b \in Accounts : entries'[r][b] = Effect(call[r], b)
        BY <1>0, <1>1, <2>2, <2>5, <3>1 DEF Effect
    <3> QED
        BY <2>1, <2>2, <2>3, <2>5, <3>2 DEF EntriesSoFar
  <2> QED
      BY <2>4, <2>5
<1>7. PostedLate'
    BY <1>1 DEF TypeOK, PostedLate, Reporting
<1>8. KeysUnique'
    BY <1>1 DEF TypeOK, KeysUnique, AtMostOncePerKey, Inserted, SameKey
<1>9. KeyTakenElsewhere'
    BY <1>1 DEF TypeOK, KeyTakenElsewhere, SameKey, SharesAccount
<1>10. AnsweredAtEnd'
    BY <1>1 DEF TypeOK, AnsweredAtEnd
<1>11. NoOverdraft'
    BY <1>1 DEF NoOverdraft
<1>12. AnswersMatchLedger'
    BY <1>1 DEF AnswersMatchLedger, SameKey
<1>13. ConflictOnlyAcrossAccounts'
    BY <1>1 DEF ConflictOnlyAcrossAccounts, SameKey, SharesAccount
<1> QED
    BY <1>2, <1>3, <1>4, <1>5, <1>6, <1>7, <1>8, <1>9, <1>10, <1>11, <1>12, <1>13

(* tx.Commit that is acknowledged.                                         *)
LEMMA CommitPreservesIInv ==
    ASSUME IInv, NEW r \in Requests, Commit(r) \/ CommitAckLost(r)
    PROVE  IInv'
<1>1. CASE Commit(r)
  <2>1. reply[r] \in Replies /\ reply[r].status = "none"
      BY <1>1 DEF Commit, IInv, TypeOK, AnsweredAtEnd
  <2>2. reply' = [reply EXCEPT ![r] = reply[r]]
      BY <1>1 DEF Commit, IInv, TypeOK
  <2> QED
      BY <1>1, <2>1, <2>2, ApplyPreservesIInv DEF Commit
<1>2. CASE CommitAckLost(r)
    BY <1>2, RefusalIsReply, ApplyPreservesIInv DEF CommitAckLost, Statuses
<1> QED
    BY <1>1, <1>2

(* The balances of the reply, scanned into an int64.                       *)
LEMMA ReadPreservesIInv ==
    ASSUME IInv, NEW r \in Requests, ReadFirst(r) \/ ReadSecond(r)
    PROVE  IInv'
<1>0. /\ pc[r] \in Reporting
      /\ Goto(r, "readSecond") \/ Goto(r, "done")
      /\ UNCHANGED <<accounts, balance, posted, call, lock, entries>>
    BY DEF ReadFirst, ReadSecond, Reporting
<1>1. CASE Goto(r, "readSecond") /\ Readable(call[r].first)
           /\ reply' = [reply EXCEPT ![r].first = balance[call[r].first]]
  <2> DEFINE answer == [reply[r] EXCEPT !.first = balance[call[r].first]]
  <2>1. answer \in Replies /\ answer.status = reply[r].status
      BY <1>1 DEF IInv, TypeOK, Replies, Readable
  <2>2. reply' = [reply EXCEPT ![r] = answer]
      BY <1>1 DEF IInv, TypeOK
  <2> QED
      BY <1>0, <1>1, <2>1, <2>2, ReportPreservesIInv
<1>2. ASSUME Goto(r, "done"), NEW answer \in Replies,
             reply' = [reply EXCEPT ![r] = answer],
             answer.status = "error" \/ (answer.status = "ok" /\ answer.tx = r)
      PROVE  IInv'
    BY <1>0, <1>2, ReportPreservesIInv
<1>3. Refusal("error") \in Replies /\ Refusal("error").status = "error"
    BY RefusalIsReply DEF Statuses
<1>4. ASSUME NEW first \in Int64, NEW second \in Int64
      PROVE  /\ Answer("ok", r, first, second) \in Replies
             /\ Answer("ok", r, first, second).status = "ok"
             /\ Answer("ok", r, first, second).tx = r
    BY DEF Answer, Replies, Statuses
<1>5. 0 \in Int64 /\ reply[r].first \in Int64
    BY MaxInt64Assumption DEF IInv, TypeOK, Replies, Int64
<1>6. CASE ReadFirst(r)
    BY <1>1, <1>2, <1>3, <1>4, <1>5, <1>6 DEF ReadFirst, Readable
<1>7. CASE ReadSecond(r)
    BY <1>2, <1>3, <1>4, <1>5, <1>7 DEF ReadSecond, Readable
<1> QED
    BY <1>6, <1>7

(* A failed statement: rolled back before the commit, an error after it.   *)
LEMMA FailPreservesIInv ==
    ASSUME IInv, NEW r \in Requests, Fail(r)
    PROVE  IInv'
<1>1. CASE pc[r] \in InTransaction /\ Rollback(r, Refusal("error"))
    BY <1>1, ErrorPreservesIInv
<1>2. CASE pc[r] \in Reporting /\ Goto(r, "done")
           /\ reply' = [reply EXCEPT ![r] = Refusal("error")]
           /\ UNCHANGED <<accounts, balance, posted, call, lock, entries>>
    BY <1>2, RefusalIsReply, ReportPreservesIInv DEF Statuses
<1> QED
    BY <1>1, <1>2 DEF Fail

(* A transaction aborted by the server is rolled back.                     *)
LEMMA DeadlockAbortPreservesIInv ==
    ASSUME IInv, NEW r \in Requests, DeadlockAbort(r)
    PROVE  IInv'
<1>1. pc[r] \in InTransaction
    BY DEF DeadlockAbort, InWaitCycle, WaitsFor, InTransaction
<1> QED
    BY <1>1, ErrorPreservesIInv DEF DeadlockAbort

(* A step that changes nothing.                                            *)
LEMMA StutterPreservesIInv == IInv /\ UNCHANGED vars => IInv'
BY DEF IInv, vars, TypeOK, CallsBound, RowsHeld, Funded, EntriesSoFar,
       PostedLate, KeysUnique, AtMostOncePerKey, KeyTakenElsewhere, AnsweredAtEnd,
       NoOverdraft, AnswersMatchLedger, ConflictOnlyAcrossAccounts, SameKey,
       SharesAccount

(* Every step preserves the invariant.                                     *)
LEMMA NextPreservesIInv == IInv /\ [Next]_vars => IInv'
<1> SUFFICES ASSUME IInv, [Next]_vars
             PROVE  IInv'
    OBVIOUS
<1>1. CASE UNCHANGED vars
    BY <1>1, StutterPreservesIInv
<1>2. CASE \E a \in Accounts : EnsureAccount(a)
    BY <1>2, EnsureAccountPreservesIInv
<1>3. ASSUME NEW r \in Requests, Begin(r)
      PROVE  IInv'
    BY <1>3, BeginPreservesIInv
<1>4. ASSUME NEW r \in Requests, Step(r)
      PROVE  IInv'
    BY <1>4, LockPreservesIInv, CheckExistingPreservesIInv, CheckFundsPreservesIInv,
       InsertTxPreservesIInv, InsertEntryPreservesIInv, CommitPreservesIInv,
       ReadPreservesIInv
    DEF Step
<1>5. ASSUME NEW r \in Requests, Fail(r) \/ CommitAckLost(r) \/ DeadlockAbort(r)
      PROVE  IInv'
    BY <1>5, FailPreservesIInv, CommitPreservesIInv, DeadlockAbortPreservesIInv
<1> QED
    BY <1>1, <1>2, <1>3, <1>4, <1>5 DEF Next, AllReturned

(* The strengthened invariant holds in every reachable state.              *)
THEOREM Invariance == Spec => []IInv
BY InitIInv, NextPreservesIInv, PTL DEF Spec

(* Every variable keeps its shape; in particular the balances told to a    *)
(* caller are int64 values.                                                *)
THEOREM TypeCorrect == Spec => []TypeOK
<1>1. IInv => TypeOK
    BY DEF IInv
<1> QED
    BY <1>1, Invariance, PTL

(* Whatever the interleaving of the statements, the failures and the lost  *)
(* acknowledgements, no wallet is ever overdrawn.                          *)
THEOREM NeverOverdrawn == Spec => []NoOverdraft
<1>1. IInv => NoOverdraft
    BY DEF IInv
<1> QED
    BY <1>1, Invariance, PTL

(* A client identifier is posted at most once per kind.                    *)
THEOREM PostedOncePerKey == Spec => []AtMostOncePerKey
<1>1. IInv => AtMostOncePerKey
    BY DEF IInv, KeysUnique
<1> QED
    BY <1>1, Invariance, PTL

(* The answers tell the truth about what was posted.                       *)
THEOREM AnswersTrue == Spec => []AnswersMatchLedger
<1>1. IInv => AnswersMatchLedger
    BY DEF IInv
<1> QED
    BY <1>1, Invariance, PTL

(* A posting is refused by the unique index only because of one between    *)
(* other accounts.                                                         *)
THEOREM ConflictsAcrossAccounts == Spec => []ConflictOnlyAcrossAccounts
<1>1. IInv => ConflictOnlyAcrossAccounts
    BY DEF IInv
<1> QED
    BY <1>1, Invariance, PTL

-----------------------------------------------------------------------------
(* Deadlocks.                                                              *)

(* After its transactions row is in, a request waits for nobody.           *)
LEMMA InsertedNeverWaits ==
    ASSUME NEW s, NEW t, pc[s] \in Inserted
    PROVE  ~WaitsFor(s, t)
BY DEF WaitsFor, Inserted

(* Nobody in a cycle waits at the unique index; so each holds one row and  *)
(* waits for the one row of another, which is a wallet.                    *)
LEMMA CyclesSpareCards == IInv => CardsNeverDeadlock
<1> SUFFICES ASSUME IInv, NEW r \in Requests, InWaitCycle(r)
             PROVE  call[r].kind = "p2p"
    BY DEF CardsNeverDeadlock
<1>1. PICK S \in SUBSET Requests :
        /\ r \in S
        /\ \A s \in S : /\ \E t \in S : WaitsFor(s, t)
                        /\ \E t \in S : WaitsFor(t, s)
    BY DEF InWaitCycle
<1>2. \A s \in S : pc[s] \notin Inserted
    BY <1>1, InsertedNeverWaits
(* Nobody of the cycle waits at the unique index: that is a wait for an    *)
(* inserted row.                                                           *)
<1>3. \A s \in S : pc[s] # "insertTx"
    BY <1>1, <1>2 DEF WaitsFor
<1>4. \A s \in S : pc[s] \in {"lockFirst", "lockSecond"}
    BY <1>1, <1>3 DEF WaitsFor
(* It is waited for, so it holds its first row and waits for its second.   *)
<1>5. pc[r] = "lockSecond" /\ r \in Requests
  <2>1. PICK t \in S : WaitsFor(t, r)
      BY <1>1
  <2>2. pc[t] \in {"lockFirst", "lockSecond"} /\ pc[r] \notin Inserted
      BY <1>2, <1>4, <1>1
  <2>3. PICK a \in Accounts : lock[a] = r
    <3>1. LockOrder(call[t])[1] = call[t].first /\ LockOrder(call[t])[2] = call[t].second
        BY DEF LockOrder
    <3>2. call[t].first \in Accounts /\ call[t].second \in Accounts
        BY <2>2, CallFacts, <1>1 DEF IInv
    <3> QED
        BY <2>1, <2>2, <3>1, <3>2 DEF WaitsFor
  <2> QED
      BY <1>1, <1>4, <2>3 DEF IInv, RowsHeld, HoldingBoth
<1>6. PICK t \in S : WaitsFor(r, t)
    BY <1>1
<1>7. lock[call[r].second] = t /\ t \in Requests
  <2>1. LockOrder(call[r])[2] = call[r].second
      BY DEF LockOrder
  <2> QED
      BY <1>1, <1>5, <1>6, <2>1 DEF WaitsFor
(* The holder holds one row only, a wallet.                                *)
<1>8. call[r].second = call[t].first
  <2>1. pc[t] \notin HoldingBoth
      BY <1>4 DEF HoldingBoth
  <2>2. call[r].second \in Accounts
      BY <1>5, CallFacts DEF IInv
  <2> QED
      BY <1>7, <2>1, <2>2 DEF IInv, RowsHeld
<1>9. call[t].first \in Wallets /\ (call[r].kind # "p2p" => call[r].second = Suspense)
    BY <1>4, <1>5, <1>7, CallFacts DEF IInv
<1> QED
    BY <1>8, <1>9, SuspenseAssumption

(* Card postings are in no cycle of waits: only transfers can deadlock.    *)
THEOREM CardsDeadlockFree == Spec => []CardsNeverDeadlock
BY CyclesSpareCards, Invariance, PTL

-----------------------------------------------------------------------------
(* Refinement.                                                             *)

(* Nothing is posted at first, in either specification.                    *)
LEMMA InitImplementsContract == Init => Contract!Init
BY DEF Init, Contract!Init

(* A step that leaves the tables alone is a stutter of the contract.       *)
LEMMA QuietStep ==
    ASSUME IInv, accounts' = accounts, balance' = balance, posted' = posted,
           \A p \in posted : call'[p] = call[p]
    PROVE  UNCHANGED Contract!contractVars
BY DEF Contract!contractVars

(* The commit is the Post of the contract, with its guard.                 *)
LEMMA ApplyPosts ==
    ASSUME IInv, NEW r \in Requests, NEW c \in Calls, c = call[r],
           pc[r] = "commit", Apply(r)
    PROVE  Contract!Post(c)
<1>1. /\ call[r] \in Calls
      /\ call[r].amount > 0
      /\ call[r].first \in Accounts /\ call[r].second \in Accounts
      /\ lock[call[r].first] = r /\ lock[call[r].second] = r
    BY CallFacts DEF IInv, CallsBound, RowsHeld, HoldingBoth, InTransaction
<1>2. call[r].first \in accounts /\ call[r].second \in accounts
    BY <1>1 DEF IInv, RowsHeld
<1>3. \A p \in {call[q] : q \in posted} : Key(p) # Key(call[r])
    BY DEF IInv, KeysUnique, SameKey, Inserted
<1>4. Debits(call[r]) => balance[call[r].first] >= call[r].amount
    BY DEF IInv, Funded, Inserted
<1>5. balance' = [a \in Accounts |-> balance[a] + Effect(call[r], a)]
    BY DEF IInv, EntriesSoFar, Apply
<1>6. {call[q] : q \in posted}' = {call[q] : q \in posted} \cup {call[r]}
    BY DEF Apply
<1>7. accounts' = accounts
    BY DEF Apply
<1> QED
    BY <1>1, <1>2, <1>3, <1>4, <1>5, <1>6, <1>7
    DEF Contract!Post, Contract!Key, Contract!Debits, Contract!Effect, Key, Debits,
        Effect, FirstEntry, SecondEntry, Contract!FirstEntry, Contract!SecondEntry,
        Accounts, Contract!Accounts

(* Every step is a step of the contract or a stutter.                      *)
LEMMA StepImplementsContract ==
    IInv /\ [Next]_vars => [Contract!Next]_(Contract!contractVars)
<1> SUFFICES ASSUME IInv, [Next]_vars
             PROVE  Contract!Next \/ UNCHANGED Contract!contractVars
    OBVIOUS
<1>1. CASE UNCHANGED vars
    BY <1>1, QuietStep DEF vars
<1>2. ASSUME NEW a \in Accounts, EnsureAccount(a)
      PROVE  Contract!Next
    BY <1>2 DEF EnsureAccount, Contract!Next, Contract!EnsureAccount, Accounts,
                Contract!Accounts
<1>3. ASSUME NEW r \in Requests, Begin(r)
      PROVE  UNCHANGED Contract!contractVars
  <2>1. r \notin posted
      BY <1>3 DEF Begin, IInv, PostedLate, Reporting
  <2>2. \A p \in posted : call'[p] = call[p]
      BY <1>3, <2>1 DEF Begin, IInv, TypeOK
  <2> QED
      BY <1>3, <2>2, QuietStep DEF Begin
<1>4. ASSUME NEW r \in Requests, Commit(r) \/ CommitAckLost(r)
      PROVE  Contract!Next
  <2>1. pc[r] = "commit" /\ Apply(r)
      BY <1>4 DEF Commit, CommitAckLost
  <2>2. PICK c \in Calls : c = call[r]
      BY <2>1, CallFacts DEF IInv
  <2>3. Contract!Post(c)
      BY <2>1, <2>2, ApplyPosts
  <2> QED
      BY <2>2, <2>3 DEF Contract!Next
<1>5. ASSUME NEW r \in Requests,
             \/ LockFirst(r) \/ LockSecond(r) \/ CheckExisting(r) \/ CheckFunds(r)
             \/ InsertTx(r) \/ InsertFirst(r) \/ InsertSecond(r)
             \/ ReadFirst(r) \/ ReadSecond(r) \/ Fail(r) \/ DeadlockAbort(r)
      PROVE  UNCHANGED <<accounts, balance, posted, call>>
    BY <1>5 DEF LockFirst, LockSecond, LockRow, CheckExisting, CheckFunds, InsertTx,
                InsertFirst, InsertSecond, InsertEntry, ReadFirst, ReadSecond, Fail,
                DeadlockAbort, Rollback
<1>6. CASE UNCHANGED <<accounts, balance, posted, call>>
    BY <1>6, QuietStep
<1> QED
    BY <1>1, <1>2, <1>3, <1>4, <1>5, <1>6 DEF Next, Step, AllReturned

(* The tables evolve as the ledger contract says: the statements of one    *)
(* database transaction together are one atomic posting.                   *)
THEOREM Refinement == Spec => ImplementsContract
<1>1. Init => Contract!Init
    BY InitImplementsContract
<1>2. IInv /\ [Next]_vars => [Contract!Next]_(Contract!contractVars)
    BY StepImplementsContract
<1> QED
    BY <1>1, <1>2, Invariance, PTL DEF Spec, ImplementsContract, Contract!Spec

-----------------------------------------------------------------------------
(* Double entry.                                                           *)

(* The commit takes the amount from one account and gives it to the other. *)
LEMMA ApplyMoves ==
    ASSUME IInv, NEW r \in Requests, pc[r] = "commit", Apply(r)
    PROVE  \E from, to \in Accounts : \E c \in Calls :
               c.amount > 0 /\ Moves(from, to, c.amount)
<1> DEFINE c == call[r]
<1>1. /\ c \in Calls /\ c.amount \in Int /\ c.amount > 0
      /\ c.first \in Accounts /\ c.second \in Accounts
    BY CallFacts DEF IInv, CallsBound, InTransaction
<1>2. \A a \in Accounts : balance[a] \in Int /\ balance'[a] = balance[a] + Effect(c, a)
    BY DEF IInv, TypeOK, EntriesSoFar, Apply
<1>3. CASE Debits(c)
  <2>1. Moves(c.first, c.second, c.amount)
      BY <1>1, <1>2, <1>3 DEF Moves, Effect, FirstEntry, SecondEntry
  <2> QED
      BY <1>1, <2>1
<1>4. CASE ~Debits(c)
  <2>1. Moves(c.second, c.first, c.amount)
      BY <1>1, <1>2, <1>4 DEF Moves, Effect, FirstEntry, SecondEntry
  <2> QED
      BY <1>1, <2>1
<1> QED
    BY <1>3, <1>4

(* No money is created or destroyed by any statement, failure or lost      *)
(* acknowledgement: what BooksBalance says of the sum, step by step.       *)
THEOREM MoneyOnlyMoves == Spec => DoubleEntry
<1>1. ASSUME IInv, [Next]_vars
      PROVE  [\/ UNCHANGED balance
              \/ \E from, to \in Accounts : \E c \in Calls :
                   c.amount > 0 /\ Moves(from, to, c.amount)]_vars
  <2>1. ASSUME NEW r \in Requests, Commit(r) \/ CommitAckLost(r)
        PROVE  \E from, to \in Accounts : \E c \in Calls :
                   c.amount > 0 /\ Moves(from, to, c.amount)
      BY <1>1, <2>1, ApplyMoves DEF Commit, CommitAckLost
  <2>2. ASSUME NEW r \in Requests,
               \/ Begin(r) \/ LockFirst(r) \/ LockSecond(r) \/ CheckExisting(r)
               \/ CheckFunds(r) \/ InsertTx(r) \/ InsertFirst(r) \/ InsertSecond(r)
               \/ ReadFirst(r) \/ ReadSecond(r) \/ Fail(r) \/ DeadlockAbort(r)
        PROVE  UNCHANGED balance
      BY <2>2 DEF Begin, LockFirst, LockSecond, LockRow, CheckExisting, CheckFunds,
                  InsertTx, InsertFirst, InsertSecond, InsertEntry, ReadFirst,
                  ReadSecond, Fail, DeadlockAbort, Rollback
  <2>3. (\E a \in Accounts : EnsureAccount(a)) \/ AllReturned => UNCHANGED balance
      BY DEF EnsureAccount, AllReturned, vars
  <2> QED
      BY <1>1, <2>1, <2>2, <2>3 DEF Next, Step
<1> QED
    BY <1>1, Invariance, PTL DEF Spec, DoubleEntry

-----------------------------------------------------------------------------
(* The books.                                                              *)

LEMMA InitBooks == Init => BooksInv
<1> SUFFICES ASSUME Init
             PROVE  BooksInv
    OBVIOUS
<1>1. Begun = {} /\ posted = {}
    BY DEF Init, Begun
<1>2. IsFiniteSet(Begun)
    BY <1>1, FS_EmptySet
<1>3. ASSUME NEW a \in Accounts
      PROVE  Entered(call, posted, a) = 0
    BY <1>1, NothingEntered
<1>4. \A a \in Accounts : Opening[a] \in Int
    BY OpeningAssumption
<1> QED
    BY <1>2, <1>3, <1>4 DEF Init, BooksInv, Explained

(* A commit adds one summand to what explains each balance.                *)
LEMMA ApplyKeepsExplained ==
    ASSUME IInv, BooksInv, NEW r \in Requests, pc[r] = "commit", Apply(r)
    PROVE  Explained'
<1> SUFFICES ASSUME NEW a \in Accounts
             PROVE  balance'[a] = Opening[a] + Entered(call', posted', a)
    BY DEF Explained
<1>1. r \notin posted /\ posted' = posted \cup {r} /\ call' = call
    BY DEF Apply, IInv, PostedLate, Reporting
<1>2. IsFiniteSet(posted)
  <2>1. posted \subseteq Begun
      BY DEF IInv, TypeOK, PostedLate, Begun, Reporting
  <2> QED
      BY <2>1, FS_Subset DEF BooksInv
<1>3. \A p \in posted \cup {r} : call[p] \in Calls
    BY <1>1 DEF IInv, TypeOK, CallsBound, PostedLate, Reporting
<1>4. /\ Entered(call, posted \cup {r}, a) = Entered(call, posted, a) + Effect(call[r], a)
      /\ Entered(call, posted, a) \in Int /\ Effect(call[r], a) \in Int
    BY <1>1, <1>2, <1>3, OneMoreEntered
<1>5. balance'[a] = balance[a] + Effect(call[r], a)
    BY DEF Apply, IInv, EntriesSoFar
<1>6. balance[a] = Opening[a] + Entered(call, posted, a) /\ Opening[a] \in Int
    BY OpeningAssumption DEF BooksInv, Explained
<1> QED
    BY <1>1, <1>4, <1>5, <1>6

(* What a step other than a commit leaves to the sums.                     *)
LEMMA QuietKeepsExplained ==
    ASSUME IInv, BooksInv, balance' = balance, posted' = posted,
           \A r \in posted : call'[r] = call[r]
    PROVE  Explained'
<1>1. \A a \in Accounts : Entered(call', posted', a) = Entered(call, posted, a)
    BY SameEntered
<1> QED
    BY <1>1 DEF BooksInv, Explained

(* One more request may have begun.                                        *)
LEMMA BegunGrowsByOne ==
    ASSUME BooksInv, NEW r \in Requests,
           \A s \in Requests \ {r} : pc'[s] = pc[s]
    PROVE  IsFiniteSet(Begun')
<1>1. Begun' \subseteq Begun \cup {r}
    BY DEF Begun
<1>2. IsFiniteSet(Begun \cup {r})
    BY FS_AddElement DEF BooksInv
<1> QED
    BY <1>1, <1>2, FS_Subset

LEMMA NextPreservesBooks == IInv /\ BooksInv /\ [Next]_vars => BooksInv'
<1> SUFFICES ASSUME IInv, BooksInv, [Next]_vars
             PROVE  BooksInv'
    OBVIOUS
<1> USE DEF IInv, TypeOK
<1>1. ASSUME NEW r \in Requests, Commit(r) \/ CommitAckLost(r)
      PROVE  BooksInv'
    BY <1>1, ApplyKeepsExplained, BegunGrowsByOne DEF Commit, CommitAckLost, Goto, BooksInv
<1>2. ASSUME NEW r \in Requests, Begin(r)
      PROVE  BooksInv'
  <2>1. r \notin posted
      BY <1>2 DEF Begin, PostedLate, Reporting
  <2>2. Explained'
      BY <1>2, <2>1, QuietKeepsExplained DEF Begin
  <2> QED
      BY <1>2, <2>2, BegunGrowsByOne DEF Begin, Goto, BooksInv
<1>3. ASSUME NEW r \in Requests,
             \/ LockFirst(r) \/ LockSecond(r) \/ CheckExisting(r)
             \/ CheckFunds(r) \/ InsertTx(r) \/ InsertFirst(r) \/ InsertSecond(r)
             \/ ReadFirst(r) \/ ReadSecond(r) \/ Fail(r) \/ DeadlockAbort(r)
      PROVE  BooksInv'
  <2>1. UNCHANGED <<balance, posted, call>> /\ \A s \in Requests \ {r} : pc'[s] = pc[s]
      BY <1>3 DEF LockFirst, LockSecond, LockRow, CheckExisting, CheckFunds, InsertTx,
                  InsertFirst, InsertSecond, InsertEntry, ReadFirst, ReadSecond, Fail,
                  DeadlockAbort, Rollback, Goto
  <2> QED
      BY <2>1, QuietKeepsExplained, BegunGrowsByOne DEF BooksInv
<1>4. CASE (\E a \in Accounts : EnsureAccount(a)) \/ AllReturned \/ UNCHANGED vars
  <2>1. UNCHANGED <<balance, posted, call, pc>>
      BY <1>4 DEF EnsureAccount, AllReturned, vars
  <2> QED
      BY <2>1, QuietKeepsExplained DEF BooksInv, Begun
<1> QED
    BY <1>1, <1>2, <1>3, <1>4 DEF Next, Step

(* Each balance is its opening and the entries of the committed postings.  *)
THEOREM BooksInvariance == Spec => []BooksInv
BY InitBooks, NextPreservesBooks, Invariance, PTL DEF Spec

-----------------------------------------------------------------------------
(* The sum of all accounts.                                                *)

(* There are finitely many rows in table accounts, and what earlier        *)
(* postings left in them sums to zero.                                     *)
FiniteAccounts == IsFiniteSet(Wallets)

OpeningSumsToZero == Total(Opening, Accounts) = 0

SumIsZero == Total(balance, Accounts) = 0

(* What is moved from one account to another leaves the sum as it is.      *)
LEMMA MovesKeepSum ==
    ASSUME FiniteAccounts, TypeOK, TypeOK', NEW from \in Accounts, NEW to \in Accounts,
           NEW n \in Int, Moves(from, to, n)
    PROVE  Total(balance', Accounts) = Total(balance, Accounts)
<1> DEFINE mid == [a \in Accounts |-> IF a = from THEN balance[a] + (-n) ELSE balance[a]]
<1>1. IsFiniteSet(Accounts)
    BY FS_AddElement DEF FiniteAccounts, Accounts
<1>2. \A a \in Accounts : balance[a] \in Int
    BY DEF TypeOK
<1>3. \A a \in Accounts : mid[a] = IF a = from THEN balance[a] + (-n) ELSE balance[a]
    OBVIOUS
<1>4. \A a \in Accounts : mid[a] \in Int
    BY <1>2
<1>5. \A a \in Accounts : balance'[a] = IF a = to THEN mid[a] + n ELSE mid[a]
    BY <1>2, <1>3 DEF Moves
<1> HIDE DEF mid
<1>6. Total(mid, Accounts) = Total(balance, Accounts) + (-n)
    BY <1>1, <1>2, <1>3, TotalChange, -n \in Int
<1>7. Total(balance', Accounts) = Total(mid, Accounts) + n
    BY <1>1, <1>4, <1>5, TotalChange
<1>8. Total(balance, Accounts) \in Int
    BY <1>1, <1>2, TotalType
<1> QED
    BY <1>6, <1>7, <1>8

(* Double entry: at every moment, whatever fails, each balance is what the *)
(* posted calls explain, and all of them together are zero.                *)
THEOREM BooksAlwaysBalance ==
    ASSUME FiniteAccounts, OpeningSumsToZero
    PROVE  Spec => []BooksBalance
<1>1. Init => SumIsZero
    BY DEF Init, OpeningSumsToZero, SumIsZero
<1>2. TypeOK /\ TypeOK' /\ SumIsZero
        /\ [\/ UNCHANGED balance
            \/ \E from, to \in Accounts : \E c \in Calls :
                 c.amount > 0 /\ Moves(from, to, c.amount)]_vars
        => SumIsZero'
  <2> SUFFICES ASSUME TypeOK, TypeOK', SumIsZero,
                      \/ UNCHANGED balance
                      \/ \E from, to \in Accounts : \E c \in Calls : Moves(from, to, c.amount)
               PROVE  SumIsZero'
      BY DEF vars
  <2>1. CASE UNCHANGED balance
      BY <2>1 DEF SumIsZero
  <2>2. ASSUME NEW from \in Accounts, NEW to \in Accounts, NEW c \in Calls,
               Moves(from, to, c.amount)
        PROVE  SumIsZero'
      BY <2>2, CallShape, MovesKeepSum DEF SumIsZero
  <2> QED
      BY <2>1, <2>2
<1>3. Spec => []SumIsZero
    BY <1>1, <1>2, MoneyOnlyMoves, TypeCorrect, PTL DEF Spec, DoubleEntry
<1>4. BooksInv /\ SumIsZero => BooksBalance
    BY DEF BooksInv, SumIsZero, BooksBalance
<1> QED
    BY <1>3, <1>4, BooksInvariance, PTL

-----------------------------------------------------------------------------
(* Waits end.                                                              *)

(* Who is waited for has a transaction open, and so has who waits.         *)
LEMMA WaitsAreForOpen ==
    ASSUME IInv, NEW r \in Requests, NEW s \in Requests, WaitsFor(r, s)
    PROVE  pc[r] \in InTransaction /\ pc[s] \in InTransaction
<1>1. pc[r] \in InTransaction
    BY DEF WaitsFor, InTransaction
<1>2. CASE pc[r] = "insertTx" /\ pc[s] \in Inserted
    BY <1>1, <1>2 DEF InTransaction, Inserted
<1>3. ASSUME NEW a \in Accounts, lock[a] = s
      PROVE  pc[s] \in InTransaction
    BY <1>3 DEF IInv, RowsHeld, HoldingBoth, InTransaction
<1>4. LockOrder(call[r])[1] \in Accounts /\ LockOrder(call[r])[2] \in Accounts
    BY <1>1, CallFacts DEF IInv, LockOrder, InTransaction
<1> QED
    BY <1>1, <1>2, <1>3, <1>4 DEF WaitsFor

(* Where everybody waits for somebody among them, some are in a cycle:     *)
(* leave out whom nobody waits for until nobody is left to leave out.      *)
LEMMA EndlessWaitIsCycle ==
    ASSUME NEW W \in SUBSET Requests, IsFiniteSet(W), W # {},
           \A r \in W : \E s \in W : WaitsFor(r, s)
    PROVE  \E r \in W : InWaitCycle(r)
<1> DEFINE Endless(T) == T # {} /\ \A r \in T : \E s \in T : WaitsFor(r, s)
           D == {T \in SUBSET W : Endless(T) => \E r \in T : InWaitCycle(r)}
<1>1. ASSUME NEW T \in SUBSET W, \A U \in SUBSET T : U # T => U \in D, Endless(T)
      PROVE  \E r \in T : InWaitCycle(r)
  <2>1. CASE \A s \in T : \E r \in T : WaitsFor(r, s)
      BY <1>1, <2>1 DEF InWaitCycle
  <2>2. ASSUME NEW s \in T, \A r \in T : ~WaitsFor(r, s)
        PROVE  \E r \in T : InWaitCycle(r)
    <3> DEFINE U == T \ {s}
    <3>1. Endless(U)
      <4>1. PICK t \in T : WaitsFor(s, t)
          BY <1>1
      <4>2. t \in U
          BY <2>2, <4>1
      <4>3. \A r \in U : \E u \in U : WaitsFor(r, u)
          BY <1>1, <2>2
      <4> QED
          BY <4>2, <4>3
    <3>2. U \in SUBSET T /\ U # T
        BY <2>2
    <3> QED
        BY <1>1, <3>1, <3>2
  <2> QED
      BY <2>1, <2>2
<1>2. \A T \in SUBSET W : (\A U \in SUBSET T : U # T => U \in D) => T \in D
    BY <1>1
<1> HIDE DEF D
<1>3. W \in D
    BY <1>2, SubsetInduction
<1> QED
    BY <1>3 DEF D

LEMMA OpenTransactionsMove == IInv /\ IsFiniteSet(Begun) => SomebodyCanMove
<1> DEFINE W == {r \in Requests : pc[r] \in InTransaction}
<1> SUFFICES ASSUME IInv, IsFiniteSet(Begun), W # {}, \A r \in W : ~InWaitCycle(r)
             PROVE  \E r \in W : \A s \in Requests : ~WaitsFor(r, s)
    BY DEF SomebodyCanMove, CanMove
<1>1. IsFiniteSet(W)
  <2>1. W \subseteq Begun
      BY DEF Begun, InTransaction
  <2> QED
      BY <2>1, FS_Subset
<1>2. PICK r \in W : \A s \in W : ~WaitsFor(r, s)
    BY <1>1, EndlessWaitIsCycle
<1> QED
    BY <1>2, WaitsAreForOpen

(* No open transaction waits for ever on others that wait for ever too:    *)
(* there is always one whose next statement is answered, or a cycle that   *)
(* the server breaks.                                                      *)
THEOREM NoWaitIsEndless == Spec => []SomebodyCanMove
<1>1. IInv /\ BooksInv => SomebodyCanMove
    BY OpenTransactionsMove DEF BooksInv
<1> QED
    BY <1>1, Invariance, BooksInvariance, PTL

=============================================================================

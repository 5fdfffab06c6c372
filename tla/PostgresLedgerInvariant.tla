---------------------- MODULE PostgresLedgerInvariant ----------------------
(***************************************************************************)
(* The inductive invariant behind the theorems of PostgresLedgerProofs.    *)
(* Each conjunct says what one stage of a posting may rely on while other  *)
(* postings run: the properties of PostgresLedger follow from it, and      *)
(* every step preserves it.                                                *)
(***************************************************************************)
EXTENDS PostgresLedger

(* A request past BEGIN carries a legal call.                              *)
CallsBound ==
    \A r \in Requests :
        /\ pc[r] # "idle" => call[r] \in Calls
        /\ pc[r] \in InTransaction => call[r].amount > 0

(* A request holds the rows it has locked, and no others; they exist.      *)
RowsHeld ==
    /\ \A r \in Requests :
        /\ pc[r] = "lockSecond" => lock[call[r].first] = r
        /\ pc[r] \in HoldingBoth =>
             lock[call[r].first] = r /\ lock[call[r].second] = r
    /\ \A a \in Accounts : \A r \in Requests :
        lock[a] = r =>
            /\ a \in accounts
            /\ \/ a = call[r].first /\ pc[r] \in InTransaction \ {"lockFirst"}
               \/ a = call[r].second /\ pc[r] \in HoldingBoth

(* The balance that was checked is still there.                            *)
Funded ==
    \A r \in Requests :
        (pc[r] \in Inserted \cup {"insertTx"} /\ Debits(call[r])) =>
            balance[call[r].first] >= call[r].amount

(* The uncommitted entries are those inserted so far, both of them at the  *)
(* commit.                                                                 *)
EntriesSoFar ==
    \A r \in Requests : \A a \in Accounts :
        /\ pc[r] = "insertSecond" =>
             entries[r][a] = IF a = call[r].first THEN FirstEntry(call[r]) ELSE 0
        /\ pc[r] = "commit" => entries[r][a] = Effect(call[r], a)
        /\ pc[r] \notin {"insertSecond", "commit"} => entries[r][a] = 0

(* A request is posted exactly from its commit on.                         *)
PostedLate ==
    \A r \in Requests :
        /\ r \in posted => pc[r] \in Reporting \cup {"done"}
        /\ pc[r] \in Reporting => r \in posted

(* Among the committed and the uncommitted transactions rows, one per key. *)
KeysUnique ==
    /\ AtMostOncePerKey
    /\ \A r \in Requests : pc[r] \in Inserted =>
        /\ \A p \in posted : ~SameKey(p, r)
        /\ \A s \in Requests : (pc[s] \in Inserted /\ SameKey(s, r)) => s = r

(* Once the lookup of an earlier transaction has found none, one with the  *)
(* same key can only be committed between other accounts: those of the     *)
(* request are locked.                                                     *)
KeyTakenElsewhere ==
    \A r \in Requests : \A p \in posted :
        (pc[r] \in {"funds", "insertTx"} /\ SameKey(p, r)) => ~SharesAccount(p, r)

(* Nothing is answered before the call ends.                               *)
AnsweredAtEnd == \A r \in Requests : pc[r] # "done" => reply[r].status = "none"

IInv ==
    /\ TypeOK
    /\ CallsBound
    /\ RowsHeld
    /\ Funded
    /\ EntriesSoFar
    /\ PostedLate
    /\ KeysUnique
    /\ KeyTakenElsewhere
    /\ AnsweredAtEnd
    /\ NoOverdraft
    /\ AnswersMatchLedger
    /\ ConflictOnlyAcrossAccounts

-----------------------------------------------------------------------------
(* What the sums over all postings rely on besides.                        *)

(* However many calls may come, finitely many have.                        *)
Begun == {r \in Requests : pc[r] # "idle"}

BooksInv == IsFiniteSet(Begun) /\ Explained

=============================================================================

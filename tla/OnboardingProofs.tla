-------------------------- MODULE OnboardingProofs --------------------------
(***************************************************************************)
(* Proofs about registration, for any number of requests and phones.  A    *)
(* user keeps the phone number he was inserted with, and the writes of a   *)
(* registration only add rows, so whatever was true of a row stays true    *)
(* wherever a registration stops.                                          *)
(***************************************************************************)
EXTENDS Onboarding, TLAPS

LEMMA InitIInv == Init => IInv
BY DEF Init, Reply, IInv, TypeOK, Stages, Replies, OneWalletPerPhone, WalletsAreComplete,
       WritesInOrder, AnnouncedIsOwn

(* The first write, or the refusal of a phone number that is taken.        *)
LEMMA RegisterPreservesIInv ==
    ASSUME IInv, NEW r \in Requests, Register(r) \/ RegisterFails(r)
    PROVE  IInv'
<1>1. PICK p \in Phones :
        /\ phone' = [phone EXCEPT ![r] = p]
        /\ users' \in {users} \cup (IF Taken(p) THEN {} ELSE {users \cup {r}})
        /\ \/ /\ r \in users'
              /\ pc' = [pc EXCEPT ![r] = "ensureAccount"]
              /\ reply' = reply
           \/ Answer(r, "refused", NoWallet)
    BY DEF Register, RegisterFails, Goto
<1>2. pc[r] = "idle" /\ accounts' = accounts /\ wallets' = wallets
    BY DEF Register, RegisterFails
<1>3. r \notin users /\ reply[r] = Reply("none", NoWallet)
    BY <1>2 DEF IInv, WritesInOrder
<1>4. \A u \in users : phone'[u] = phone[u] /\ phone'[u] \in Phones \cup {NoPhone}
    BY <1>1, <1>3 DEF IInv, TypeOK
<1>5. phone'[r] = p
    BY <1>1 DEF IInv, TypeOK
<1>6. TypeOK'
    BY <1>1, <1>2 DEF Answer, Goto, Reply, Replies, Stages, IInv, TypeOK
<1>7. \A u, v \in users' : phone'[u] = phone'[v] => u = v
    BY <1>1, <1>4, <1>5 DEF Taken, IInv, OneWalletPerPhone
<1>8. WalletsAreComplete'
    BY <1>1, <1>2 DEF IInv, WalletsAreComplete
<1>9. OneWalletPerPhone'
    BY <1>7, <1>8 DEF OneWalletPerPhone, WalletsAreComplete
<1>10. WritesInOrder'
    BY <1>1, <1>2, <1>3 DEF Answer, Goto, Reply, IInv, TypeOK, WritesInOrder
<1>11. \A s \in Requests :
        reply'[s].wallet # NoWallet => s # r /\ reply'[s] = reply[s]
    BY <1>1, <1>3 DEF Answer, Reply, IInv, TypeOK
<1>12. AnnouncedIsOwn'
    BY <1>1, <1>2, <1>4, <1>11 DEF IInv, TypeOK, AnnouncedIsOwn, WalletsAreComplete
<1> QED
    BY <1>6, <1>8, <1>9, <1>10, <1>12 DEF IInv

(* The account, or an error that leaves it out.                            *)
LEMMA EnsureAccountPreservesIInv ==
    ASSUME IInv, NEW r \in Requests, EnsureAccount(r) \/ EnsureAccountFails(r)
    PROVE  IInv'
<1> USE DEF EnsureAccount, EnsureAccountFails, AnswerWithoutWallet, Answer, Goto, Reply, IInv,
            TypeOK
<1>1. TypeOK'
    BY DEF Stages, Replies
<1>2. OneWalletPerPhone' /\ WalletsAreComplete'
    BY DEF OneWalletPerPhone, WalletsAreComplete
<1>3. WritesInOrder'
    BY DEF WritesInOrder
<1>4. AnnouncedIsOwn'
    BY DEF AnnouncedIsOwn, WritesInOrder
<1> QED
    BY <1>1, <1>2, <1>3, <1>4

(* The wallet, of a user who is there with an account.                     *)
LEMMA CreateWalletPreservesIInv ==
    ASSUME IInv, NEW r \in Requests, CreateWallet(r) \/ CreateWalletFails(r)
    PROVE  IInv'
<1>1. r \in users /\ r \in accounts
    BY DEF CreateWallet, CreateWalletFails, IInv, WritesInOrder
<1> USE DEF CreateWallet, CreateWalletFails, AnswerWithoutWallet, Answer, Goto, Reply, IInv,
            TypeOK
<1>2. TypeOK'
    BY DEF Stages, Replies
<1>3. WalletsAreComplete'
    BY <1>1 DEF WalletsAreComplete
<1>4. OneWalletPerPhone'
    BY <1>3 DEF OneWalletPerPhone, WalletsAreComplete
<1>5. WritesInOrder'
    BY NoWalletAssumption DEF WritesInOrder
<1>6. AnnouncedIsOwn'
    BY DEF AnnouncedIsOwn
<1> QED
    BY <1>2, <1>3, <1>4, <1>5, <1>6

(* A lookup takes the phone number of the user it looks for.               *)
LEMMA FindWalletPreservesIInv ==
    ASSUME IInv, NEW r \in Requests, FindWallet(r)
    PROVE  IInv'
<1>1. PICK u \in users :
        /\ phone' = [phone EXCEPT ![r] = phone[u]]
        /\ \/ /\ u \in wallets
              /\ Goto(r, "readBalance")
              /\ reply' = [reply EXCEPT ![r].wallet = u]
           \/ Answer(r, "notFound", NoWallet)
    BY DEF FindWallet, FindByOwner
<1>2. pc[r] = "idle" /\ UNCHANGED <<users, accounts, wallets>>
    BY DEF FindWallet
<1>3. r \notin users /\ reply[r] = Reply("none", NoWallet)
    BY <1>2 DEF IInv, WritesInOrder
<1>told. reply'[r] \in {Reply("none", u), Reply("notFound", NoWallet)}
    BY <1>1, <1>3 DEF Answer, Reply, IInv, TypeOK
<1> USE DEF Answer, Goto, Reply, IInv, TypeOK
<1>4. TypeOK'
    BY <1>1, <1>2 DEF Stages, Replies
<1>5. \A v \in users : phone'[v] = phone[v]
    BY <1>1, <1>3
<1>6. OneWalletPerPhone' /\ WalletsAreComplete'
    BY <1>2, <1>5 DEF OneWalletPerPhone, WalletsAreComplete
<1>7. WritesInOrder'
    BY <1>1, <1>2, <1>3, NoWalletAssumption DEF WritesInOrder
<1>8. AnnouncedIsOwn'
    <2> SUFFICES ASSUME NEW s \in Requests, (reply'[s].wallet # NoWallet)
                 PROVE  /\ reply'[s].wallet \in wallets
                        /\ phone'[reply'[s].wallet] = phone'[s]
                        /\ reply'[s].status # "unreadable"
        BY <1>2 DEF AnnouncedIsOwn
    <2>1. CASE s = r
        BY <2>1, <1>1, <1>5, <1>told
    <2>2. CASE s # r
        <3>1. reply'[s] = reply[s] /\ phone'[s] = phone[s]
            BY <2>2, <1>1
        <3> QED
            BY <3>1, <1>5 DEF AnnouncedIsOwn, WalletsAreComplete
    <2> QED
        BY <2>1, <2>2
<1> QED
    BY <1>4, <1>6, <1>7, <1>8

(* The account of a wallet is there, so its balance can be read.           *)
LEMMA ReadBalancePreservesIInv ==
    ASSUME IInv, NEW r \in Requests, ReadBalance(r)
    PROVE  IInv'
<1>1. reply[r].wallet \in accounts
    BY DEF ReadBalance, IInv, WritesInOrder, AnnouncedIsOwn, WalletsAreComplete
<1> USE DEF ReadBalance, Answer, Goto, Reply, IInv, TypeOK
<1>2. TypeOK'
    BY DEF Stages, Replies
<1>3. OneWalletPerPhone' /\ WalletsAreComplete'
    BY DEF OneWalletPerPhone, WalletsAreComplete
<1>4. WritesInOrder'
    BY DEF WritesInOrder
<1>5. AnnouncedIsOwn'
    BY <1>1 DEF AnnouncedIsOwn
<1> QED
    BY <1>2, <1>3, <1>4, <1>5

(* A process that dies leaves the rows it wrote.                           *)
LEMMA CrashPreservesIInv ==
    ASSUME IInv, NEW r \in Requests, Crash(r)
    PROVE  IInv'
BY DEF Crash, Goto, IInv, TypeOK, Stages, OneWalletPerPhone, WalletsAreComplete, WritesInOrder,
       AnnouncedIsOwn

LEMMA StutterPreservesIInv == IInv /\ UNCHANGED vars => IInv'
BY DEF vars, IInv, TypeOK, OneWalletPerPhone, WalletsAreComplete, WritesInOrder, AnnouncedIsOwn

(* Every step preserves the invariant.                                     *)
LEMMA NextPreservesIInv == IInv /\ [Next]_vars => IInv'
BY RegisterPreservesIInv, EnsureAccountPreservesIInv, CreateWalletPreservesIInv,
   FindWalletPreservesIInv, ReadBalancePreservesIInv, CrashPreservesIInv, StutterPreservesIInv
DEF Next, AllEnded

(* The strengthened invariant holds in every reachable state.              *)
THEOREM Invariance == Spec => []IInv
BY InitIInv, NextPreservesIInv, PTL DEF Spec

(* Every variable keeps its shape.                                         *)
THEOREM TypeCorrect == Spec => []TypeOK
<1>1. IInv => TypeOK
    BY DEF IInv
<1> QED
    BY <1>1, Invariance, PTL

(* A phone number has at most one user, and he at most one wallet.         *)
THEOREM PhonesHaveOneWallet == Spec => []OneWalletPerPhone
<1>1. IInv => OneWalletPerPhone
    BY DEF IInv
<1> QED
    BY <1>1, Invariance, PTL

(* No wallet is without its user or its account.                           *)
THEOREM NoWalletIsHalfMade == Spec => []WalletsAreComplete
<1>1. IInv => WalletsAreComplete
    BY DEF IInv
<1> QED
    BY <1>1, Invariance, PTL

(* Whoever learns of a wallet can use it, and two who ask for the same     *)
(* phone number learn of the same wallet.                                  *)
THEOREM LearntWalletsWork == Spec => []AnnouncedWalletsWork
<1>1. IInv => AnnouncedWalletsWork
    <2> SUFFICES ASSUME IInv,
                        NEW r \in Requests, reply[r].wallet # NoWallet,
                        NEW s \in Requests, phone[s] = phone[r], reply[s].wallet # NoWallet
                 PROVE  reply[s].wallet = reply[r].wallet
        BY DEF IInv, AnnouncedIsOwn, AnnouncedWalletsWork
    <2>1. \A q \in {r, s} :
            /\ reply[q].wallet \in wallets
            /\ phone[reply[q].wallet] = phone[r]
        BY DEF IInv, AnnouncedIsOwn
    <2> QED
        BY <2>1 DEF IInv, OneWalletPerPhone
<1> QED
    BY <1>1, Invariance, PTL

=============================================================================

--------------------------- MODULE BillingProofs ---------------------------
(***************************************************************************)
(* The safety of the money, for any number of users, contracts and         *)
(* handlers.  The invariants, each resting on those before it:             *)
(*                                                                         *)
(*   MoneyInv    what the handlers and the runner hold are amounts, of     *)
(*               users and contracts that there are;                       *)
(*   PostInv     one request posts a contract, and until it has inserted   *)
(*               it nobody lists or pays it;                               *)
(*   AmountInv, PayInv  what is paid and left of a fee, next to the time:  *)
(*               NotPaidAhead, and with RestOfTypes TypeCorrect;           *)
(*   DebtInv     what will be written is not negative, whatever was        *)
(*               written meanwhile, unless it is of the provider of a      *)
(*               contract with a negative fee: BalancesStayPositive;       *)
(*   FreshInv    a document that two never held at once is as it was read; *)
(*   ExplainInv  the balance is what was recorded and what is still to be: *)
(*               StatementsExplain;                                        *)
(*   SolventInv  what is owed, next to what came in: MoneyIsCovered.       *)
(***************************************************************************)
EXTENDS Billing, DataLemmas, SequenceTheorems, TLAPS

\* The places of a handler that holds a contract.
HoldsContract == {"debitFee", "insertPayment", "insertContract"}

\* A handler knows whose document it holds, and which contract.
Covers(j) ==
    /\ j.pc \in HoldsDocument => j.user \in Users
    /\ j.pc \in HoldsContract => j.contract \in Contracts

Balances == balance \in [Users -> Int]

JobInv ==
    /\ job \in [Handlers -> Job]
    /\ \A h \in Handlers : Covers(job[h])

RunnerInv ==
    /\ contracts \in Seq(Contracts)
    /\ payment \in [Contracts -> Payment]
    /\ runner \in Runner
    /\ runner.pc # "waiting" => runner.todo # <<>>

MoneyInv == Balances /\ JobInv /\ RunnerInv

-----------------------------------------------------------------------------
(***************************************************************************)
(* What the ways to change a handler's state do.                           *)
(***************************************************************************)
\* A handler that gets a new state of its type.
LEMMA NewJob ==
    ASSUME JobInv, NEW h \in Handlers, NEW j \in Job, Covers(j),
           job' = [job EXCEPT ![h] = j]
    PROVE  JobInv'
  BY DEF JobInv, Covers

\* A handler that returns holds nothing.
LEMMA ReturnJob ==
    ASSUME JobInv, NEW h \in Handlers, Return(h)
    PROVE  JobInv'
<1>1. Idle \in Job /\ Covers(Idle)
    BY DEF Idle, Job, Covers, HoldsDocument, HoldsContract
<1>2. job' = [job EXCEPT ![h] = Idle]
    BY DEF Return
<1>3. QED
    BY <1>1, <1>2, NewJob

\* A handler that goes on with what it holds, or drops it.
LEMMA GotoJob ==
    ASSUME JobInv, NEW h \in Handlers,
           NEW label \in HoldsDocument \cup HoldsContract \cup {"record"}, Goto(h, label),
           label \in HoldsDocument => job[h].pc \in HoldsDocument,
           label \in HoldsContract => job[h].pc \in HoldsContract
    PROVE  JobInv'
<1> DEFINE j == [job[h] EXCEPT !.pc = label]
<1>1. job[h] \in Job /\ Covers(job[h])
    BY DEF JobInv
<1>2. j \in Job
    BY <1>1 DEF Job, HoldsDocument, HoldsContract
<1>3. /\ j.pc = label /\ j.user = job[h].user /\ j.contract = job[h].contract
      /\ j.read = job[h].read /\ j.amount = job[h].amount
    BY <1>1 DEF Job
<1>4. Covers(j)
    BY <1>1, <1>3 DEF Covers
<1>5. job' = [job EXCEPT ![h] = j]
    BY DEF Goto
<1>6. QED
    BY <1>2, <1>4, <1>5, NewJob

\* A handler that reads a document.
LEMMA ReadJob ==
    ASSUME Balances, JobInv, NEW h \in Handlers, NEW u \in Users,
           NEW label \in HoldsDocument, NEW c \in Contracts \cup {NoContract}, NEW n \in Int,
           label \in HoldsContract => c \in Contracts,
           Read(h, u, label, c, n)
    PROVE  JobInv'
<1> DEFINE j == [pc |-> label, user |-> u, contract |-> c, read |-> balance[u], amount |-> n]
<1>1. j \in Job
    BY DEF Balances, Job
<1>2. Covers(j)
    BY DEF Covers
<1>3. job' = [job EXCEPT ![h] = j]
    BY DEF Read
<1>4. QED
    BY <1>1, <1>2, <1>3, NewJob

\* A handler that writes its document back.
LEMMA WriteJob ==
    ASSUME Balances, JobInv, NEW h \in Handlers, NEW label \in HoldsDocument,
           NEW next \in HoldsContract \cup {"record"}, next \notin HoldsDocument,
           next \in HoldsContract => label \in HoldsContract,
           Write(h, label, next)
    PROVE  Balances' /\ JobInv'
<1>1. /\ job[h].pc = label /\ Goto(h, next)
      /\ balance' = [balance EXCEPT ![job[h].user] = job[h].read + job[h].amount]
    BY DEF Write, WriteAmount
<1>2. JobInv'
    BY <1>1, GotoJob
<1>3. job[h].read + job[h].amount \in Int
    BY <1>1 DEF JobInv, Job, Covers
<1>4. QED
    BY <1>1, <1>2, <1>3 DEF Balances

-----------------------------------------------------------------------------
(***************************************************************************)
(* The payment runner.                                                     *)
(***************************************************************************)
\* The contract the runner is at, and its provider.
LEMMA AtContract ==
    ASSUME RunnerInv, runner.pc # "waiting"
    PROVE  /\ Head(runner.todo) \in Contracts
           /\ Tail(runner.todo) \in Seq(Contracts)
           /\ Payee \in Users
  BY BillingAssumption DEF RunnerInv, Runner, Payee, Users

\* The runner at the start of a list.
LEMMA StartedRunner ==
    ASSUME NEW todo \in Seq(Contracts), NEW next,
           next = [Waiting EXCEPT !.pc = "next", !.todo = todo]
    PROVE  next \in Runner /\ next.todo = todo
<1>1. next = [pc |-> "next", todo |-> todo, read |-> 0, amount |-> 0]
    BY DEF Waiting
<1> QED
    BY <1>1 DEF Runner

\* The runner between two runs, and at the start of a list.
LEMMA NextRunner ==
    ASSUME NEW todo \in Seq(Contracts)
    PROVE  LET next == NextContract(todo)
           IN  next \in Runner /\ (next.pc # "waiting" => next.todo # <<>>)
<1>1. CASE todo = <<>>
    BY <1>1 DEF NextContract, Waiting, Runner
<1>2. CASE todo # <<>>
    BY <1>2, StartedRunner DEF NextContract
<1> QED
    BY <1>1, <1>2

\* The runner at another place of the same list.
LEMMA MoveRunner ==
    ASSUME runner \in Runner, runner.todo # <<>>,
           NEW label \in {"next", "crediting", "settling", "recording"},
           NEW read \in Int, NEW amount \in Int,
           runner' = [runner EXCEPT !.pc = label, !.read = read, !.amount = amount]
    PROVE  runner' \in Runner /\ runner'.todo # <<>>
<1>1. runner' = [pc |-> label, todo |-> runner.todo, read |-> read, amount |-> amount]
    BY DEF Runner
<1>2. QED
    BY <1>1 DEF Runner

\* The runner that only goes on.
LEMMA GotoRunner ==
    ASSUME runner \in Runner, runner.todo # <<>>,
           NEW label \in {"next", "crediting", "settling", "recording"},
           runner' = [runner EXCEPT !.pc = label]
    PROVE  runner' \in Runner /\ runner'.todo # <<>>
<1>1. runner' = [pc |-> label, todo |-> runner.todo,
                 read |-> runner.read, amount |-> runner.amount]
    BY DEF Runner
<1>2. QED
    BY <1>1 DEF Runner

\* The runner between two runs.
LEMMA WaitingRunner == Waiting \in Runner /\ Waiting.pc = "waiting"
  BY DEF Waiting, Runner

\* The payment of a contract at its start, and before it.
LEMMA NewPaymentType ==
    ASSUME NEW c \in Contracts
    PROVE  NewPayment(c) \in Payment /\ NoPayment \in Payment
<1>1. Fee[c] \in Int /\ 0 \in 0..MaxAge
    BY BillingAssumption
<1>2. QED
    BY <1>1 DEF NewPayment, NoPayment, Payment

\* The payment after a share of it was paid.
LEMMA SettledType ==
    ASSUME NEW q \in Payment, NEW n \in Int, NEW p, p = [q EXCEPT !.left = n, !.age = 0]
    PROVE  p \in Payment
<1>1. p = [left |-> n, age |-> 0, elapsed |-> q.elapsed]
    BY DEF Payment
<1>2. 0 \in 0..MaxAge /\ q.elapsed \in 0..MaxAge
    BY BillingAssumption DEF Payment
<1>3. QED
    BY <1>1, <1>2 DEF Payment

\* A share of a fee is a number.
LEMMA DueType ==
    ASSUME RunnerInv, NEW c \in Contracts
    PROVE  Due(c) \in Int
<1>1. payment[c].age \in Nat /\ Fee[c] \in Int /\ Duration \in Nat \ {0}
    BY BillingAssumption DEF RunnerInv, Payment
<1>2. PICK share \in Int : share = payment[c].age * Fee[c]
    BY <1>1
<1>3. share \div Duration \in Int
    BY <1>1, <1>2
<1>5. (-share) \div Duration \in Int
  <2>1. PICK n \in Int : n = -share
    BY <1>2
  <2>2. QED
    BY <1>1, <2>1
<1>4. QED
    BY <1>2, <1>3, <1>5 DEF Due

\* A step of the runner.
LEMMA RunnerStep == MoneyInv /\ PaymentRunner => MoneyInv'
<1> SUFFICES ASSUME MoneyInv, PaymentRunner
             PROVE  MoneyInv'
    OBVIOUS
<1> USE DEF accounts, counts, history
<1>0. Balances /\ JobInv /\ RunnerInv
    BY DEF MoneyInv
<1>1. CASE RunPayments
  <2>1. runner' = [Waiting EXCEPT !.pc = "next", !.todo = contracts]
        /\ contracts # <<>> /\ contracts \in Seq(Contracts)
    BY <1>0, <1>1 DEF RunPayments, RunnerInv
  <2>2. runner' \in Runner /\ runner'.todo # <<>>
    BY <2>1, StartedRunner
  <2>3. QED
    BY <1>0, <1>1, <2>2 DEF RunPayments, MoneyInv, Balances, JobInv, RunnerInv
<1>2. CASE SkipPayment
  <2>1. Tail(runner.todo) \in Seq(Contracts)
    BY <1>0, <1>2, AtContract DEF SkipPayment
  <2>2. runner' \in Runner /\ (runner'.pc # "waiting" => runner'.todo # <<>>)
    BY <1>2, <2>1, NextRunner DEF SkipPayment
  <2>3. QED
    BY <1>0, <1>2, <2>2 DEF SkipPayment, MoneyInv, Balances, JobInv, RunnerInv
<1>3. CASE FindPayee
  <2> DEFINE c == Head(runner.todo)
             amount == Capped(Due(c), payment[c].left)
  <2>1. c \in Contracts /\ Payee \in Users /\ runner \in Runner /\ runner.todo # <<>>
    BY <1>0, <1>3, AtContract DEF FindPayee, FindPayeeFor, RunnerInv
  <2>2. payment[c].left \in Int /\ Due(c) \in Int
    BY <1>0, <1>3, <2>1, DueType DEF FindPayee, FindPayeeFor, RunnerInv, Payment
  <2>3. amount \in Int
    BY <2>2 DEF Capped
  <2>4. balance[Payee] \in Int
    BY <1>0, <2>1 DEF Balances
  <2>5. \/ runner' = Waiting
        \/ runner' = [runner EXCEPT !.pc = "crediting", !.read = balance[Payee],
                                    !.amount = amount]
    BY <1>3 DEF FindPayee, FindPayeeFor
  <2> HIDE DEF c, amount
  <2>6. runner' \in Runner /\ (runner'.pc # "waiting" => runner'.todo # <<>>)
    BY <2>1, <2>3, <2>4, <2>5, WaitingRunner, MoveRunner
  <2>7. UNCHANGED <<balance, contracts, payment, job>>
    BY <1>3 DEF FindPayee, FindPayeeFor
  <2>8. QED
    BY <1>0, <2>6, <2>7 DEF MoneyInv, Balances, JobInv, RunnerInv
<1>4. CASE CreditProvider
  <2>1. runner \in Runner /\ runner.todo # <<>> /\ runner.read + runner.amount \in Int
    BY <1>0, <1>4 DEF CreditProvider, RunnerInv, Runner
  <2>2. runner' = Waiting \/ runner' = [runner EXCEPT !.pc = "settling"]
    BY <1>4 DEF CreditProvider
  <2>3. runner' \in Runner /\ (runner'.pc # "waiting" => runner'.todo # <<>>)
    BY <2>1, <2>2, WaitingRunner, GotoRunner
  <2>4. Balances'
    BY <1>0, <1>4, <2>1 DEF CreditProvider, Balances
  <2>5. QED
    BY <1>0, <1>4, <2>3, <2>4 DEF CreditProvider, MoneyInv, JobInv, RunnerInv
<1>5. CASE SettlePayment
  <2>1. Head(runner.todo) \in Contracts /\ runner \in Runner /\ runner.todo # <<>>
    BY <1>0, <1>5, AtContract DEF SettlePayment, SettleAt, RunnerInv
  <2>2. runner' \in Runner /\ runner'.todo # <<>>
    BY <1>5, <2>1, GotoRunner DEF SettlePayment, SettleAt
  <2> DEFINE c == Head(runner.todo)
             p == [payment[c] EXCEPT !.left = @ - runner.amount, !.age = 0]
  <2>3. payment' = [payment EXCEPT ![c] = p]
    BY <1>5 DEF SettlePayment, SettleAt
  <2>4. payment[c] \in Payment /\ payment[c].left - runner.amount \in Int
    BY <1>0, <2>1 DEF RunnerInv, Runner, Payment
  <2>5. p \in Payment
    BY <2>4, SettledType
  <2>6. payment' \in [Contracts -> Payment]
    BY <1>0, <2>1, <2>3, <2>5 DEF RunnerInv
  <2>7. QED
    BY <1>0, <1>5, <2>2, <2>6 DEF SettlePayment, SettleAt, MoneyInv, Balances, JobInv, RunnerInv
<1>6. CASE RecordReceipt
  <2>1. Tail(runner.todo) \in Seq(Contracts)
    BY <1>0, <1>6, AtContract DEF RecordReceipt
  <2>2. runner' \in Runner /\ (runner'.pc # "waiting" => runner'.todo # <<>>)
    BY <1>6, <2>1, NextRunner DEF RecordReceipt
  <2>3. QED
    BY <1>0, <1>6, <2>2 DEF RecordReceipt, MoneyInv, Balances, JobInv, RunnerInv
<1>7. QED
    BY <1>1, <1>2, <1>3, <1>4, <1>5, <1>6 DEF PaymentRunner

-----------------------------------------------------------------------------
(***************************************************************************)
(* The handlers.                                                           *)
(***************************************************************************)
\* A step that only moves a handler, and the history.
LEMMA HandlerMoves ==
    ASSUME MoneyInv, Balances', JobInv', UNCHANGED <<contracts, payment, runner>>
    PROVE  MoneyInv'
  BY DEF MoneyInv, RunnerInv

\* A request that MaxRequests counts starts.
LEMMA AskStep ==
    ASSUME MoneyInv, NEW h \in Handlers, NEW u \in Users, NEW label \in HoldsDocument,
           label \notin HoldsContract, NEW n \in Int,
           Ask(h, u, label, n)
    PROVE  MoneyInv'
<1>1. Read(h, u, label, NoContract, n) /\ Balances /\ JobInv
    BY DEF Ask, MoneyInv
<1>2. JobInv'
    BY <1>1, ReadJob
<1>3. UNCHANGED <<balance, contracts, payment, runner>>
    BY DEF Ask, accounts
<1>4. Balances'
    BY <1>1, <1>3 DEF Balances
<1>5. QED
    BY <1>2, <1>3, <1>4, HandlerMoves

\* A step of a handler.
LEMMA HandlerStep == MoneyInv /\ (\E h \in Handlers : Handler(h)) => MoneyInv'
<1> SUFFICES ASSUME MoneyInv, NEW h \in Handlers, Handler(h)
             PROVE  MoneyInv'
    OBVIOUS
<1> USE DEF accounts, counts, history
<1>0. Balances /\ JobInv /\ RunnerInv
    BY DEF MoneyInv
<1>1. ASSUME NEW c \in Contracts, PostContract(h, c)
      PROVE  MoneyInv'
  <2>1. RenterOf[c] \in Users /\ Fee[c] \in Int
    BY BillingAssumption DEF Users
  <2>2. -Fee[c] \in Int
    BY <2>1
  <2>3. Read(h, RenterOf[c], "debitFee", c, -Fee[c])
    BY <1>1 DEF PostContract
  <2>4. JobInv'
    BY <1>0, <2>1, <2>2, <2>3, ReadJob DEF HoldsDocument
  <2>5. QED
    BY <1>0, <1>1, <2>4, HandlerMoves DEF PostContract, Balances
<1>2. CASE DebitFee(h)
  <2>1. Balances' /\ JobInv'
    BY <1>0, <1>2, WriteJob DEF DebitFee, HoldsDocument, HoldsContract
  <2>2. QED
    BY <1>2, <2>1, HandlerMoves DEF DebitFee, Write, WriteAmount
<1>3. CASE InsertPayment(h)
  <2>1. JobInv'
    BY <1>0, <1>3, GotoJob DEF InsertPayment, HoldsDocument, HoldsContract
  <2>2. job[h].contract \in Contracts
    BY <1>0, <1>3 DEF InsertPayment, JobInv, Covers, HoldsContract
  <2>3. NewPayment(job[h].contract) \in Payment
    BY <2>2, NewPaymentType
  <2>4. payment' \in [Contracts -> Payment]
    BY <1>0, <1>3, <2>3 DEF InsertPayment, RunnerInv
  <2>5. QED
    BY <1>0, <1>3, <2>1, <2>4 DEF InsertPayment, MoneyInv, Balances, RunnerInv
<1>4. CASE InsertContract(h)
  <2>1. JobInv'
    BY <1>0, <1>4, GotoJob DEF InsertContract, HoldsDocument, HoldsContract
  <2>2. job[h].contract \in Contracts
    BY <1>0, <1>4 DEF InsertContract, JobInv, Covers, HoldsContract
  <2>3. contracts' \in Seq(Contracts)
    BY <1>0, <1>4, <2>2 DEF InsertContract, RunnerInv
  <2>4. QED
    BY <1>0, <1>4, <2>1, <2>3 DEF InsertContract, MoneyInv, Balances, RunnerInv
<1>5. CASE Record(h)
    BY <1>0, <1>5, ReturnJob, HandlerMoves DEF Record, Balances
<1>6. ASSUME NEW r \in Renters, NEW cents \in Cents, Deposit(h, r, cents)
      PROVE  MoneyInv'
  <2>1. r \in Users /\ cents \in Nat
    BY BillingAssumption DEF Users
  <2>2. 10 * Formatted(cents) \in Int
    BY <2>1 DEF Formatted
  <2>3. QED
    BY <1>6, <2>1, <2>2, AskStep DEF Deposit, HoldsDocument, HoldsContract
<1>7. CASE Execute(h)
  <2>1. JobInv'
    BY <1>0, <1>7, GotoJob, ReturnJob DEF Execute, HoldsDocument, HoldsContract
  <2>2. QED
    BY <1>0, <1>7, <2>1, HandlerMoves DEF Execute, Balances
<1>8. CASE Credit(h)
  <2>1. Balances' /\ JobInv'
    BY <1>0, <1>8, WriteJob DEF Credit, HoldsDocument, HoldsContract
  <2>2. QED
    BY <1>8, <2>1, HandlerMoves DEF Credit, Write, WriteAmount
<1>9. ASSUME NEW u \in Users, NEW cents \in Cents, Withdraw(h, u, cents)
      PROVE  MoneyInv'
  <2>1. cents \in Nat
    BY BillingAssumption
  <2>2. -(10 * cents) \in Int
    BY <2>1
  <2>3. QED
    BY <1>9, <2>2, AskStep DEF Withdraw, HoldsDocument, HoldsContract
<1>10. CASE Payout(h)
  <2>1. JobInv'
    BY <1>0, <1>10, GotoJob, ReturnJob DEF Payout, HoldsDocument, HoldsContract
  <2>2. QED
    BY <1>0, <1>10, <2>1, HandlerMoves DEF Payout, Balances
<1>11. CASE Debit(h)
  <2>1. Balances' /\ JobInv'
    BY <1>0, <1>11, WriteJob DEF Debit, HoldsDocument, HoldsContract
  <2>2. QED
    BY <1>11, <2>1, HandlerMoves DEF Debit, Write, WriteAmount
<1>12. ASSUME NEW u \in Users, PutUser(h, u)
       PROVE  MoneyInv'
  <2>1. 0 \in Int
    OBVIOUS
  <2>2. QED
    BY <1>12, <2>1, AskStep DEF PutUser, HoldsDocument, HoldsContract
<1>13. CASE UpdateUser(h)
  <2>1. job[h].read \in Int
    BY <1>0 DEF JobInv, Job
  <2>2. Balances' /\ JobInv'
    BY <1>0, <1>13, <2>1, ReturnJob DEF UpdateUser, Balances
  <2>3. QED
    BY <1>13, <2>2, HandlerMoves DEF UpdateUser
<1>14. CASE FailHandler(h)
    BY <1>0, <1>14, ReturnJob, HandlerMoves DEF FailHandler, Balances
<1>15. QED
    BY <1>1, <1>2, <1>3, <1>4, <1>5, <1>6, <1>7, <1>8, <1>9, <1>10, <1>11,
       <1>12, <1>13, <1>14 DEF Handler

\* A contract that is deleted leaves a shorter list.
LEMMA DeleteStep ==
    ASSUME MoneyInv, NEW i \in DOMAIN contracts, DeleteContract(i)
    PROVE  MoneyInv'
<1>1. contracts \in Seq(Contracts) /\ i \in 1..Len(contracts)
    BY DEF MoneyInv, RunnerInv
<1>2. RemoveAt(contracts, i) \in Seq(Contracts)
    BY <1>1 DEF RemoveAt
<1>3. QED
    BY <1>2 DEF DeleteContract, accounts, history, MoneyInv, Balances, JobInv, RunnerInv

\* Every step keeps the invariant.
LEMMA MoneyInvStep == MoneyInv /\ [Next]_vars => MoneyInv'
<1> SUFFICES ASSUME MoneyInv, [Next]_vars
             PROVE  MoneyInv'
    OBVIOUS
<1> USE DEF accounts, counts, history
<1>0. Balances /\ JobInv /\ RunnerInv
    BY DEF MoneyInv
<1>1. CASE \E h \in Handlers : Handler(h)
    BY <1>1, HandlerStep
<1>2. CASE \E i \in DOMAIN contracts : DeleteContract(i)
    BY <1>2, DeleteStep
<1>3. ASSUME NEW u \in Users, DeleteUser(u)
      PROVE  MoneyInv'
    BY <1>0, <1>3, HandlerMoves DEF DeleteUser, Balances, JobInv
<1>4. CASE PaymentRunner
    BY <1>4, RunnerStep
<1>5. CASE FailRunner
    BY <1>0, <1>5, WaitingRunner DEF FailRunner, MoneyInv, Balances, JobInv, RunnerInv
<1>6. CASE Tick
  <2>1. \A n \in 0..MaxAge : Capped(n + 1, MaxAge) \in 0..MaxAge
    BY BillingAssumption DEF Capped
  <2>2. ASSUME NEW c \in Contracts
        PROVE  [payment[c] EXCEPT !.age = Capped(@ + 1, MaxAge),
                                  !.elapsed = Capped(@ + 1, MaxAge)] \in Payment
    <3>1. payment[c] \in Payment
      BY <1>0 DEF RunnerInv
    <3>2. QED
      BY <2>1, <3>1 DEF Payment
  <2>3. payment' \in [Contracts -> Payment]
    BY <1>0, <1>6, <2>2 DEF Tick, RunnerInv
  <2>4. QED
    BY <1>0, <1>6, <2>3 DEF Tick, MoneyInv, Balances, JobInv, RunnerInv
<1>7. CASE Crash
  <2>1. Idle \in Job /\ Covers(Idle)
    BY DEF Idle, Job, Covers, HoldsDocument, HoldsContract
  <2>2. job' \in [Handlers -> Job] /\ \A h \in Handlers : job'[h] = Idle
    BY <1>7, <2>1 DEF Crash
  <2>3. JobInv'
    BY <2>1, <2>2 DEF JobInv, Covers
  <2>4. QED
    BY <1>0, <1>7, <2>3, WaitingRunner DEF Crash, MoneyInv, Balances, RunnerInv
<1>8. CASE UNCHANGED vars
    BY <1>0, <1>8 DEF vars, MoneyInv, Balances, JobInv, RunnerInv
<1>9. QED
    BY <1>1, <1>2, <1>3, <1>4, <1>5, <1>6, <1>7, <1>8 DEF Next

\* It holds at first.
LEMMA MoneyInvInit == Init => MoneyInv
<1> SUFFICES ASSUME Init
             PROVE  MoneyInv
    OBVIOUS
<1>1. Balances
    BY BillingAssumption DEF Init, Balances
<1>2. JobInv
    BY DEF Init, JobInv, Idle, Job, Covers, HoldsDocument, HoldsContract
<1>3. payment \in [Contracts -> Payment]
    BY NewPaymentType DEF Init
<1> QED
    BY <1>1, <1>2, <1>3, BillingAssumption, WaitingRunner DEF Init, MoneyInv, RunnerInv

-----------------------------------------------------------------------------
(***************************************************************************)
(* A contract is posted by one request at most, and is not in the lists,   *)
(* nor paid, before that request has inserted it.                          *)
(***************************************************************************)
Unposted(c) == payment[c] = NoPayment /\ paid[c] = 0

Posts(h, c) == job[h].pc \in HoldsContract /\ job[h].contract = c

\* The request that posts c is alone with it.
Posting(h, c) ==
    /\ c \in tried
    /\ ~InList(contracts, c) /\ ~InList(runner.todo, c)
    /\ job[h].pc # "insertContract" => Unposted(c)

PostInv ==
    /\ tried \subseteq Contracts
    /\ IsInjective(contracts)
    /\ \A c \in Contracts : InList(contracts, c) \/ InList(runner.todo, c) => c \in tried
    /\ \A h \in Handlers, c \in Contracts : Posts(h, c) => Posting(h, c)
    /\ \A h, g \in Handlers, c \in Contracts : Posts(h, c) /\ Posts(g, c) => h = g
    /\ \A c \in Contracts \ tried : Unposted(c)

(***************************************************************************)
(* What the handlers do to their own state, and to no other's.             *)
(***************************************************************************)
OthersStay(h) == \A g \in Handlers \ {h} : job'[g] = job[g]

\* A handler that goes on keeps its request.
LEMMA GotoOn ==
    ASSUME JobInv, NEW h \in Handlers, NEW label, Goto(h, label)
    PROVE  /\ OthersStay(h) /\ job'[h].pc = label /\ job'[h].user = job[h].user
           /\ job'[h].contract = job[h].contract
           /\ job'[h].read = job[h].read /\ job'[h].amount = job[h].amount
<1>1. job \in [Handlers -> Job] /\ job[h] \in Job
    BY DEF JobInv
<1>2. job'[h] = [job[h] EXCEPT !.pc = label] /\ OthersStay(h)
    BY <1>1 DEF Goto, OthersStay
<1> QED
    BY <1>1, <1>2 DEF Job

\* A handler that returns drops its request.
LEMMA ReturnOn ==
    ASSUME JobInv, NEW h \in Handlers, Return(h)
    PROVE  OthersStay(h) /\ job'[h] = Idle
BY DEF JobInv, Return, OthersStay

\* A handler that reads a document takes up a request.
LEMMA ReadOn ==
    ASSUME JobInv, NEW h \in Handlers, NEW u, NEW label, NEW c, NEW n, Read(h, u, label, c, n)
    PROVE  /\ OthersStay(h)
           /\ job'[h] = [pc |-> label, user |-> u, contract |-> c,
                         read |-> balance[u], amount |-> n]
BY DEF JobInv, Read, OthersStay

\* A step that posts nothing and lists nothing new.
LEMMA PostKeeps ==
    ASSUME PostInv, MoneyInv', tried' = tried, IsInjective(contracts'),
           \A c \in Contracts : InList(contracts', c) => InList(contracts, c),
           \A c \in Contracts : InList(runner'.todo, c)
                                  => InList(runner.todo, c) \/ InList(contracts, c),
           \A h \in Handlers, c \in Contracts : Posts(h, c)' =>
               Posts(h, c) /\ (job[h].pc = "insertContract" => job'[h].pc = "insertContract"),
           \A c \in Contracts : Unposted(c) => Unposted(c)' \/ InList(runner.todo, c)
    PROVE  PostInv'
<1>1. \A c \in Contracts : InList(contracts', c) \/ InList(runner'.todo, c) => c \in tried'
    BY DEF PostInv
<1>2. ASSUME NEW h \in Handlers, NEW c \in Contracts, Posts(h, c)'  PROVE  Posting(h, c)'
    BY <1>2 DEF PostInv, Posting
<1>3. \A h, g \in Handlers, c \in Contracts : Posts(h, c)' /\ Posts(g, c)' => h = g
    BY DEF PostInv
<1>4. \A c \in Contracts \ tried' : Unposted(c)'
    BY DEF PostInv
<1> QED
    BY <1>1, <1>2, <1>3, <1>4 DEF PostInv

\* A contract is posted at most once.
LEMMA PostStep ==
    ASSUME PostInv, MoneyInv, MoneyInv', NEW h \in Handlers, NEW c \in Contracts,
           PostContract(h, c)
    PROVE  PostInv'
<1> USE DEF accounts, counts, history
<1>1. /\ OthersStay(h) /\ job'[h].pc = "debitFee" /\ job'[h].contract = c
      /\ c \notin tried /\ tried' = tried \cup {c}
      /\ UNCHANGED <<contracts, payment, paid, runner>>
  <2>1. Read(h, RenterOf[c], "debitFee", c, -Fee[c])
    BY DEF PostContract
  <2>2. /\ OthersStay(h)
        /\ job'[h] = [pc |-> "debitFee", user |-> RenterOf[c], contract |-> c,
                      read |-> balance[RenterOf[c]], amount |-> -Fee[c]]
    BY <2>1, ReadOn DEF MoneyInv
  <2> QED  BY <2>2 DEF PostContract
<1>2. \A g \in Handlers, d \in Contracts : Posts(g, d)' =>
         (g = h /\ d = c) \/ (g # h /\ Posts(g, d) /\ job'[g].pc = job[g].pc)
    BY <1>1 DEF Posts, OthersStay
<1>3. \A g \in Handlers : ~Posts(g, c)
    BY <1>1 DEF PostInv, Posting
<1>4. ~InList(contracts, c) /\ ~InList(runner.todo, c) /\ Unposted(c)
    BY <1>1 DEF PostInv
<1>5. \A g \in Handlers, d \in Contracts : Posts(g, d)' => Posting(g, d)'
    BY <1>1, <1>2, <1>3, <1>4 DEF PostInv, Posting, Unposted
<1>6. \A f, g \in Handlers, d \in Contracts : Posts(f, d)' /\ Posts(g, d)' => f = g
    BY <1>2, <1>3 DEF PostInv
<1> QED
    BY <1>1, <1>5, <1>6 DEF PostInv, Unposted

\* Its payment is inserted first,
LEMMA PaymentPosted ==
    ASSUME PostInv, MoneyInv, MoneyInv', NEW h \in Handlers, InsertPayment(h)
    PROVE  PostInv'
<1> USE DEF accounts, counts, history
<1> DEFINE c == job[h].contract
<1>1. /\ OthersStay(h) /\ job'[h].pc = "insertContract" /\ job'[h].contract = c
      /\ job[h].pc = "insertPayment" /\ c \in Contracts
      /\ payment' = [payment EXCEPT ![c] = NewPayment(c)]
      /\ UNCHANGED <<contracts, tried, paid, runner>>
    BY GotoOn DEF InsertPayment, MoneyInv, JobInv, Covers, HoldsContract
<1>2. Posts(h, c) /\ c \in tried
    BY <1>1 DEF Posts, HoldsContract, PostInv, Posting
<1>3. \A g \in Handlers, d \in Contracts : Posts(g, d)' =>
         Posts(g, d) /\ (g = h \/ (d # c /\ job'[g].pc = job[g].pc))
    BY <1>1, <1>2 DEF Posts, OthersStay, PostInv, HoldsContract
<1>4. \A d \in Contracts \ {c} : Unposted(d)' <=> Unposted(d)
    BY <1>1 DEF Unposted, MoneyInv, RunnerInv
<1>5. ASSUME NEW g \in Handlers, NEW d \in Contracts, Posts(g, d)'  PROVE  Posting(g, d)'
  <2>1. Posting(g, d)
    BY <1>3, <1>5 DEF PostInv
  <2>2. CASE g = h
    BY <1>1, <2>1, <2>2 DEF Posting
  <2>3. CASE g # h
    BY <1>1, <1>3, <1>4, <1>5, <2>1, <2>3 DEF Posting
  <2> QED  BY <2>2, <2>3
<1>6. \A f, g \in Handlers, d \in Contracts : Posts(f, d)' /\ Posts(g, d)' => f = g
    BY <1>3 DEF PostInv
<1> QED
    BY <1>1, <1>2, <1>4, <1>5, <1>6 DEF PostInv

\* and then it is listed.
LEMMA ContractPosted ==
    ASSUME PostInv, MoneyInv, MoneyInv', NEW h \in Handlers, InsertContract(h)
    PROVE  PostInv'
<1> USE DEF accounts, counts, history
<1> DEFINE c == job[h].contract
<1>1. /\ OthersStay(h) /\ job'[h].pc = "record"
      /\ job[h].pc = "insertContract" /\ c \in Contracts
      /\ contracts' = Append(contracts, c) /\ contracts \in Seq(Contracts)
      /\ UNCHANGED <<payment, tried, paid, runner>>
    BY GotoOn DEF InsertContract, MoneyInv, JobInv, Covers, HoldsContract, RunnerInv
<1>2. Posts(h, c) /\ Posting(h, c)
    BY <1>1 DEF Posts, HoldsContract, PostInv
<1>3. \A g \in Handlers, d \in Contracts : Posts(g, d)' =>
         g # h /\ d # c /\ Posts(g, d) /\ job'[g].pc = job[g].pc
    BY <1>1, <1>2 DEF Posts, OthersStay, PostInv, HoldsContract
<1>4. \A d \in Contracts : InList(contracts', d) => InList(contracts, d) \/ d = c
    BY <1>1, ShorterLists
<1>5. IsInjective(contracts')
    BY <1>1, <1>2, ShorterLists DEF PostInv, Posting
<1>6. \A d \in Contracts : Unposted(d)' <=> Unposted(d)
    BY <1>1 DEF Unposted
<1>7. ASSUME NEW g \in Handlers, NEW d \in Contracts, Posts(g, d)'  PROVE  Posting(g, d)'
    BY <1>1, <1>3, <1>4, <1>6, <1>7 DEF PostInv, Posting
<1>8. \A f, g \in Handlers, d \in Contracts : Posts(f, d)' /\ Posts(g, d)' => f = g
    BY <1>3 DEF PostInv
<1>9. \A d \in Contracts : InList(contracts', d) \/ InList(runner'.todo, d) => d \in tried'
    BY <1>1, <1>2, <1>4 DEF PostInv, Posting
<1> QED
    BY <1>1, <1>5, <1>6, <1>7, <1>8, <1>9 DEF PostInv

\* The other steps of a handler: they post nothing.
LEMMA PostElsewhere ==
    ASSUME PostInv, MoneyInv, MoneyInv', NEW h \in Handlers,
           UNCHANGED <<contracts, payment, tried, paid, runner>>,
           OthersStay(h),
           \A c \in Contracts : Posts(h, c)' =>
               Posts(h, c) /\ (job[h].pc = "insertContract" => job'[h].pc = "insertContract")
    PROVE  PostInv'
<1>1. \A g \in Handlers, c \in Contracts : Posts(g, c)' =>
         Posts(g, c) /\ (job[g].pc = "insertContract" => job'[g].pc = "insertContract")
    BY DEF OthersStay, Posts
<1>2. \A c \in Contracts : Unposted(c)' <=> Unposted(c)
    BY DEF Unposted
<1>3. IsInjective(contracts')
    BY DEF PostInv
<1> QED
    BY <1>1, <1>2, <1>3, PostKeeps

\* A handler's step keeps what is known of the contracts.
LEMMA HandlerPosts ==
    ASSUME PostInv, MoneyInv, MoneyInv', NEW h \in Handlers, Handler(h)
    PROVE  PostInv'
<1> USE DEF accounts, counts, history
<1>0. JobInv
    BY DEF MoneyInv
<1>1. ASSUME UNCHANGED <<contracts, payment, tried, paid, runner>>,
             NEW label \in HoldsDocument \cup {"record", "insertPayment"},
             label \in HoldsContract => label = "insertPayment" /\ job[h].pc = "debitFee",
             Goto(h, label)
      PROVE  PostInv'
  <2>1. OthersStay(h) /\ job'[h].pc = label /\ job'[h].contract = job[h].contract
    BY <1>0, <1>1, GotoOn
  <2>2. \A c \in Contracts : Posts(h, c)' => Posts(h, c) /\ job[h].pc # "insertContract"
    BY <1>1, <2>1 DEF Posts, HoldsContract, HoldsDocument
  <2> QED  BY <1>1, <2>1, <2>2, PostElsewhere
<1>2. ASSUME UNCHANGED <<contracts, payment, tried, paid, runner>>, Return(h)
      PROVE  PostInv'
  <2>1. OthersStay(h) /\ job'[h] = Idle
    BY <1>0, <1>2, ReturnOn
  <2>2. \A c \in Contracts : ~Posts(h, c)'
    BY <2>1 DEF Posts, Idle, HoldsContract
  <2> QED  BY <1>2, <2>1, <2>2, PostElsewhere
<1>3. ASSUME UNCHANGED <<contracts, payment, tried, paid, runner>>,
             NEW u, NEW label \in {"execute", "payout", "put"}, NEW n,
             Read(h, u, label, NoContract, n)
      PROVE  PostInv'
  <2>1. /\ OthersStay(h)
        /\ job'[h] = [pc |-> label, user |-> u, contract |-> NoContract,
                      read |-> balance[u], amount |-> n]
    BY <1>0, <1>3, ReadOn
  <2>2. \A c \in Contracts : ~Posts(h, c)'
    BY <2>1 DEF Posts, HoldsContract
  <2> QED  BY <1>3, <2>1, <2>2, PostElsewhere
<1>4. CASE DebitFee(h) \/ Credit(h) \/ Debit(h)
    BY <1>1, <1>4 DEF DebitFee, Credit, Debit, Write, WriteAmount, HoldsDocument, HoldsContract
<1>5. CASE Record(h) \/ UpdateUser(h) \/ FailHandler(h)
    BY <1>2, <1>5 DEF Record, UpdateUser, FailHandler
<1>6. CASE Execute(h) \/ Payout(h)
    BY <1>1, <1>2, <1>6 DEF Execute, Payout, HoldsDocument, HoldsContract
<1>7. ASSUME NEW u \in Users, NEW cents,
             Deposit(h, u, cents) \/ Withdraw(h, u, cents) \/ PutUser(h, u)
      PROVE  PostInv'
    BY <1>3, <1>7 DEF Deposit, Withdraw, PutUser, Ask
<1>8. Renters \subseteq Users
    BY DEF Users
<1> QED
    BY <1>4, <1>5, <1>6, <1>7, <1>8, PostStep, PaymentPosted, ContractPosted DEF Handler

\* What was paid is an amount.
PaidType == paid \in [Contracts -> Int]

\* Only CreditProvider adds to it.
LEMMA PaidTypeStep == MoneyInv /\ PaidType /\ [Next]_vars => PaidType'
<1> SUFFICES ASSUME MoneyInv, PaidType, [Next]_vars
             PROVE  PaidType'
    OBVIOUS
<1>1. CASE CreditProvider
  <2>1. runner.amount \in Int /\ (paid' = paid \/
             paid' = [paid EXCEPT ![Head(runner.todo)] = @ + runner.amount])
    BY <1>1 DEF CreditProvider, MoneyInv, RunnerInv, Runner
  <2> QED  BY <2>1 DEF PaidType
<1>2. CASE paid' = paid
    BY <1>2 DEF PaidType
<1> QED
    BY <1>1, <1>2 DEF Next, Handler, vars, history, PostContract, DebitFee, InsertPayment,
       InsertContract, Record, Deposit, Execute, Credit, Withdraw, Payout, Debit, PutUser,
       UpdateUser, FailHandler, Ask, Write, WriteAmount, DeleteContract, DeleteUser,
       PaymentRunner, RunPayments, SkipPayment, FindPayee, FindPayeeFor, SettlePayment, SettleAt,
       RecordReceipt, FailRunner, Tick, Crash

\* The runner lists what is listed.
LEMMA RunnerPosts ==
    ASSUME PostInv, PaidType, MoneyInv, MoneyInv', PaymentRunner \/ FailRunner
    PROVE  PostInv'
<1> USE DEF accounts, counts, history
<1> DEFINE c == Head(runner.todo)
<1>0. RunnerInv /\ runner \in Runner /\ runner.todo \in Seq(Contracts)
    BY DEF MoneyInv, RunnerInv, Runner
<1>1. UNCHANGED <<contracts, tried, job>>
    BY DEF PaymentRunner, RunPayments, SkipPayment, FindPayee, FindPayeeFor, CreditProvider,
       SettlePayment, SettleAt, RecordReceipt, FailRunner
<1>2. IsInjective(contracts') /\ \A d \in Contracts : InList(contracts', d) => InList(contracts, d)
    BY <1>1 DEF PostInv
<1>3. \A d : ~InList(Waiting.todo, d)
    BY DEF InList, Waiting
<1>4. \A d \in Contracts : InList(runner'.todo, d) => InList(runner.todo, d) \/ InList(contracts, d)
  <2>1. CASE runner' = Waiting
    BY <1>3, <2>1
  <2>2. CASE runner' = [Waiting EXCEPT !.pc = "next", !.todo = contracts]
    BY <2>2 DEF Waiting
  <2>3. CASE runner' = NextContract(Tail(runner.todo)) /\ runner.todo # <<>>
    <3>1. runner'.todo = <<>> \/ runner'.todo = Tail(runner.todo)
      BY <2>3 DEF NextContract, Waiting
    <3> QED  BY <1>0, <2>3, <3>1, ShorterLists
  <2>4. CASE runner'.todo = runner.todo
    BY <2>4
  <2>5. SkipPayment \/ RecordReceipt => runner.todo # <<>>
    BY <1>0 DEF SkipPayment, RecordReceipt, RunnerInv
  <2>6. FindPayee \/ CreditProvider \/ SettlePayment =>
           runner' = Waiting \/ runner'.todo = runner.todo
    BY <1>0 DEF FindPayee, FindPayeeFor, CreditProvider, SettlePayment, SettleAt, Runner
  <2> QED
    BY <2>1, <2>2, <2>3, <2>4, <2>5, <2>6 DEF PaymentRunner, RunPayments, SkipPayment,
       RecordReceipt, FailRunner
<1>5. \A h \in Handlers, d \in Contracts : Posts(h, d)' =>
         Posts(h, d) /\ (job[h].pc = "insertContract" => job'[h].pc = "insertContract")
    BY <1>1 DEF Posts
<1>6. \A d \in Contracts : Unposted(d) => Unposted(d)' \/ InList(runner.todo, d)
  <2>1. runner.pc # "waiting" => InList(runner.todo, c)
    BY <1>0, ShorterLists DEF RunnerInv
  <2>2. \A d \in Contracts \ {c} : payment'[d] = payment[d] /\ paid'[d] = paid[d]
    BY <1>0 DEF RunnerInv, PaidType, PaymentRunner, RunPayments, SkipPayment, FindPayee, FindPayeeFor, CreditProvider,
       SettlePayment, SettleAt, RecordReceipt, FailRunner
  <2>3. runner.pc = "waiting" => UNCHANGED <<payment, paid>>
    BY DEF PaymentRunner, RunPayments, SkipPayment, FindPayee, FindPayeeFor, CreditProvider,
       SettlePayment, SettleAt, RecordReceipt, FailRunner
  <2> QED  BY <2>1, <2>2, <2>3 DEF Unposted
<1> QED
    BY <1>1, <1>2, <1>4, <1>5, <1>6, PostKeeps

\* PostInv is inductive, next to MoneyInv.
LEMMA PostInvStep == MoneyInv /\ PaidType /\ PostInv /\ [Next]_vars => PostInv'
<1> SUFFICES ASSUME MoneyInv, PaidType, PostInv, [Next]_vars
             PROVE  PostInv'
    OBVIOUS
<1> USE DEF accounts, counts, history
<1>0. MoneyInv'
    BY MoneyInvStep
<1>1. ASSUME NEW i \in DOMAIN contracts, DeleteContract(i)  PROVE  PostInv'
  <2>1. contracts' = RemoveAt(contracts, i) /\ UNCHANGED <<payment, tried, job, runner, paid>>
    BY <1>1 DEF DeleteContract
  <2>2. contracts \in Seq(Contracts)
    BY DEF MoneyInv, RunnerInv
  <2>3. IsInjective(contracts') /\ \A c \in Contracts : InList(contracts', c) => InList(contracts, c)
    BY <2>1, <2>2, ShorterLists DEF PostInv
  <2> QED  BY <1>0, <2>1, <2>3, PostKeeps DEF Posts, Unposted
<1>2. ASSUME UNCHANGED <<contracts, payment, tried, paid, runner, job>>  PROVE  PostInv'
    BY <1>2 DEF PostInv, Posts, Posting, Unposted
<1>3. CASE Tick
  <2>1. \A c \in Contracts : Unposted(c) => Unposted(c)'
    <3>1. NoPayment.left = 0
      BY DEF NoPayment
    <3>2. \A c \in Contracts : payment[c].left = 0 => payment'[c] = payment[c]
      BY <1>3 DEF Tick
    <3>3. paid' = paid
      BY <1>3 DEF Tick
    <3> QED  BY <3>1, <3>2, <3>3 DEF Unposted
  <2>2. UNCHANGED <<contracts, tried, runner, job>> /\ IsInjective(contracts')
    BY <1>3 DEF Tick, PostInv
  <2> QED  BY <1>0, <2>1, <2>2, PostKeeps DEF Posts
<1>4. CASE Crash
  <2>1. UNCHANGED <<contracts, payment, tried, paid>> /\ IsInjective(contracts')
    BY <1>4 DEF Crash, PostInv
  <2>2. \A h \in Handlers, c \in Contracts : ~Posts(h, c)'
    BY <1>4 DEF Crash, Posts, Idle, HoldsContract
  <2>3. \A c : ~InList(runner'.todo, c)
    BY <1>4 DEF Crash, Waiting, InList
  <2> QED  BY <1>0, <2>1, <2>2, <2>3, PostKeeps DEF Unposted
<1> QED
    BY <1>0, <1>1, <1>2, <1>3, <1>4, HandlerPosts, RunnerPosts DEF Next, DeleteUser, vars

-----------------------------------------------------------------------------
(***************************************************************************)
(* What the runner pays for a contract, next to the time it was kept.      *)
(***************************************************************************)
\* What a handler will add to a balance: nothing for a fee but the fee, and
\* whole cents for PayPal.
Amounts(j) ==
    /\ j.pc \in {"debitFee", "insertPayment"} => j.amount = -Fee[j.contract]
    /\ j.pc \in {"execute", "credit"} => j.amount >= 0
    /\ j.pc = "put" => j.amount = 0
    /\ j.pc \in {"payout", "debit"} => \E cents \in Cents : j.amount = -(10 * cents)

AmountInv == \A h \in Handlers : Amounts(job[h])

\* What was credited to the provider of c and is not subtracted from c yet.
Paying(c) == IF runner.pc = "settling" /\ Head(runner.todo) = c THEN runner.amount ELSE 0

\* The contracts with a fee, or for nothing.
Priced == {c \in Contracts : Fee[c] >= 0}

\* Before the end of c, the share for the time since the last payment is still
\* ahead, unless it was just credited.
OnTime(c) ==
    /\ paid[c] + payment[c].left = Fee[c] + Paying(c)
    /\ payment[c].elapsed < Duration =>
          paid[c] * Duration + (IF Paying(c) > 0 THEN 0 ELSE payment[c].age * Fee[c])
             <= Fee[c] * payment[c].elapsed

\* What the runner has taken up to pay is due and is left.
RunnerAmount ==
    LET c == Head(runner.todo)
    IN  /\ runner.pc \in {"crediting", "settling"} /\ Fee[c] >= 0 =>
              runner.amount > 0 /\ runner.amount <= payment[c].left
        /\ runner.pc = "crediting" /\ Fee[c] >= 0 =>
              runner.amount * Duration <= payment[c].age * Fee[c]

PayInv ==
    /\ RunnerAmount
    /\ \A c \in Priced : payment[c].left >= 0
    /\ torn = 0 => \A c \in Priced : Unposted(c) \/ OnTime(c)

\* Nothing is left of a product by a larger number.
LEMMA TimesGrows ==
    ASSUME NEW a \in Nat, NEW b \in Nat, NEW k \in Nat, a <= b
    PROVE  a * k <= b * k /\ k * a <= k * b /\ a * k \in Nat
<1>1. b - a \in Nat /\ b = a + (b - a)
    OBVIOUS
<1>2. (b - a) * k >= 0
    BY <1>1
<1>3. b * k = a * k + (b - a) * k
    BY <1>1
<1> QED
    BY <1>2, <1>3

\* A share of an amount, multiplied again, is no more than the amount.
LEMMA SharesRoundDown ==
    ASSUME NEW a \in Nat, NEW d \in Nat \ {0}
    PROVE  (a \div d) * d <= a /\ a \div d \in Nat
OBVIOUS

\* The handlers know what they move.
LEMMA AmountStep == MoneyInv /\ AmountInv /\ [Next]_vars => AmountInv'
<1> SUFFICES ASSUME MoneyInv, AmountInv, [Next]_vars
             PROVE  AmountInv'
    OBVIOUS
<1> USE DEF accounts, counts, history
<1>0. JobInv
    BY DEF MoneyInv
<1>1. ASSUME NEW h \in Handlers, OthersStay(h), Amounts(job'[h])
      PROVE  AmountInv'
    BY <1>1 DEF AmountInv, OthersStay, Amounts
<1>2. ASSUME NEW h \in Handlers, NEW from, NEW to, job[h].pc = from, Goto(h, to),
             <<from, to>> \in {<<"debitFee", "insertPayment">>,
                 <<"insertPayment", "insertContract">>, <<"insertContract", "record">>,
                 <<"execute", "credit">>, <<"credit", "record">>,
                 <<"payout", "debit">>, <<"debit", "record">>}
      PROVE  AmountInv'
  <2>1. /\ OthersStay(h) /\ job'[h].pc = to /\ job'[h].contract = job[h].contract
        /\ job'[h].amount = job[h].amount
    BY <1>0, <1>2, GotoOn
  <2>2. Amounts(job[h])
    BY DEF AmountInv
  <2>3. Amounts(job'[h])
    BY <1>2, <2>1, <2>2 DEF Amounts
  <2> QED  BY <1>1, <2>1, <2>3
<1>3. ASSUME NEW h \in Handlers, Return(h)
      PROVE  AmountInv'
  <2>1. OthersStay(h) /\ job'[h] = Idle
    BY <1>0, <1>3, ReturnOn
  <2>2. Amounts(job'[h])
    BY <2>1 DEF Amounts, Idle
  <2> QED  BY <1>1, <2>1, <2>2
<1>4. ASSUME NEW h \in Handlers, NEW u, NEW label, NEW c, NEW n, Read(h, u, label, c, n),
             \/ label = "debitFee" /\ n = -Fee[c]
             \/ label = "execute" /\ n >= 0
             \/ label = "payout" /\ \E cents \in Cents : n = -(10 * cents)
             \/ label = "put" /\ n = 0
      PROVE  AmountInv'
  <2>0. OthersStay(h) /\ job'[h] = [pc |-> label, user |-> u, contract |-> c,
                                   read |-> balance[u], amount |-> n]
    BY <1>0, <1>4, ReadOn
  <2>1. /\ OthersStay(h) /\ job'[h].pc = label /\ job'[h].contract = c
        /\ job'[h].amount = n
    BY <2>0
  <2>2. Amounts(job'[h])
    BY <1>4, <2>1 DEF Amounts
  <2> QED  BY <1>1, <2>1, <2>2
<1>5. ASSUME NEW h \in Handlers, Handler(h)
      PROVE  AmountInv'
  <2>1. ASSUME NEW c \in Contracts, PostContract(h, c)  PROVE  AmountInv'
    BY <1>4, <2>1 DEF PostContract
  <2>2. ASSUME NEW r \in Renters, NEW cents \in Cents, Deposit(h, r, cents)  PROVE  AmountInv'
    <3>1. 10 * Formatted(cents) >= 0
      BY BillingAssumption DEF Formatted
    <3> QED  BY <1>4, <2>2, <3>1 DEF Deposit, Ask
  <2>3. ASSUME NEW u \in Users, NEW cents \in Cents, Withdraw(h, u, cents)  PROVE  AmountInv'
    BY <1>4, <2>3 DEF Withdraw, Ask
  <2>4. ASSUME NEW u \in Users, PutUser(h, u)  PROVE  AmountInv'
    BY <1>4, <2>4 DEF PutUser, Ask
  <2>5. CASE DebitFee(h) \/ InsertPayment(h) \/ InsertContract(h) \/ Credit(h) \/ Debit(h)
    BY <1>2, <2>5 DEF DebitFee, InsertPayment, InsertContract, Credit, Debit, Write, WriteAmount
  <2>6. CASE Execute(h) \/ Payout(h)
    BY <1>2, <1>3, <2>6 DEF Execute, Payout
  <2>7. CASE Record(h) \/ UpdateUser(h) \/ FailHandler(h)
    BY <1>3, <2>7 DEF Record, UpdateUser, FailHandler
  <2> QED
    BY <1>5, <2>1, <2>2, <2>3, <2>4, <2>5, <2>6, <2>7 DEF Handler
<1>6. CASE Crash
    BY <1>6 DEF Crash, AmountInv, Amounts, Idle
<1>7. CASE job' = job
    BY <1>7 DEF AmountInv
<1> QED
    BY <1>5, <1>6, <1>7 DEF Next, vars, DeleteContract, DeleteUser,
       PaymentRunner, RunPayments, SkipPayment, FindPayee, FindPayeeFor, CreditProvider,
       SettlePayment, SettleAt, RecordReceipt, FailRunner, Tick

\* What a handler has moved on one side only is an amount,
LEMMA TornType ==
    ASSUME MoneyInv, AmountInv
    PROVE  /\ \A h \in Handlers : TornBy(h) \in Nat
           /\ SumFunctionOnSet([h \in Handlers |-> TornBy(h)], Handlers) \in Nat
           /\ TornByRunner \in Nat
<1>1. ASSUME NEW h \in Handlers  PROVE  TornBy(h) \in Nat
  <2>1. Amounts(job[h])
    BY DEF AmountInv
  <2>2. ASSUME NEW cents \in Cents  PROVE  -(-(10 * cents)) \in Nat
    BY BillingAssumption
  <2> QED  BY <2>1, <2>2 DEF TornBy, Amounts
<1>2. SumFunctionOnSet([h \in Handlers |-> TornBy(h)], Handlers) \in Nat
    BY <1>1, SumType, BillingAssumption
<1>3. TornByRunner \in Nat
    BY DEF TornByRunner, MoneyInv, RunnerInv, Runner
<1> QED
    BY <1>1, <1>2, <1>3

\* and what was cut in two is never made good again.
LEMMA TornGrows ==
    ASSUME MoneyInv, AmountInv, torn \in Nat, [Next]_vars
    PROVE  /\ torn' \in Nat /\ torn <= torn'
           /\ FailRunner \/ Crash => torn + TornByRunner <= torn'
<1> USE DEF accounts, counts, history
<1> DEFINE all == SumFunctionOnSet([h \in Handlers |-> TornBy(h)], Handlers)
<1>0. all \in Nat /\ TornByRunner \in Nat /\ \A h \in Handlers : TornBy(h) \in Nat
    BY TornType
<1> HIDE DEF all
<1>1. CASE Crash
  <2>1. torn' = torn + all + TornByRunner
    BY <1>1 DEF Crash, all
  <2> QED  BY <1>0, <2>1
<1>2. CASE FailRunner
  <2>1. torn' = torn + TornByRunner
    BY <1>2 DEF FailRunner
  <2>2. ~Crash \/ Crash
    OBVIOUS
  <2> QED  BY <1>0, <1>1, <2>1
<1>3. ASSUME NEW h \in Handlers, FailHandler(h)  PROVE  torn' \in Nat /\ torn <= torn'
  <2>1. torn' = torn + TornBy(h)
    BY <1>3 DEF FailHandler
  <2> QED  BY <1>0, <2>1
<1>4. CASE torn' = torn
    BY <1>1, <1>2, <1>4
<1>5. torn' = torn \/ Crash \/ FailRunner \/ \E h \in Handlers : FailHandler(h)
    BY DEF Next, Handler, vars, PostContract, DebitFee, InsertPayment,
       InsertContract, Record, Deposit, Execute, Credit, Withdraw, Payout, Debit, PutUser,
       UpdateUser, FailHandler, Ask, Write, WriteAmount, DeleteContract, DeleteUser,
       PaymentRunner, RunPayments, SkipPayment, FindPayee, FindPayeeFor, CreditProvider,
       SettlePayment, SettleAt, RecordReceipt, Tick
<1> QED
    BY <1>1, <1>2, <1>3, <1>4, <1>5

\* A step that changes no payment, and leaves the runner where it pays nothing.
LEMMA PayKeeps ==
    ASSUME PayInv, torn \in Nat, torn' \in Nat, torn <= torn', UNCHANGED <<payment, paid>>,
           \/ runner' = runner
           \/ runner'.pc \notin {"crediting", "settling"}
                /\ (runner.pc = "settling" => Fee[Head(runner.todo)] < 0 \/ torn < torn')
    PROVE  PayInv'
<1>1. CASE runner' = runner
  <2>1. RunnerAmount'
    BY <1>1 DEF PayInv, RunnerAmount
  <2>2. \A c \in Priced : (Unposted(c)' <=> Unposted(c)) /\ (OnTime(c)' <=> OnTime(c))
    BY <1>1 DEF Unposted, OnTime, Paying
  <2>3. torn' = 0 => torn = 0
    OBVIOUS
  <2> QED  BY <2>1, <2>2, <2>3 DEF PayInv
<1>2. CASE /\ runner'.pc \notin {"crediting", "settling"}
           /\ runner.pc # "settling" \/ Fee[Head(runner.todo)] < 0
  <2>1. RunnerAmount'
    BY <1>2 DEF RunnerAmount
  <2>2. \A c \in Priced : Paying(c)' = Paying(c)
    <3>1. ASSUME Fee[Head(runner.todo)] < 0, NEW c \in Priced  PROVE  Head(runner.todo) # c
      <4>1. Fee[c] >= 0 /\ Fee[c] \in Int
        BY BillingAssumption DEF Priced
      <4> QED  BY <3>1, <4>1
    <3> QED  BY <1>2, <3>1 DEF Paying
  <2>3. \A c \in Priced : (Unposted(c)' <=> Unposted(c)) /\ (OnTime(c)' <=> OnTime(c))
    BY <2>2 DEF Unposted, OnTime
  <2>4. torn' = 0 => torn = 0
    OBVIOUS
  <2> QED  BY <2>1, <2>3, <2>4 DEF PayInv
<1>3. CASE runner'.pc \notin {"crediting", "settling"} /\ torn < torn'
    BY <1>3 DEF PayInv, RunnerAmount
<1> QED
    BY <1>1, <1>2, <1>3

\* A contract that is posted starts unpaid, with the whole fee left.
LEMMA PaymentStarts ==
    ASSUME PayInv, MoneyInv, PaidType, PostInv, NEW h \in Handlers, InsertPayment(h)
    PROVE  PayInv'
<1> USE DEF accounts, counts, history
<1> DEFINE p == Head(runner.todo)
<1>0. PICK c \in Contracts : c = job[h].contract
    BY DEF InsertPayment, MoneyInv, JobInv, Covers, HoldsContract
<1>1. /\ job[h].pc = "insertPayment" /\ Posts(h, c)
      /\ payment' = [payment EXCEPT ![c] = NewPayment(c)] /\ payment \in [Contracts -> Payment]
      /\ UNCHANGED <<runner, paid, torn>>
    BY <1>0 DEF InsertPayment, MoneyInv, RunnerInv, HoldsContract, Posts
<1>2. ~InList(runner.todo, c) /\ Unposted(c)
    BY <1>1 DEF PostInv, Posting
<1>3. runner.pc # "waiting" => p # c /\ p \in Contracts
    BY <1>2, ShorterLists, AtContract DEF MoneyInv, RunnerInv, Runner
<1>4. \A d \in Contracts \ {c} : payment'[d] = payment[d]
    BY <1>1
<1>5. RunnerAmount'
    BY <1>1, <1>3, <1>4 DEF PayInv, RunnerAmount
<1>6. payment'[c] = [left |-> Fee[c], age |-> 0, elapsed |-> 0] /\ Fee[c] \in Int
    BY <1>1, BillingAssumption DEF NewPayment
<1>7. \A d \in Contracts : Paying(d)' = Paying(d)
    BY <1>1 DEF Paying
<1>8. Paying(c) = 0
    BY <1>3 DEF Paying
<1>9. OnTime(c)'
  <2>1. paid'[c] = 0 /\ Duration \in Nat
    BY <1>1, <1>2, BillingAssumption DEF Unposted
  <2>2. payment'[c].left = Fee[c] /\ payment'[c].age = 0 /\ payment'[c].elapsed = 0
    BY <1>6
  <2>3. Paying(c)' = 0
    BY <1>1, <1>7, <1>8
  <2>4. 0 * Duration = 0 /\ 0 * Fee[c] = 0 /\ Fee[c] * 0 = 0 /\ Fee[c] \in Int
    BY <1>6, <2>1
  <2>5. paid'[c] + payment'[c].left = Fee[c] + Paying(c)'
    BY <2>1, <2>2, <2>3, <2>4
  <2>6. paid'[c] * Duration + (IF Paying(c)' > 0 THEN 0 ELSE payment'[c].age * Fee[c])
             <= Fee[c] * payment'[c].elapsed
    BY <2>1, <2>2, <2>3, <2>4
  <2> QED  BY <2>5, <2>6 DEF OnTime
<1>10. \A d \in Contracts \ {c} : (Unposted(d)' <=> Unposted(d)) /\ (OnTime(d)' <=> OnTime(d))
    BY <1>1, <1>4, <1>7 DEF Unposted, OnTime
<1>11. \A d \in Priced : payment'[d].left >= 0
    BY <1>4, <1>6 DEF PayInv, Priced
<1>12. ASSUME torn' = 0, NEW d \in Priced  PROVE  Unposted(d)' \/ OnTime(d)'
    BY <1>1, <1>9, <1>10, <1>12 DEF PayInv, Priced
<1> QED
    BY <1>5, <1>11, <1>12 DEF PayInv

\* Time adds as much to what is due as to what may be paid.
LEMMA TimePasses ==
    ASSUME PayInv, MoneyInv, PaidType, Tick
    PROVE  PayInv'
<1> USE DEF accounts, counts, history
<1>1. UNCHANGED <<runner, paid, torn>> /\ RunnerInv
    BY DEF Tick, MoneyInv
<1>2. ASSUME NEW c \in Contracts, payment[c].left # 0
      PROVE  /\ payment'[c].left = payment[c].left
             /\ payment'[c].age = Capped(payment[c].age + 1, MaxAge)
             /\ payment'[c].elapsed = Capped(payment[c].elapsed + 1, MaxAge)
  <2>1. payment[c] \in Payment
    BY <1>1 DEF RunnerInv
  <2>2. payment'[c] = [payment[c] EXCEPT !.age = Capped(@ + 1, MaxAge),
                                        !.elapsed = Capped(@ + 1, MaxAge)]
    BY <1>2 DEF Tick
  <2> QED  BY <2>1, <2>2 DEF Payment
<1>3. \A c \in Contracts : payment[c].left = 0 => payment'[c] = payment[c]
    BY DEF Tick
<1>4. \A c \in Contracts : /\ payment[c].age \in Nat /\ payment'[c].age \in Nat
                           /\ payment[c].elapsed \in Nat /\ payment'[c].elapsed \in Nat
                           /\ payment[c].left \in Int /\ payment'[c].left = payment[c].left
                           /\ payment[c].age <= payment'[c].age
                           /\ payment'[c].age <= payment[c].age + 1
                           /\ payment[c].elapsed <= payment'[c].elapsed
                           /\ payment[c].left # 0 /\ payment'[c].elapsed < Duration =>
                                 payment'[c].elapsed = payment[c].elapsed + 1
  <2> SUFFICES ASSUME NEW c \in Contracts
               PROVE  /\ payment[c].age \in Nat /\ payment'[c].age \in Nat
                      /\ payment[c].elapsed \in Nat /\ payment'[c].elapsed \in Nat
                      /\ payment[c].left \in Int /\ payment'[c].left = payment[c].left
                      /\ payment[c].age <= payment'[c].age
                      /\ payment'[c].age <= payment[c].age + 1
                      /\ payment[c].elapsed <= payment'[c].elapsed
                      /\ payment[c].left # 0 /\ payment'[c].elapsed < Duration =>
                            payment'[c].elapsed = payment[c].elapsed + 1
    OBVIOUS
  <2>1. /\ payment[c].age \in 0..MaxAge /\ payment[c].elapsed \in 0..MaxAge
        /\ payment[c].left \in Int /\ Duration \in Nat /\ MaxAge \in Nat /\ Duration <= MaxAge
    BY <1>1, BillingAssumption DEF RunnerInv, Payment
  <2> QED  BY <1>2, <1>3, <2>1 DEF Capped
<1>5. RunnerAmount'
  <2> DEFINE c == Head(runner.todo)
  <2>1. CASE runner.pc = "crediting" /\ Fee[c] >= 0
    <3>1. c \in Contracts /\ Fee[c] \in Nat
      <4>1. c \in Contracts
        BY <1>1, <2>1, AtContract
      <4>2. Fee[c] \in Int
        BY <4>1, BillingAssumption
      <4> QED  BY <2>1, <4>1, <4>2
    <3>2. payment[c].age * Fee[c] <= payment'[c].age * Fee[c]
      BY <1>4, <3>1, TimesGrows
    <3>3. /\ payment[c].age * Fee[c] \in Int /\ payment'[c].age * Fee[c] \in Int
          /\ runner.amount * Duration \in Int
      BY <1>1, <1>4, <3>1, BillingAssumption DEF RunnerInv, Runner
    <3>4. /\ runner.amount > 0 /\ runner.amount <= payment[c].left
          /\ runner.amount * Duration <= payment[c].age * Fee[c]
      BY <2>1 DEF PayInv, RunnerAmount
    <3>5. runner.amount * Duration <= payment'[c].age * Fee[c]
      BY <3>2, <3>3, <3>4
    <3> QED  BY <1>1, <1>4, <2>1, <3>1, <3>4, <3>5 DEF RunnerAmount
  <2>2. CASE ~(runner.pc = "crediting" /\ Fee[c] >= 0)
    <3>1. runner.pc = "settling" => c \in Contracts
      BY <1>1, AtContract
    <3> QED  BY <1>1, <1>4, <2>2, <3>1 DEF PayInv, RunnerAmount
  <2> QED  BY <2>1, <2>2
<1>6. \A c \in Priced : payment'[c].left >= 0
    BY <1>4 DEF PayInv, Priced
<1>7. ASSUME NEW c \in Contracts, Unposted(c)  PROVE  Unposted(c)'
    BY <1>1, <1>3, <1>7 DEF Unposted, NoPayment
<1>8. ASSUME NEW c \in Priced, OnTime(c)  PROVE  OnTime(c)'
  <2>0. c \in Contracts /\ Fee[c] \in Nat
    BY BillingAssumption DEF Priced
  <2>1. Paying(c)' = Paying(c)
    BY <1>1 DEF Paying
  <2>2. CASE payment[c].left = 0
    BY <1>1, <1>3, <1>8, <2>0, <2>1, <2>2 DEF OnTime
  <2>3. CASE payment[c].left # 0
    <3>1. paid'[c] + payment'[c].left = Fee[c] + Paying(c)'
      BY <1>1, <1>4, <1>8, <2>0, <2>1 DEF OnTime
    <3>2. ASSUME payment'[c].elapsed < Duration
          PROVE  paid'[c] * Duration + (IF Paying(c)' > 0 THEN 0 ELSE payment'[c].age * Fee[c])
                   <= Fee[c] * payment'[c].elapsed
      <4> DEFINE a == payment[c].age
                 e == payment[c].elapsed
                 b == payment'[c].age
                 F == Fee[c]
                 P == paid[c] * Duration
      <4>1. a \in Nat /\ b \in Nat /\ e \in Nat /\ F \in Nat /\ b <= a + 1 /\ P \in Int
        BY <1>4, <2>0, BillingAssumption DEF PaidType
      <4>2. payment'[c].elapsed = e + 1 /\ e < Duration
        BY <1>4, <2>0, <2>3, <3>2, BillingAssumption
      <4>3. P + (IF Paying(c) > 0 THEN 0 ELSE a * F) <= F * e
        BY <1>8, <4>2 DEF OnTime
      <4> HIDE DEF a, b, e, F, P
      <4>4. b * F <= (a + 1) * F /\ (a + 1) * F = a * F + F /\ F * (e + 1) = F * e + F
        BY <4>1, TimesGrows
      <4>5. P + (IF Paying(c) > 0 THEN 0 ELSE b * F) <= F * (e + 1)
        <5>1. a * F \in Int /\ b * F \in Int /\ F * e \in Int
          BY <4>1
        <5> QED  BY <4>1, <4>3, <4>4, <5>1
      <4> QED  BY <1>1, <2>1, <4>2, <4>5 DEF b, F, P, e
    <3> QED  BY <3>1, <3>2 DEF OnTime
  <2> QED  BY <2>2, <2>3
<1> QED
    BY <1>1, <1>5, <1>6, <1>7, <1>8 DEF PayInv, Priced

\* What is credited is due, and is subtracted from what is left.
LEMMA RunnerPays ==
    ASSUME PayInv, MoneyInv, PaidType, AmountInv, torn \in Nat, PaymentRunner \/ FailRunner
    PROVE  PayInv'
<1> USE DEF accounts, counts, history
<1>0. /\ RunnerInv /\ runner \in Runner /\ payment \in [Contracts -> Payment]
      /\ Duration \in Nat \ {0} /\ Fee \in [Contracts -> Int]
    BY BillingAssumption DEF MoneyInv, RunnerInv
<1>1. [Next]_vars
    BY DEF Next
<1>2. torn' \in Nat /\ torn <= torn' /\ (FailRunner => torn + TornByRunner <= torn')
    BY <1>1, TornGrows
<1>3. Waiting.pc = "waiting" /\ \A todo : NextContract(todo).pc \in {"waiting", "next"}
    BY DEF Waiting, NextContract
<1>4. CASE RunPayments \/ SkipPayment \/ RecordReceipt
  <2>1. UNCHANGED <<payment, paid>> /\ runner'.pc \notin {"crediting", "settling"}
          /\ runner.pc # "settling"
    BY <1>3, <1>4 DEF RunPayments, SkipPayment, RecordReceipt, Waiting
  <2> QED  BY <1>2, <2>1, PayKeeps
<1>5. CASE FailRunner
  <2>1. UNCHANGED <<payment, paid>> /\ runner'.pc = "waiting"
    BY <1>3, <1>5 DEF FailRunner
  <2>2. runner.pc = "settling" /\ Fee[Head(runner.todo)] >= 0 =>
           TornByRunner \in Nat /\ TornByRunner > 0
    BY TornType DEF TornByRunner, PayInv, RunnerAmount
  <2>3. runner.pc = "settling" => Fee[Head(runner.todo)] < 0 \/ torn < torn'
    <3>1. runner.pc = "settling" => Fee[Head(runner.todo)] \in Int
      BY <1>0, AtContract
    <3> QED  BY <1>2, <1>5, <2>2, <3>1
  <2> QED  BY <1>2, <2>1, <2>3, PayKeeps
<1>6. CASE FindPayee
  <2>1. UNCHANGED <<payment, paid, torn>> /\ runner.pc = "next"
    BY <1>6 DEF FindPayee, FindPayeeFor
  <2>2. CASE runner' = Waiting
    BY <1>2, <1>3, <2>1, <2>2, PayKeeps
  <2>3. CASE runner' # Waiting
    <3>0. PICK c \in Contracts : c = Head(runner.todo)
      BY <1>0, <2>1, AtContract
    <3>1. PICK amount : amount = Capped(Due(c), payment[c].left)
      OBVIOUS
    <3>2. /\ payment[c].left # 0 /\ Due(c) # 0
          /\ runner' = [runner EXCEPT !.pc = "crediting", !.read = balance[Payee],
                                    !.amount = amount]
      BY <1>6, <2>3, <3>0, <3>1 DEF FindPayee, FindPayeeFor
    <3>3. runner'.pc = "crediting" /\ runner'.amount = amount /\ runner'.todo = runner.todo
      BY <1>0, <3>2 DEF Runner
    <3>4. payment[c].age \in Nat /\ payment[c].left \in Int /\ Fee[c] \in Int
      BY <1>0 DEF Payment
    <3>5. ASSUME Fee[c] >= 0
          PROVE  /\ amount \in Nat /\ amount > 0 /\ amount <= payment[c].left
                 /\ amount * Duration <= payment[c].age * Fee[c]
      <4>1. Fee[c] \in Nat /\ payment[c].left >= 0
        BY <3>4, <3>5 DEF PayInv, Priced
      <4>2. payment[c].age * Fee[c] \in Nat
        BY <3>4, <4>1, TimesGrows
      <4>3. Due(c) \in Nat /\ Due(c) * Duration <= payment[c].age * Fee[c]
        BY <1>0, <4>2, SharesRoundDown DEF Due
      <4>4. amount \in Nat /\ amount > 0 /\ amount <= payment[c].left /\ amount <= Due(c)
        BY <3>1, <3>2, <3>4, <4>1, <4>3 DEF Capped
      <4>5. amount * Duration <= Due(c) * Duration /\ amount * Duration \in Int
        BY <1>0, <4>3, <4>4, TimesGrows
      <4>6. Due(c) * Duration \in Int
        BY <1>0, <4>3
      <4> QED  BY <4>2, <4>3, <4>4, <4>5, <4>6
    <3>10. RunnerAmount'
      BY <2>1, <3>0, <3>3, <3>5 DEF RunnerAmount
    <3>11. \A d \in Contracts : Paying(d)' = Paying(d)
      BY <2>1, <3>3 DEF Paying
    <3>13. Priced \subseteq Contracts
      BY DEF Priced
    <3>12. \A d \in Contracts : (Unposted(d)' <=> Unposted(d)) /\ (OnTime(d)' <=> OnTime(d))
      BY <2>1, <3>11 DEF Unposted, OnTime
    <3> QED  BY <2>1, <3>10, <3>12, <3>13 DEF PayInv
  <2> QED  BY <2>2, <2>3
<1>7. CASE CreditProvider
  <2>1. UNCHANGED <<payment, torn>> /\ runner.pc = "crediting"
    BY <1>7 DEF CreditProvider
  <2>2. CASE Payee \in gone
    BY <1>2, <1>3, <1>7, <2>1, <2>2, PayKeeps DEF CreditProvider
  <2>3. CASE Payee \notin gone
    <3>0. PICK c \in Contracts : c = Head(runner.todo)
      BY <1>0, <2>1, AtContract
    <3>1. /\ paid' = [paid EXCEPT ![c] = @ + runner.amount]
          /\ runner' = [runner EXCEPT !.pc = "settling"]
      BY <1>7, <2>3, <3>0 DEF CreditProvider
    <3>2. runner'.pc = "settling" /\ runner'.amount = runner.amount /\ runner'.todo = runner.todo
      BY <1>0, <3>1 DEF Runner
    <3>3. Fee[c] >= 0 =>
             /\ runner.amount > 0 /\ runner.amount <= payment[c].left
             /\ runner.amount * Duration <= payment[c].age * Fee[c]
      BY <2>1, <3>0 DEF PayInv, RunnerAmount
    <3>4. RunnerAmount'
      BY <2>1, <3>0, <3>2, <3>3 DEF RunnerAmount
    <3>5. \A d \in Contracts \ {c} : Paying(d)' = Paying(d) /\ paid'[d] = paid[d]
      BY <2>1, <3>0, <3>1, <3>2 DEF Paying, PaidType
    <3>6. /\ Paying(c)' = runner.amount /\ Paying(c) = 0
          /\ paid'[c] = paid[c] + runner.amount /\ paid[c] \in Int
      BY <2>1, <3>0, <3>1, <3>2 DEF Paying, PaidType
    <3>7. /\ payment[c].left \in Int /\ payment[c].age \in Nat /\ payment[c].elapsed \in Nat
          /\ runner.amount \in Int /\ Fee[c] \in Int
      BY <1>0 DEF Payment, Runner
    <3>8. c \in Priced /\ OnTime(c) => OnTime(c)'
      <4> SUFFICES ASSUME c \in Priced, OnTime(c)  PROVE  OnTime(c)'
        OBVIOUS
      <4>0. Fee[c] >= 0
        BY DEF Priced
      <4>1. paid'[c] + payment'[c].left = Fee[c] + Paying(c)'
        BY <2>1, <3>6, <3>7 DEF OnTime
      <4>2. ASSUME payment[c].elapsed < Duration
            PROVE  paid'[c] * Duration <= Fee[c] * payment[c].elapsed
        <5>1. paid[c] * Duration + payment[c].age * Fee[c] <= Fee[c] * payment[c].elapsed
          BY <3>6, <4>2 DEF OnTime
        <5>2. paid'[c] * Duration = paid[c] * Duration + runner.amount * Duration
          BY <1>0, <3>6, <3>7
        <5>3. /\ paid[c] * Duration \in Int /\ runner.amount * Duration \in Int
              /\ payment[c].age * Fee[c] \in Int /\ Fee[c] * payment[c].elapsed \in Int
          BY <1>0, <3>6, <3>7
        <5> QED  BY <3>3, <4>0, <5>1, <5>2, <5>3
      <4>3. paid'[c] * Duration \in Int
        BY <1>0, <3>6, <3>7
      <4>4. ASSUME payment'[c].elapsed < Duration
            PROVE  paid'[c] * Duration + (IF Paying(c)' > 0 THEN 0 ELSE payment'[c].age * Fee[c])
                     <= Fee[c] * payment'[c].elapsed
        BY <2>1, <3>3, <3>6, <4>0, <4>2, <4>3, <4>4
      <4> QED  BY <4>1, <4>4 DEF OnTime
    <3>9. c \in Priced => ~Unposted(c)
      <4>1. c \in Priced => payment[c].left # 0
        BY <3>3, <3>7 DEF Priced
      <4> QED  BY <4>1 DEF Unposted, NoPayment
    <3>10. \A d \in Contracts \ {c} : (Unposted(d)' <=> Unposted(d)) /\ (OnTime(d)' <=> OnTime(d))
      BY <2>1, <3>5 DEF Unposted, OnTime
    <3>13. Priced \subseteq Contracts
      BY DEF Priced
    <3>11. ASSUME torn' = 0, NEW d \in Priced  PROVE  Unposted(d)' \/ OnTime(d)'
      BY <2>1, <3>8, <3>9, <3>10, <3>11, <3>13 DEF PayInv
    <3>12. \A d \in Priced : payment'[d].left >= 0
      BY <2>1 DEF PayInv
    <3> QED  BY <3>4, <3>11, <3>12 DEF PayInv
  <2> QED  BY <2>2, <2>3
<1>8. CASE SettlePayment
  <2>0. PICK c \in Contracts : c = Head(runner.todo)
    BY <1>0, <1>8, AtContract DEF SettlePayment, SettleAt
  <2>1. /\ UNCHANGED <<paid, torn>> /\ runner.pc = "settling"
        /\ payment' = [payment EXCEPT ![c].left = @ - runner.amount, ![c].age = 0]
        /\ runner' = [runner EXCEPT !.pc = "recording"]
    BY <1>8, <2>0 DEF SettlePayment, SettleAt
  <2>2. runner'.pc = "recording"
    BY <1>0, <2>1 DEF Runner
  <2>3. /\ payment[c].left \in Int /\ payment[c].age \in Nat /\ payment[c].elapsed \in Nat
        /\ runner.amount \in Int /\ Fee[c] \in Int
    BY <1>0 DEF Payment, Runner
  <2>4. /\ payment'[c].left = payment[c].left - runner.amount /\ payment'[c].age = 0
        /\ payment'[c].elapsed = payment[c].elapsed
        /\ \A d \in Contracts \ {c} : payment'[d] = payment[d]
    BY <1>0, <2>1 DEF Payment
  <2>5. c \in Priced => runner.amount > 0 /\ runner.amount <= payment[c].left
    BY <2>0, <2>1 DEF PayInv, RunnerAmount, Priced
  <2>6. RunnerAmount'
    BY <2>2 DEF RunnerAmount
  <2>7. \A d \in Priced : payment'[d].left >= 0
    <3>1. c \in Priced => payment'[c].left >= 0
      BY <2>3, <2>4, <2>5
    <3> QED  BY <2>4, <3>1 DEF PayInv, Priced
  <2>8. Paying(c)' = 0 /\ Paying(c) = runner.amount
    BY <2>0, <2>1, <2>2 DEF Paying
  <2>9. \A d \in Contracts \ {c} : Paying(d)' = Paying(d)
    BY <2>0, <2>1, <2>2 DEF Paying
  <2>10. c \in Priced /\ OnTime(c) => OnTime(c)'
    <3> SUFFICES ASSUME c \in Priced, OnTime(c)  PROVE  OnTime(c)'
      OBVIOUS
    <3>1. paid[c] \in Int /\ paid'[c] = paid[c]
      BY <2>1 DEF PaidType
    <3>2. paid'[c] + payment'[c].left = Fee[c] + Paying(c)'
      BY <2>3, <2>4, <2>8, <3>1 DEF OnTime
    <3>3. 0 * Fee[c] = 0 /\ paid[c] * Duration \in Int /\ Fee[c] * payment[c].elapsed \in Int
      BY <1>0, <2>3, <3>1
    <3>4. ASSUME payment'[c].elapsed < Duration
          PROVE  paid'[c] * Duration + (IF Paying(c)' > 0 THEN 0 ELSE payment'[c].age * Fee[c])
                   <= Fee[c] * payment'[c].elapsed
      <4>1. paid[c] * Duration + 0 <= Fee[c] * payment[c].elapsed
        BY <2>4, <2>5, <2>8, <3>4 DEF OnTime
      <4> QED  BY <2>4, <2>8, <3>1, <3>3, <4>1
    <3> QED  BY <3>2, <3>4 DEF OnTime
  <2>11. c \in Priced => ~Unposted(c)
    <3>1. c \in Priced => payment[c].left # 0
      BY <2>3, <2>5
    <3> QED  BY <3>1 DEF Unposted, NoPayment
  <2>12. \A d \in Contracts \ {c} : (Unposted(d)' <=> Unposted(d)) /\ (OnTime(d)' <=> OnTime(d))
    BY <2>1, <2>4, <2>9 DEF Unposted, OnTime
  <2>13. ASSUME torn' = 0, NEW d \in Priced  PROVE  Unposted(d)' \/ OnTime(d)'
    BY <2>1, <2>10, <2>11, <2>12, <2>13 DEF PayInv, Priced
  <2> QED  BY <2>6, <2>7, <2>13 DEF PayInv
<1> QED
    BY <1>4, <1>5, <1>6, <1>7, <1>8 DEF PaymentRunner

\* PayInv is inductive, next to what is known of balances and of the lists.
LEMMA PayInvStep ==
    MoneyInv /\ PaidType /\ PostInv /\ AmountInv /\ torn \in Nat /\ PayInv /\ [Next]_vars => PayInv'
<1> SUFFICES ASSUME MoneyInv, PaidType, PostInv, AmountInv, torn \in Nat, PayInv, [Next]_vars
             PROVE  PayInv'
    OBVIOUS
<1> USE DEF accounts, counts, history
<1>1. torn' \in Nat /\ torn <= torn' /\ (Crash => torn + TornByRunner <= torn')
    BY TornGrows
<1>2. CASE UNCHANGED <<payment, paid, runner>>
    BY <1>1, <1>2, PayKeeps
<1>3. CASE Crash
  <2>1. UNCHANGED <<payment, paid>> /\ runner'.pc = "waiting"
    BY <1>3 DEF Crash, Waiting
  <2>2. runner.pc = "settling" /\ Fee[Head(runner.todo)] >= 0 =>
           TornByRunner \in Nat /\ TornByRunner > 0
    BY TornType DEF TornByRunner, PayInv, RunnerAmount
  <2>3. runner.pc = "settling" => Fee[Head(runner.todo)] < 0 \/ torn < torn'
    <3>1. runner.pc = "settling" => Fee[Head(runner.todo)] \in Int
      BY AtContract, BillingAssumption DEF MoneyInv
    <3> QED  BY <1>1, <1>3, <2>2, <3>1
  <2> QED  BY <1>1, <2>1, <2>3, PayKeeps
<1>4. UNCHANGED <<payment, paid, runner>> \/ Crash \/ Tick \/ PaymentRunner \/ FailRunner
        \/ \E h \in Handlers : InsertPayment(h)
    BY DEF Next, Handler, vars, PostContract, DebitFee, InsertContract, Record, Deposit, Execute,
       Credit, Withdraw, Payout, Debit, PutUser, UpdateUser, FailHandler, Ask, Write, WriteAmount,
       DeleteContract, DeleteUser
<1> QED
    BY <1>2, <1>3, <1>4, PaymentStarts, TimePasses, RunnerPays

-----------------------------------------------------------------------------
(***************************************************************************)
(* The rest of the types.                                                  *)
(***************************************************************************)
RestOfTypes ==
    /\ statement \in [Users -> Int] /\ bank \in Int
    /\ gone \subseteq Users /\ raced \subseteq Users
    /\ faults \in 0..MaxFaults /\ asked \in 0..MaxRequests

\* The history of races grows, by users.
LEMMA RacesGrow ==
    ASSUME MoneyInv, RestOfTypes, [Next]_vars
    PROVE  raced \subseteq raced' /\ raced' \subseteq Users
<1> USE DEF accounts, counts, history
<1>1. ASSUME NEW u \in Users, Race(u)  PROVE  raced \subseteq raced' /\ raced' \subseteq Users
    BY <1>1 DEF Race, RestOfTypes
<1>2. CASE raced' = raced
    BY <1>2 DEF RestOfTypes
<1>3. CASE FindPayee
  <2>1. Payee \in Users
    BY <1>3, AtContract DEF FindPayee, FindPayeeFor, MoneyInv
  <2> QED  BY <1>1, <1>2, <1>3, <2>1 DEF FindPayee, FindPayeeFor
<1>4. ASSUME NEW h \in Handlers, NEW u \in Users, NEW label, NEW c, NEW n, Read(h, u, label, c, n)
      PROVE  raced \subseteq raced' /\ raced' \subseteq Users
    BY <1>1, <1>4 DEF Read
<1>5. ASSUME NEW h \in Handlers, NEW c \in Contracts, PostContract(h, c)
      PROVE  raced \subseteq raced' /\ raced' \subseteq Users
  <2>1. RenterOf[c] \in Users
    BY BillingAssumption DEF Users
  <2> QED  BY <1>4, <1>5, <2>1 DEF PostContract
<1>6. ASSUME NEW h \in Handlers, NEW u \in Users, NEW label, NEW n, Ask(h, u, label, n)
      PROVE  raced \subseteq raced' /\ raced' \subseteq Users
    BY <1>4, <1>6 DEF Ask
<1>7. ASSUME NEW h \in Handlers, Handler(h)
      PROVE  raced \subseteq raced' /\ raced' \subseteq Users
  <2>1. \A r \in Renters : r \in Users
    BY DEF Users
  <2>2. ASSUME NEW r \in Renters, NEW cents \in Cents, Deposit(h, r, cents)
        PROVE  raced \subseteq raced' /\ raced' \subseteq Users
    BY <1>6, <2>1, <2>2 DEF Deposit
  <2>3. ASSUME NEW u \in Users, NEW cents \in Cents, Withdraw(h, u, cents)
        PROVE  raced \subseteq raced' /\ raced' \subseteq Users
    BY <1>6, <2>3 DEF Withdraw
  <2>4. ASSUME NEW u \in Users, PutUser(h, u)
        PROVE  raced \subseteq raced' /\ raced' \subseteq Users
    BY <1>6, <2>4 DEF PutUser
  <2>5. CASE raced' = raced
    BY <1>2, <2>5
  <2> QED
    BY <1>5, <1>7, <2>2, <2>3, <2>4, <2>5 DEF Handler, DebitFee, InsertPayment, InsertContract,
       Record, Execute, Credit, Payout, Debit, UpdateUser, FailHandler, Write, WriteAmount
<1> QED
    BY <1>2, <1>3, <1>7 DEF Next, vars, DeleteContract, DeleteUser, PaymentRunner, RunPayments,
       SkipPayment, CreditProvider, SettlePayment, SettleAt, RecordReceipt, FailRunner, Tick, Crash

\* A signed amount more keeps the statements numbers.
LEMMA StatementType ==
    ASSUME RestOfTypes, NEW u, NEW n \in Int, statement' = [statement EXCEPT ![u] = @ + n]
    PROVE  statement' \in [Users -> Int]
<1>1. CASE u \in Users
    BY <1>1 DEF RestOfTypes
<1>2. CASE u \notin Users
    BY <1>2 DEF RestOfTypes
<1> QED
    BY <1>1, <1>2

\* Every step keeps the rest of the types.
LEMMA RestStep == MoneyInv /\ RestOfTypes /\ [Next]_vars => RestOfTypes'
<1> SUFFICES ASSUME MoneyInv, RestOfTypes, [Next]_vars
             PROVE  RestOfTypes'
    OBVIOUS
<1> USE DEF accounts, counts, history
<1>1. raced' \subseteq Users
    BY RacesGrow
<1>2. statement' \in [Users -> Int]
  <2>1. ASSUME NEW h \in Handlers, Record(h)  PROVE  statement' \in [Users -> Int]
    <3>1. job[h].amount \in Int
      BY DEF MoneyInv, JobInv, Job
    <3> QED  BY <2>1, <3>1, StatementType DEF Record
  <2>2. CASE RecordReceipt
    <3>1. runner.amount \in Int
      BY DEF MoneyInv, RunnerInv, Runner
    <3> QED  BY <2>2, <3>1, StatementType DEF RecordReceipt
  <2>3. CASE statement' = statement
    BY <2>3 DEF RestOfTypes
  <2> QED
    BY <2>1, <2>2, <2>3 DEF Next, Handler, vars, PostContract, DebitFee, InsertPayment,
       InsertContract, Deposit, Execute, Credit, Withdraw, Payout, Debit, PutUser,
       UpdateUser, FailHandler, Ask, Write, WriteAmount, DeleteContract, DeleteUser,
       PaymentRunner, RunPayments, SkipPayment, FindPayee, FindPayeeFor, CreditProvider,
       SettlePayment, SettleAt, FailRunner, Tick, Crash
<1>3. bank' \in Int
  <2>1. ASSUME NEW h \in Handlers, Execute(h) \/ Payout(h)  PROVE  bank' \in Int
    <3>1. job[h].amount \in Int /\ bank \in Int
      BY DEF MoneyInv, JobInv, Job, RestOfTypes
    <3>2. Formatted(-job[h].amount \div 10) \in Int
      BY <3>1 DEF Formatted
    <3> QED  BY <2>1, <3>1, <3>2 DEF Execute, Payout
  <2>2. CASE bank' = bank
    BY <2>2 DEF RestOfTypes
  <2> QED
    BY <2>1, <2>2 DEF Next, Handler, vars, PostContract, DebitFee, InsertPayment,
       InsertContract, Record, Deposit, Credit, Withdraw, Debit, PutUser,
       UpdateUser, FailHandler, Ask, Write, WriteAmount, DeleteContract, DeleteUser,
       PaymentRunner, RunPayments, SkipPayment, FindPayee, FindPayeeFor, CreditProvider,
       SettlePayment, SettleAt, RecordReceipt, FailRunner, Tick, Crash
<1>4. gone' \subseteq Users
    BY DEF RestOfTypes, Next, Handler, vars, PostContract, DebitFee, InsertPayment,
       InsertContract, Record, Deposit, Execute, Credit, Withdraw, Payout, Debit, PutUser,
       UpdateUser, FailHandler, Ask, Write, WriteAmount, DeleteContract, DeleteUser,
       PaymentRunner, RunPayments, SkipPayment, FindPayee, FindPayeeFor, CreditProvider,
       SettlePayment, SettleAt, RecordReceipt, FailRunner, Tick, Crash
<1>5. faults' \in 0..MaxFaults /\ asked' \in 0..MaxRequests
  <2>1. \/ faults' = faults \/ (faults < MaxFaults /\ faults' = faults + 1)
    BY DEF Next, Handler, vars, PostContract, DebitFee, InsertPayment,
       InsertContract, Record, Deposit, Execute, Credit, Withdraw, Payout, Debit, PutUser,
       UpdateUser, FailHandler, Ask, Write, WriteAmount, DeleteContract, DeleteUser,
       PaymentRunner, RunPayments, SkipPayment, FindPayee, FindPayeeFor, CreditProvider,
       SettlePayment, SettleAt, RecordReceipt, FailRunner, Tick, Crash
  <2>2. \/ asked' = asked \/ (asked < MaxRequests /\ asked' = asked + 1)
    BY DEF Next, Handler, vars, PostContract, DebitFee, InsertPayment,
       InsertContract, Record, Deposit, Execute, Credit, Withdraw, Payout, Debit, PutUser,
       UpdateUser, FailHandler, Ask, Write, WriteAmount, DeleteContract, DeleteUser,
       PaymentRunner, RunPayments, SkipPayment, FindPayee, FindPayeeFor, CreditProvider,
       SettlePayment, SettleAt, RecordReceipt, FailRunner, Tick, Crash
  <2> QED  BY <2>1, <2>2, BillingAssumption DEF RestOfTypes
<1> QED
    BY <1>1, <1>2, <1>3, <1>4, <1>5 DEF RestOfTypes

\* All that the theorems of payments rest on.
PaymentInv ==
    MoneyInv /\ PaidType /\ PostInv /\ AmountInv /\ torn \in Nat /\ PayInv /\ RestOfTypes

\* The rest holds at first.
LEMMA RestInit == Init => RestOfTypes
BY BillingAssumption DEF Init, RestOfTypes

\* What is known of payments is inductive.
LEMMA PaymentInvStep == PaymentInv /\ [Next]_vars => PaymentInv'
BY MoneyInvStep, PaidTypeStep, PostInvStep, AmountStep, TornGrows, PayInvStep, RestStep
   DEF PaymentInv

\* It holds at first.
LEMMA PaymentInvInit == Init => PaymentInv
<1> SUFFICES ASSUME Init  PROVE  PaymentInv
  OBVIOUS
<1>1. MoneyInv
  BY MoneyInvInit
<1>2. PaidType /\ torn = 0 /\ torn \in Nat
  BY DEF Init, PaidType
<1>3. AmountInv
  BY DEF Init, AmountInv, Amounts, Idle
<1>4. PostInv
  <2>1. /\ contracts = Formed /\ Formed \in Seq(Contracts) /\ IsInjective(Formed)
        /\ tried = ToSet(Formed) /\ runner.todo = <<>>
    BY BillingAssumption DEF Init, Waiting
  <2>2. tried \subseteq Contracts /\ \A c : InList(contracts, c) <=> c \in tried
    BY <2>1 DEF ToSet, InList
  <2>3. ~\E c : InList(runner.todo, c)
    BY <2>1 DEF InList
  <2>4. \A h \in Handlers, c \in Contracts : ~Posts(h, c)
    BY DEF Init, Idle, Posts, HoldsContract
  <2>5. \A c \in Contracts \ tried : Unposted(c)
    BY DEF Init, Unposted
  <2> QED  BY <2>1, <2>2, <2>3, <2>4, <2>5 DEF PostInv
<1>5. PayInv
  <2>1. \A c \in Contracts : paid[c] = 0 /\ Paying(c) = 0 /\ Fee[c] \in Int
    BY BillingAssumption DEF Init, Paying, Waiting
  <2>2. \A c \in Contracts : payment[c] = IF c \in tried THEN NewPayment(c) ELSE NoPayment
    BY DEF Init
  <2>3. ASSUME NEW c \in Contracts, c \in tried, Fee[c] >= 0
        PROVE  OnTime(c) /\ payment[c].left >= 0
    <3>1. payment[c].left = Fee[c] /\ payment[c].age = 0 /\ payment[c].elapsed = 0
      <4>1. payment[c] = NewPayment(c)
        BY <2>2, <2>3
      <4> QED  BY <4>1 DEF NewPayment
    <3>2. 0 * Duration = 0 /\ 0 * Fee[c] = 0 /\ Fee[c] * 0 = 0 /\ Duration \in Nat
      BY <2>1, BillingAssumption
    <3> QED  BY <2>1, <2>3, <3>1, <3>2 DEF OnTime
  <2>4. ASSUME NEW c \in Contracts, c \notin tried  PROVE  Unposted(c) /\ payment[c].left >= 0
    BY <2>1, <2>2, <2>4 DEF Unposted, NoPayment
  <2>5. RunnerAmount
    BY DEF Init, Waiting, RunnerAmount
  <2> QED  BY <2>3, <2>4, <2>5 DEF PayInv, Priced
<1> QED
    BY <1>1, <1>2, <1>3, <1>4, <1>5, RestInit DEF PaymentInv

\* A provider is never paid ahead of time, nor more than the fee, as long as
\* no run was cut in two between its balance and the payment.
THEOREM NotPaidAhead == Spec => []NeverAhead
<1>1. PaymentInv => NeverAhead
  <2> SUFFICES ASSUME PaymentInv, torn = 0, NEW c \in Contracts, Fee[c] >= 0
               PROVE  paid[c] * Duration <= Fee[c] * payment[c].elapsed
    BY DEF NeverAhead
  <2>1. /\ payment[c].left \in Int /\ payment[c].age \in Nat /\ Fee[c] \in Nat
        /\ payment[c].elapsed \in 0..MaxAge /\ MaxAge \in Nat /\ Duration \in Nat
        /\ paid[c] \in Int /\ runner \in Runner
    BY BillingAssumption DEF PaymentInv, MoneyInv, RunnerInv, Payment, PaidType
  <2>2. CASE Unposted(c)
    <3>1. 0 * Duration = 0 /\ Fee[c] * 0 = 0
      BY <2>1
    <3> QED  BY <2>2, <3>1 DEF Unposted, NoPayment
  <2>3. CASE OnTime(c) /\ payment[c].elapsed < Duration
    <3>1. payment[c].age * Fee[c] \in Nat /\ paid[c] * Duration \in Int
            /\ Fee[c] * payment[c].elapsed \in Nat
      <4>1. payment[c].elapsed \in Nat
        BY <2>1
      <4> QED  BY <2>1, <4>1, TimesGrows
    <3> QED  BY <2>3, <3>1 DEF OnTime
  <2>4. CASE OnTime(c) /\ Duration <= payment[c].elapsed
    <3>1. Paying(c) \in Int /\ Paying(c) <= payment[c].left
      BY <2>1 DEF Paying, PaymentInv, PayInv, Priced, RunnerAmount, Runner
    <3>2. paid[c] <= Fee[c]
      BY <2>1, <2>4, <3>1 DEF OnTime
    <3>3. (Fee[c] - paid[c]) * Duration >= 0 /\ Fee[c] - paid[c] \in Nat
      BY <2>1, <3>2
    <3>4. paid[c] * Duration <= Fee[c] * Duration
      BY <2>1, <3>3
    <3>5. Fee[c] * Duration <= Fee[c] * payment[c].elapsed
      BY <2>1, <2>4, TimesGrows
    <3>6. /\ paid[c] * Duration \in Int /\ Fee[c] * Duration \in Int
          /\ Fee[c] * payment[c].elapsed \in Int
      BY <2>1
    <3> QED  BY <3>4, <3>5, <3>6
  <2>5. c \in Priced
    BY DEF Priced
  <2> QED  BY <2>1, <2>2, <2>3, <2>4, <2>5 DEF PaymentInv, PayInv
<1>2. QED
    BY <1>1, PaymentInvInit, PaymentInvStep, PTL DEF Spec

\* The state has its types: among others, no contract with a fee is paid more
\* than what is left for it, and none is listed that was not posted.
THEOREM TypeCorrect == Spec => []TypeOK
<1>1. PaymentInv => TypeOK
  <2> SUFFICES ASSUME PaymentInv  PROVE  TypeOK
    OBVIOUS
  <2>1. balance \in [Users -> Int]
    BY DEF PaymentInv, MoneyInv, Balances
  <2>2. ToSet(contracts) \subseteq tried
    BY DEF PaymentInv, MoneyInv, RunnerInv, PostInv, ToSet, InList
  <2> QED
    BY <2>1, <2>2 DEF PaymentInv, MoneyInv, JobInv, RunnerInv, PaidType, PostInv, PayInv, Priced,
       RestOfTypes, TypeOK
<1>2. QED
    BY <1>1, PaymentInvInit, PaymentInvStep, PTL DEF Spec

-----------------------------------------------------------------------------
(***************************************************************************)
(* Nobody's balance becomes negative but that of a provider which has a    *)
(* contract with a negative fee.                                           *)
(***************************************************************************)
Debtors == {u \in Users : MayOwe(u)}

\* What a handler will write is not negative, if it was not when it was read.
Affords(j) == j.pc \in HoldsDocument => j.user \in Debtors \/ j.read + j.amount >= 0

DebtInv ==
    /\ \A u \in Users : u \in Debtors \/ balance[u] >= 0
    /\ \A h \in Handlers : Affords(job[h])
    /\ runner.pc = "crediting" => Payee \in Debtors \/ runner.read >= 0

\* A contract that was posted stays so.
LEMMA TriedGrows ==
    ASSUME [Next]_vars
    PROVE  tried \subseteq tried'
BY DEF Next, Handler, vars, accounts, counts, history, PostContract, DebitFee, InsertPayment,
   InsertContract, Record, Deposit, Execute, Credit, Withdraw, Payout, Debit, PutUser,
   UpdateUser, FailHandler, Ask, Write, WriteAmount, DeleteContract, DeleteUser,
   PaymentRunner, RunPayments, SkipPayment, FindPayee, FindPayeeFor, CreditProvider,
   SettlePayment, SettleAt, RecordReceipt, FailRunner, Tick, Crash

\* Who may owe, always may.
LEMMA DebtorsGrow ==
    ASSUME [Next]_vars
    PROVE  Debtors \subseteq Debtors'
BY TriedGrows DEF Debtors, MayOwe

\* A step that leaves the balances and the runner's document, and moves handlers.
LEMMA DebtKeeps ==
    ASSUME DebtInv, Debtors \subseteq Debtors', balance' = balance,
           runner' = runner \/ runner'.pc # "crediting",
           \A h \in Handlers : job'[h] = job[h] \/ Affords(job'[h])
    PROVE  DebtInv'
<1>1. \A u \in Users : u \in Debtors' \/ balance'[u] >= 0
    BY DEF DebtInv
<1>2. \A h \in Handlers : Affords(job[h])'
    BY DEF DebtInv, Affords
<1>3. runner'.pc = "crediting" => Payee' \in Debtors' \/ runner'.read >= 0
    BY DEF DebtInv, Payee
<1> QED
    BY <1>1, <1>2, <1>3 DEF DebtInv

\* A handler's step.
LEMMA HandlerAffords ==
    ASSUME PaymentInv, DebtInv, Debtors \subseteq Debtors', NEW h \in Handlers, Handler(h)
    PROVE  DebtInv'
<1> USE DEF accounts, counts, history
<1>0. /\ JobInv /\ job[h] \in Job /\ Amounts(job[h]) /\ Affords(job[h])
      /\ balance \in [Users -> Int]
    BY DEF PaymentInv, MoneyInv, JobInv, Balances, AmountInv, DebtInv
<1>1. ASSUME NEW u \in Users, NEW label, NEW c, NEW n \in Int, n >= 0 \/ balance[u] + n >= 0,
             Read(h, u, label, c, n), UNCHANGED <<balance, runner>>
      PROVE  DebtInv'
  <2>1. OthersStay(h) /\ job'[h] = [pc |-> label, user |-> u, contract |-> c,
                                   read |-> balance[u], amount |-> n]
    BY <1>0, <1>1, ReadOn
  <2>2. job'[h].user = u /\ job'[h].read = balance[u] /\ job'[h].amount = n
    BY <2>1
  <2>3. balance[u] \in Int /\ (u \in Debtors \/ balance[u] >= 0)
    BY <1>0 DEF DebtInv
  <2>4. u \in Debtors \/ balance[u] + n >= 0
    BY <1>1, <2>3
  <2>5. Affords(job'[h])
    BY <2>2, <2>4 DEF Affords
  <2> QED  BY <1>1, <2>1, <2>5, DebtKeeps DEF OthersStay
<1>2. ASSUME NEW label, Goto(h, label), UNCHANGED <<balance, runner>>,
             label \in HoldsDocument => job[h].pc \in HoldsDocument
      PROVE  DebtInv'
  <2>1. /\ OthersStay(h) /\ job'[h].pc = label /\ job'[h].user = job[h].user
        /\ job'[h].read = job[h].read /\ job'[h].amount = job[h].amount
    BY <1>0, <1>2, GotoOn
  <2>2. Affords(job'[h])
    BY <1>0, <1>2, <2>1 DEF Affords
  <2> QED  BY <1>2, <2>1, <2>2, DebtKeeps DEF OthersStay
<1>3. ASSUME Return(h), UNCHANGED <<balance, runner>>
      PROVE  DebtInv'
  <2>1. OthersStay(h) /\ job'[h] = Idle
    BY <1>0, <1>3, ReturnOn
  <2>2. Affords(job'[h])
    BY <2>1 DEF Affords, Idle, HoldsDocument
  <2> QED  BY <1>3, <2>1, <2>2, DebtKeeps DEF OthersStay
<1>4. ASSUME job[h].pc \in HoldsDocument, runner' = runner, OthersStay(h),
             job'[h].pc \notin HoldsDocument,
             balance' = [balance EXCEPT ![job[h].user] = job[h].read + job[h].amount]
      PROVE  DebtInv'
  <2>1. job[h].user \in Debtors \/ job[h].read + job[h].amount >= 0
    BY <1>0, <1>4 DEF Affords
  <2>2. \A u \in Users : u \in Debtors' \/ balance'[u] >= 0
    BY <1>0, <1>4, <2>1 DEF DebtInv
  <2>3. \A g \in Handlers : Affords(job[g])'
    BY <1>4 DEF DebtInv, Affords, OthersStay
  <2>4. runner'.pc = "crediting" => Payee' \in Debtors' \/ runner'.read >= 0
    BY <1>4 DEF DebtInv, Payee
  <2> QED  BY <2>2, <2>3, <2>4 DEF DebtInv
<1>5. ASSUME NEW c \in Contracts, PostContract(h, c)  PROVE  DebtInv'
  <2>1. RenterOf[c] \in Users /\ Fee[c] \in Int /\ balance[RenterOf[c]] \in Int
    BY <1>0, BillingAssumption DEF Users
  <2>2. Read(h, RenterOf[c], "debitFee", c, -Fee[c]) /\ UNCHANGED <<balance, runner>>
          /\ Fee[c] <= balance[RenterOf[c]]
    BY <1>5 DEF PostContract
  <2>3. -Fee[c] \in Int /\ balance[RenterOf[c]] + (-Fee[c]) >= 0
    BY <2>1, <2>2
  <2> QED  BY <1>1, <2>1, <2>2, <2>3
<1>6. ASSUME NEW r \in Renters, NEW cents \in Cents, Deposit(h, r, cents)  PROVE  DebtInv'
  <2>1. r \in Users /\ cents \in Nat
    BY BillingAssumption DEF Users
  <2>2. 10 * Formatted(cents) \in Int /\ 10 * Formatted(cents) >= 0
    BY <2>1 DEF Formatted
  <2> QED  BY <1>1, <1>6, <2>1, <2>2 DEF Deposit, Ask
<1>7. ASSUME NEW u \in Users, NEW cents \in Cents, Withdraw(h, u, cents)  PROVE  DebtInv'
  <2>1. cents \in Nat /\ balance[u] \in Int
    BY <1>0, BillingAssumption
  <2>2. -(10 * cents) \in Int /\ balance[u] + (-(10 * cents)) >= 0
    BY <1>7, <2>1 DEF Withdraw
  <2> QED  BY <1>1, <1>7, <2>2 DEF Withdraw, Ask
<1>8. ASSUME NEW u \in Users, PutUser(h, u)  PROVE  DebtInv'
  <2>1. 0 \in Int /\ 0 >= 0
    OBVIOUS
  <2> QED  BY <1>1, <1>8, <2>1 DEF PutUser, Ask
<1>9. CASE InsertPayment(h) \/ InsertContract(h)
    BY <1>2, <1>9 DEF InsertPayment, InsertContract, HoldsDocument
<1>10. CASE Execute(h) \/ Payout(h)
    BY <1>2, <1>3, <1>10 DEF Execute, Payout, HoldsDocument
<1>11. CASE Record(h) \/ FailHandler(h)
    BY <1>3, <1>11 DEF Record, FailHandler
<1>12. ASSUME NEW label \in HoldsDocument, NEW next \in {"insertPayment", "record"},
              Write(h, label, next)
       PROVE  DebtInv'
  <2>1. /\ job[h].pc = label /\ runner' = runner /\ Goto(h, next)
        /\ balance' = [balance EXCEPT ![job[h].user] = job[h].read + job[h].amount]
    BY <1>12 DEF Write, WriteAmount
  <2>2. OthersStay(h) /\ job'[h].pc = next /\ next \notin HoldsDocument
    BY <1>0, <2>1, GotoOn DEF HoldsDocument
  <2> QED  BY <1>4, <2>1, <2>2
<1>13. CASE DebitFee(h) \/ Credit(h) \/ Debit(h)
    BY <1>12, <1>13 DEF DebitFee, Credit, Debit, HoldsDocument
<1>14. CASE UpdateUser(h)
  <2>1. /\ job[h].pc = "put" /\ runner' = runner /\ Return(h)
        /\ balance' = [balance EXCEPT ![job[h].user] = job[h].read]
    BY <1>14 DEF UpdateUser
  <2>2. job[h].amount = 0 /\ job[h].read \in Int
    BY <1>0, <2>1 DEF Amounts, Job
  <2>3. job[h].read + job[h].amount = job[h].read
    BY <2>2
  <2>4. OthersStay(h) /\ job'[h] = Idle
    BY <1>0, <2>1, ReturnOn
  <2>5. job'[h].pc \notin HoldsDocument /\ job[h].pc \in HoldsDocument
    BY <2>1, <2>4 DEF Idle, HoldsDocument
  <2> QED  BY <1>4, <2>1, <2>3, <2>4, <2>5
<1> QED
    BY <1>5, <1>6, <1>7, <1>8, <1>9, <1>10, <1>11, <1>13, <1>14 DEF Handler

\* The runner's step: it takes nothing but for a contract with a negative fee.
LEMMA RunnerAffords ==
    ASSUME PaymentInv, DebtInv, Debtors \subseteq Debtors', PaymentRunner \/ FailRunner
    PROVE  DebtInv'
<1> USE DEF accounts, counts, history
<1>0. RunnerInv /\ runner \in Runner /\ balance \in [Users -> Int] /\ PostInv /\ PayInv
    BY DEF PaymentInv, MoneyInv, RunnerInv, Balances
<1>1. job' = job
    BY DEF PaymentRunner, RunPayments, SkipPayment, FindPayee, FindPayeeFor, CreditProvider,
       SettlePayment, SettleAt, RecordReceipt, FailRunner
<1>2. Waiting.pc # "crediting" /\ \A todo : NextContract(todo).pc # "crediting"
    BY DEF Waiting, NextContract
<1>3. CASE runner'.pc # "crediting" /\ balance' = balance
    BY <1>1, <1>3, DebtKeeps
<1>4. CASE FindPayee
  <2>1. balance' = balance /\ runner.pc = "next"
    BY <1>4 DEF FindPayee, FindPayeeFor
  <2>2. CASE runner' = Waiting
    BY <1>2, <1>3, <2>1, <2>2
  <2>3. CASE runner' # Waiting
    <3>1. Payee \in Users /\ (Payee \in Debtors \/ balance[Payee] >= 0)
      BY <1>0, <2>1, AtContract DEF DebtInv
    <3>2. runner'.read = balance[Payee] /\ runner'.todo = runner.todo
      BY <1>0, <1>4, <2>3 DEF FindPayee, FindPayeeFor, Runner
    <3>3. Payee' = Payee
      BY <3>2 DEF Payee
    <3> QED  BY <1>1, <2>1, <3>1, <3>2, <3>3 DEF DebtInv, Affords
  <2> QED  BY <2>2, <2>3
<1>5. CASE CreditProvider
  <2>1. CASE Payee \in gone
    BY <1>2, <1>3, <1>5, <2>1 DEF CreditProvider
  <2>2. CASE Payee \notin gone
    <3>0. runner.pc = "crediting"
      BY <1>5 DEF CreditProvider
    <3>1. PICK c \in Contracts : c = Head(runner.todo)
      BY <1>0, <3>0, AtContract
    <3>2. Payee \in Users /\ Payee = ProviderOf[c]
      BY <1>0, <3>0, <3>1, AtContract DEF Payee
    <3>3. c \in tried
      <4>1. runner.todo \in Seq(Contracts) /\ runner.todo # <<>>
        BY <1>0, <3>0 DEF RunnerInv, Runner
      <4>2. InList(runner.todo, c)
        BY <3>1, <4>1, ShorterLists
      <4> QED  BY <1>0, <4>2 DEF PostInv
    <3>4. runner.read \in Int /\ runner.amount \in Int /\ Fee[c] \in Int
      BY <1>0, BillingAssumption DEF Runner
    <3>5. Fee[c] < 0 => Payee \in Debtors
      BY <3>2, <3>3 DEF Debtors, MayOwe
    <3>6. Fee[c] >= 0 => runner.amount > 0
      BY <1>0, <3>0, <3>1 DEF PayInv, RunnerAmount
    <3>7. Payee \in Debtors \/ runner.read >= 0
      BY <3>0 DEF DebtInv
    <3>8. Payee \in Debtors \/ runner.read + runner.amount >= 0
      BY <3>4, <3>5, <3>6, <3>7
    <3>9. balance' = [balance EXCEPT ![Payee] = runner.read + runner.amount]
            /\ runner'.pc = "settling"
      BY <1>0, <1>5, <2>2 DEF CreditProvider, Runner
    <3>10. \A u \in Users : u \in Debtors' \/ balance'[u] >= 0
      BY <1>0, <3>8, <3>9 DEF DebtInv
    <3> QED  BY <1>1, <3>9, <3>10 DEF DebtInv, Affords
  <2> QED  BY <2>1, <2>2
<1>6. RunPayments \/ SkipPayment \/ SettlePayment \/ RecordReceipt \/ FailRunner =>
         runner'.pc # "crediting" /\ balance' = balance
    BY <1>0, <1>2 DEF RunPayments, SkipPayment, SettlePayment, SettleAt, RecordReceipt,
       FailRunner, Waiting, Runner
<1> QED
    BY <1>3, <1>4, <1>5, <1>6 DEF PaymentRunner

\* Every step keeps DebtInv.
LEMMA DebtStep == PaymentInv /\ DebtInv /\ [Next]_vars => DebtInv'
<1> SUFFICES ASSUME PaymentInv, DebtInv, [Next]_vars
             PROVE  DebtInv'
    OBVIOUS
<1> USE DEF accounts, counts, history
<1>1. Debtors \subseteq Debtors'
    BY DebtorsGrow
<1>2. CASE UNCHANGED <<balance, runner, job>>
    BY <1>1, <1>2, DebtKeeps
<1>3. CASE Crash
  <2>1. balance' = balance /\ runner'.pc # "crediting" /\ \A h \in Handlers : job'[h] = Idle
    BY <1>3 DEF Crash, Waiting
  <2>2. Affords(Idle)
    BY DEF Affords, Idle, HoldsDocument
  <2> QED  BY <1>1, <2>1, <2>2, DebtKeeps DEF Affords
<1> QED
    BY <1>1, <1>2, <1>3, HandlerAffords, RunnerAffords DEF Next, vars, DeleteContract, DeleteUser, Tick

\* It holds at first.
LEMMA DebtInit == Init => DebtInv
<1> SUFFICES ASSUME Init  PROVE  DebtInv
    OBVIOUS
<1>1. \A u \in Users : balance[u] >= 0
    BY BillingAssumption DEF Init
<1>2. runner.pc # "crediting" /\ \A h \in Handlers : job[h] = Idle
    BY DEF Init, Waiting
<1>3. Affords(Idle)
    BY DEF Affords, Idle, HoldsDocument
<1> QED
    BY <1>1, <1>2, <1>3 DEF DebtInv

\* However handlers and the payment runner overwrite each other's documents, and
\* whatever fails, no balance is negative but that of a provider for which a
\* contract with a negative fee was posted.
THEOREM BalancesStayPositive == Spec => []NeverOverdrawn
<1>1. PaymentInv /\ DebtInv => NeverOverdrawn
  <2> SUFFICES ASSUME PaymentInv, DebtInv, NEW u \in Users, ~MayOwe(u)
               PROVE  ~(balance[u] < 0)
    BY DEF NeverOverdrawn
  <2>1. balance[u] \in Int /\ balance[u] >= 0
    BY DEF PaymentInv, MoneyInv, Balances, DebtInv, Debtors
  <2> QED  BY <2>1
<1>2. QED
    BY <1>1, PaymentInvInit, PaymentInvStep, DebtInit, DebtStep, PTL DEF Spec

-----------------------------------------------------------------------------
(***************************************************************************)
(* A document that two never had at once is as it was read, until the one  *)
(* who read it writes it.                                                  *)
(***************************************************************************)
Holds(h, u) == job[h].pc \in HoldsDocument /\ job[h].user = u
Credits(u) == runner.pc = "crediting" /\ Payee = u

FreshInv ==
    \A u \in Users \ raced :
        /\ \A h \in Handlers : Holds(h, u) => job[h].read = balance[u] /\ ~Credits(u)
        /\ Credits(u) => runner.read = balance[u]
        /\ \A h, g \in Handlers : Holds(h, u) /\ Holds(g, u) => h = g

\* A step after which nobody holds more, and what is held is as it was.
LEMMA FreshKeeps ==
    ASSUME FreshInv, raced \subseteq raced',
           \A u \in Users \ raced' : \A h \in Handlers :
               Holds(h, u)' => /\ Holds(h, u) /\ job'[h].read = job[h].read
                               /\ balance'[u] = balance[u],
           \A u \in Users \ raced' :
               Credits(u)' => /\ Credits(u) /\ runner'.read = runner.read
                              /\ balance'[u] = balance[u]
    PROVE  FreshInv'
<1> SUFFICES ASSUME NEW u \in Users \ raced'
             PROVE  /\ \A h \in Handlers : Holds(h, u)' => job'[h].read = balance'[u] /\ ~Credits(u)'
                    /\ Credits(u)' => runner'.read = balance'[u]
                    /\ \A h, g \in Handlers : Holds(h, u)' /\ Holds(g, u)' => h = g
    BY DEF FreshInv
<1>1. u \in Users \ raced
    OBVIOUS
<1> QED
    BY <1>1 DEF FreshInv

\* Who reads a document that nobody holds has it as it is.
LEMMA FreshRead ==
    ASSUME FreshInv, MoneyInv, NEW h \in Handlers, NEW u \in Users, NEW label, NEW c, NEW n,
           Read(h, u, label, c, n), UNCHANGED <<balance, runner>>, raced \subseteq raced'
    PROVE  FreshInv'
<1>1. job[h].pc = "idle" /\ Race(u)
    BY DEF Read
<1>2. OthersStay(h) /\ job'[h] = [pc |-> label, user |-> u, contract |-> c,
                                 read |-> balance[u], amount |-> n]
    BY ReadOn DEF MoneyInv
<1>3. job'[h].pc = label /\ job'[h].user = u /\ job'[h].read = balance[u]
    BY <1>2
<1>4. \A v : Credits(v)' <=> Credits(v)
    BY DEF Credits, Payee
<1>5. \A g \in Handlers \ {h}, v \in Users : Holds(g, v)' <=> Holds(g, v)
    BY <1>2 DEF OthersStay, Holds
<1>6. \A v \in Users : Holds(h, v)' => v = u
    BY <1>3 DEF Holds
<1> SUFFICES ASSUME NEW v \in Users \ raced'
             PROVE  /\ \A g \in Handlers : Holds(g, v)' => job'[g].read = balance'[v] /\ ~Credits(v)'
                    /\ Credits(v)' => runner'.read = balance'[v]
                    /\ \A f, g \in Handlers : Holds(f, v)' /\ Holds(g, v)' => f = g
    BY DEF FreshInv
<1>7. v \in Users \ raced
    OBVIOUS
<1>8. CASE v # u
    BY <1>2, <1>4, <1>5, <1>6, <1>7, <1>8 DEF FreshInv, OthersStay
<1>9. CASE v = u
  <2>1. ~Held(u)
    BY <1>1, <1>9 DEF Race
  <2>2. \A g \in Handlers : ~Holds(g, u)
    BY <2>1 DEF Held, Holds
  <2>3. ~Credits(u)
    BY <2>1 DEF Held, Credits
  <2> QED  BY <1>3, <1>4, <1>5, <1>9, <2>2, <2>3
<1> QED
    BY <1>8, <1>9

\* Who writes a document was the only one to hold it.
LEMMA FreshWrite ==
    ASSUME FreshInv, MoneyInv, NEW h \in Handlers, NEW n, job[h].pc \in HoldsDocument,
           balance' = [balance EXCEPT ![job[h].user] = n], OthersStay(h),
           job'[h].pc \notin HoldsDocument, UNCHANGED <<runner, raced>>
    PROVE  FreshInv'
<1> DEFINE u == job[h].user
<1>1. Holds(h, u)
    BY DEF Holds
<1>2. \A v \in Users \ {u} : balance'[v] = balance[v]
    BY DEF MoneyInv, Balances
<1>3. \A v : Credits(v)' <=> Credits(v)
    BY DEF Credits, Payee
<1>4. \A g \in Handlers, v \in Users : Holds(g, v)' => g # h /\ Holds(g, v) /\ job'[g].read = job[g].read
    BY DEF OthersStay, Holds
<1>5. \A g \in Handlers, v \in Users \ raced' : Holds(g, v)' => v # u
    BY <1>1, <1>4 DEF FreshInv
<1>6. \A v \in Users \ raced' : Credits(v)' => v # u
    BY <1>1, <1>3 DEF FreshInv
<1> HIDE DEF u
<1> QED
    BY <1>2, <1>3, <1>4, <1>5, <1>6, FreshKeeps

\* A handler that goes on holds no more,
LEMMA FreshGoto ==
    ASSUME FreshInv, MoneyInv, NEW h \in Handlers, NEW label, Goto(h, label),
           label \in HoldsDocument => job[h].pc \in HoldsDocument,
           UNCHANGED <<balance, runner, raced>>
    PROVE  FreshInv'
<1>1. OthersStay(h) /\ job'[h].pc = label /\ job'[h].user = job[h].user
        /\ job'[h].read = job[h].read
    BY GotoOn DEF MoneyInv
<1>2. \A v : Credits(v)' <=> Credits(v)
    BY DEF Credits, Payee
<1>3. \A g \in Handlers, v \in Users : Holds(g, v)' => Holds(g, v) /\ job'[g].read = job[g].read
    BY <1>1 DEF OthersStay, Holds
<1> QED
    BY <1>2, <1>3, FreshKeeps

\* and a handler that returns holds nothing.
LEMMA FreshReturn ==
    ASSUME FreshInv, MoneyInv, NEW h \in Handlers, Return(h), UNCHANGED <<balance, runner, raced>>
    PROVE  FreshInv'
<1>1. OthersStay(h) /\ job'[h] = Idle
    BY ReturnOn DEF MoneyInv
<1>2. \A v : Credits(v)' <=> Credits(v)
    BY DEF Credits, Payee
<1>3. \A g \in Handlers, v \in Users : Holds(g, v)' => Holds(g, v) /\ job'[g].read = job[g].read
    BY <1>1 DEF OthersStay, Holds, Idle, HoldsDocument
<1> QED
    BY <1>2, <1>3, FreshKeeps

\* A step of a handler keeps what it knows of documents.
LEMMA FreshHandler ==
    ASSUME FreshInv, MoneyInv, raced \subseteq raced', NEW h \in Handlers, Handler(h)
    PROVE  FreshInv'
<1> USE DEF accounts, counts, history
<1>1. ASSUME NEW c \in Contracts, PostContract(h, c)  PROVE  FreshInv'
  <2>1. RenterOf[c] \in Users
    BY BillingAssumption DEF Users
  <2> QED  BY <1>1, <2>1, FreshRead DEF PostContract
<1>2. ASSUME NEW u \in Users, NEW label, NEW n, Ask(h, u, label, n)  PROVE  FreshInv'
    BY <1>2, FreshRead DEF Ask
<1>3. \A r \in Renters : r \in Users
    BY DEF Users
<1>4. CASE DebitFee(h) \/ Credit(h) \/ Debit(h)
  <2>1. PICK label \in HoldsDocument, next \in {"insertPayment", "record"} : Write(h, label, next)
    BY <1>4 DEF DebitFee, Credit, Debit, HoldsDocument
  <2>2. Goto(h, next) /\ job[h].pc \in HoldsDocument /\ UNCHANGED <<runner, raced>>
          /\ balance' = [balance EXCEPT ![job[h].user] = job[h].read + job[h].amount]
    BY <2>1 DEF Write, WriteAmount
  <2>3. OthersStay(h) /\ job'[h].pc \notin HoldsDocument
    BY <2>1, <2>2, GotoOn DEF MoneyInv, HoldsDocument
  <2> QED  BY <2>2, <2>3, FreshWrite
<1>5. CASE UpdateUser(h)
  <2>1. OthersStay(h) /\ job'[h] = Idle
    BY <1>5, ReturnOn DEF UpdateUser, MoneyInv
  <2>2. job[h].pc \in HoldsDocument /\ job'[h].pc \notin HoldsDocument
    BY <1>5, <2>1 DEF UpdateUser, Idle, HoldsDocument
  <2> QED  BY <1>5, <2>1, <2>2, FreshWrite DEF UpdateUser
<1>6. CASE InsertPayment(h) \/ InsertContract(h)
    BY <1>6, FreshGoto DEF InsertPayment, InsertContract, HoldsDocument
<1>7. CASE Execute(h) \/ Payout(h)
    BY <1>7, FreshGoto, FreshReturn DEF Execute, Payout, HoldsDocument
<1>8. CASE Record(h) \/ FailHandler(h)
    BY <1>8, FreshReturn DEF Record, FailHandler
<1>9. ASSUME NEW r \in Renters, NEW cents \in Cents, Deposit(h, r, cents)  PROVE  FreshInv'
    BY <1>2, <1>3, <1>9 DEF Deposit
<1>10. ASSUME NEW u \in Users, NEW cents \in Cents, Withdraw(h, u, cents)  PROVE  FreshInv'
    BY <1>2, <1>10 DEF Withdraw
<1>11. ASSUME NEW u \in Users, PutUser(h, u)  PROVE  FreshInv'
    BY <1>2, <1>11 DEF PutUser
<1> QED
    BY <1>1, <1>4, <1>5, <1>6, <1>7, <1>8, <1>9, <1>10, <1>11 DEF Handler

\* Every step does.
LEMMA FreshStep ==
    ASSUME FreshInv, MoneyInv, RestOfTypes, [Next]_vars
    PROVE  FreshInv'
<1> USE DEF accounts, counts, history
<1>1. raced \subseteq raced'
    BY RacesGrow
<1>2. ASSUME UNCHANGED <<job, balance>>, runner'.pc # "crediting"  PROVE  FreshInv'
    BY <1>1, <1>2, FreshKeeps DEF Holds, Credits
<1>3. CASE UNCHANGED <<job, balance, runner>>
    BY <1>1, <1>3, FreshKeeps DEF Holds, Credits, Payee
<1>4. Waiting.pc = "waiting" /\ \A todo : NextContract(todo).pc \in {"waiting", "next"}
    BY DEF Waiting, NextContract
<1>5. CASE Crash
    BY <1>1, <1>4, <1>5, FreshKeeps DEF Crash, Holds, Credits, Idle, HoldsDocument
<1>6. CASE RunPayments \/ SkipPayment \/ RecordReceipt \/ FailRunner
  <2>1. UNCHANGED <<job, balance>> /\ runner'.pc # "crediting"
    BY <1>4, <1>6 DEF RunPayments, SkipPayment, RecordReceipt, FailRunner, Waiting
  <2> QED  BY <1>2, <2>1
<1>7. CASE SettlePayment
    BY <1>2, <1>7 DEF SettlePayment, SettleAt, MoneyInv, RunnerInv, Runner
<1>8. CASE FindPayee
  <2>1. UNCHANGED <<job, balance>> /\ runner.pc = "next"
    BY <1>8 DEF FindPayee, FindPayeeFor
  <2>2. CASE runner' = Waiting
    BY <1>2, <1>4, <2>1, <2>2
  <2>3. CASE runner' # Waiting
    <3>0. PICK u \in Users : u = Payee
      BY <2>1, AtContract DEF MoneyInv
    <3>1. Race(u) /\ \E n : runner' = [runner EXCEPT !.pc = "crediting", !.read = balance[u],
                                              !.amount = n]
      BY <1>8, <2>3, <3>0 DEF FindPayee, FindPayeeFor
    <3>2. runner'.read = balance[u] /\ runner'.todo = runner.todo
      BY <3>1 DEF MoneyInv, RunnerInv, Runner
    <3>3. \A v : Credits(v)' => v = u
      BY <3>0, <3>2 DEF Credits, Payee
    <3>4. \A h \in Handlers, v \in Users : Holds(h, v)' <=> Holds(h, v)
      BY <2>1 DEF Holds
    <3>5. u \notin raced' => \A h \in Handlers : ~Holds(h, u)
      BY <3>1 DEF Race, Held, Holds
    <3> SUFFICES ASSUME NEW v \in Users \ raced'
                 PROVE  /\ \A g \in Handlers : Holds(g, v)' => job'[g].read = balance'[v] /\ ~Credits(v)'
                        /\ Credits(v)' => runner'.read = balance'[v]
                        /\ \A f, g \in Handlers : Holds(f, v)' /\ Holds(g, v)' => f = g
        BY DEF FreshInv
    <3>6. v \in Users \ raced
      BY <1>1
    <3> QED  BY <2>1, <3>2, <3>3, <3>4, <3>5, <3>6 DEF FreshInv
  <2> QED  BY <2>2, <2>3
<1>9. CASE CreditProvider
  <2>1. UNCHANGED <<job, raced>> /\ runner.pc = "crediting" /\ Credits(Payee)
    BY <1>9 DEF CreditProvider, Credits
  <2>2. runner'.pc # "crediting"
    BY <1>4, <1>9 DEF CreditProvider, MoneyInv, RunnerInv, Runner
  <2>3. \A v \in Users \ {Payee} : balance'[v] = balance[v]
    BY <1>9 DEF CreditProvider, MoneyInv, Balances
  <2>4. \A h \in Handlers, v \in Users : Holds(h, v)' <=> Holds(h, v)
    BY <2>1 DEF Holds
  <2>5. \A h \in Handlers, v \in Users \ raced : Holds(h, v) => v # Payee
    BY <2>1 DEF FreshInv
  <2>6. \A v : ~Credits(v)'
    BY <2>2 DEF Credits
  <2> QED  BY <2>1, <2>3, <2>4, <2>5, <2>6, FreshKeeps
<1>10. ASSUME NEW h \in Handlers, Handler(h)  PROVE  FreshInv'
    BY <1>1, <1>10, FreshHandler
<1> QED
    BY <1>3, <1>5, <1>6, <1>7, <1>8, <1>9, <1>10 DEF Next, vars, DeleteContract, DeleteUser,
       PaymentRunner, Tick

\* It holds at first.
LEMMA FreshInit == Init => FreshInv
BY DEF Init, FreshInv, Holds, Credits, Idle, Waiting, HoldsDocument

-----------------------------------------------------------------------------
(***************************************************************************)
(* The transactions explain a balance that nobody overwrote.               *)
(***************************************************************************)
\* The places between the balance and the transaction.
Records == {"record", "insertPayment", "insertContract"}

\* What a handler, and the runner, still has to record for u.
Share(j, u) == IF j.user = u /\ j.pc \in Records THEN j.amount ELSE 0
RunnerShare(u) == IF runner.pc \in {"settling", "recording"} /\ Payee = u THEN runner.amount ELSE 0
Shares(u) == SumFunctionOnSet([h \in Handlers |-> Share(job[h], u)], Handlers)

\* They are what Unrecorded adds up.
LEMMA UnrecordedIsShares ==
    ASSUME MoneyInv, NEW u
    PROVE  /\ Unrecorded(u) = Shares(u) + RunnerShare(u)
           /\ Shares(u) \in Int /\ RunnerShare(u) \in Int
           /\ \A h \in Handlers : Share(job[h], u) \in Int
<1> DEFINE f == [h \in Handlers |-> job[h].amount]
           g == [h \in Handlers |-> Share(job[h], u)]
           T == {h \in Handlers : job[h].user = u
                                  /\ job[h].pc \in {"record", "insertPayment", "insertContract"}}
<1>1. \A h \in Handlers : job[h].amount \in Int
    BY DEF MoneyInv, JobInv, Job
<1>2. \A h \in Handlers : Share(job[h], u) \in Int
    BY <1>1 DEF Share
<1>3. RunnerShare(u) \in Int
    BY DEF RunnerShare, MoneyInv, RunnerInv, Runner
<1>4. IsFiniteSet(Handlers) /\ T \subseteq Handlers /\ \A h \in T : f[h] \in Int /\ g[h] = f[h]
    BY <1>1, BillingAssumption DEF Share, Records
<1>5. \A h \in Handlers \ T : g[h] = 0
    BY DEF Share, Records
<1>6. \A h \in Handlers : g[h] \in Int
    BY <1>2
<1> HIDE DEF f, g, T
<1>7. SumFunctionOnSet(g, Handlers) = SumFunctionOnSet(f, T)
    BY <1>4, <1>5, SumOfSome
<1>8. SumFunctionOnSet(g, Handlers) \in Int
    BY <1>4, <1>6, SumType
<1> QED
    BY <1>2, <1>3, <1>7, <1>8 DEF Unrecorded, Shares, RunnerShare, f, g, T

\* All of them are numbers.
SharesOK == \A u \in Users : Shares(u) \in Int /\ RunnerShare(u) \in Int

\* They are, when the state has its types.
LEMMA SharesType == MoneyInv => SharesOK
BY UnrecordedIsShares DEF SharesOK

\* When one handler moves, its share alone changes.
LEMMA SharesMove ==
    ASSUME MoneyInv, MoneyInv', NEW h \in Handlers, OthersStay(h), NEW u
    PROVE  Shares(u)' = Shares(u) - Share(job[h], u) + Share(job'[h], u)
<1> DEFINE f == [g \in Handlers |-> Share(job[g], u)]
           k == [g \in Handlers |-> Share(job'[g], u)]
<1>1. \A g \in Handlers : f[g] \in Int /\ k[g] \in Int
  <2>1. \A g \in Handlers : job[g].amount \in Int /\ job'[g].amount \in Int
    BY DEF MoneyInv, JobInv, Job
  <2> QED  BY <2>1 DEF Share
<1>2. \A g \in Handlers \ {h} : k[g] = f[g]
    BY DEF OthersStay
<1>3. f[h] = Share(job[h], u) /\ k[h] = Share(job'[h], u) /\ IsFiniteSet(Handlers)
    BY BillingAssumption
<1>4. Shares(u) = SumFunctionOnSet(f, Handlers)
    BY DEF Shares
<1>5. Shares(u)' = SumFunctionOnSet(k, Handlers)
    BY DEF Shares
<1> HIDE DEF f, k
<1> QED
    BY <1>1, <1>2, <1>3, <1>4, <1>5, SumChanges

\* The balance of u is what the transactions and the shares explain.
Explained(u) == balance[u] = Opening[u] + statement[u] + Shares(u) + RunnerShare(u)

\* A step that changes the balance as it changes the rest of the account.
LEMMA ExplainedKeeps ==
    ASSUME MoneyInv, RestOfTypes, NEW u \in Users, Explained(u),
           NEW t \in Int, NEW x \in Int, NEW r \in Int,
           balance'[u] = balance[u] + t + x + r, statement'[u] = statement[u] + t,
           Shares(u)' = Shares(u) + x, RunnerShare(u)' = RunnerShare(u) + r
    PROVE  Explained(u)'
<1>1. Shares(u) \in Int /\ RunnerShare(u) \in Int
    BY SharesType DEF SharesOK
<1>2. balance[u] \in Int /\ Opening[u] \in Int /\ statement[u] \in Int
    BY BillingAssumption DEF MoneyInv, Balances, RestOfTypes
<1>3. balance[u] = Opening[u] + statement[u] + Shares(u) + RunnerShare(u)
    BY DEF Explained
<1>4. balance'[u] = Opening[u] + statement'[u] + Shares(u)' + RunnerShare(u)'
    BY <1>1, <1>2, <1>3
<1> QED
    BY <1>4 DEF Explained

\* What one handler moves.
LEMMA HandlerExplains ==
    ASSUME MoneyInv, MoneyInv', RestOfTypes, NEW u \in Users, Explained(u),
           NEW h \in Handlers, OthersStay(h), runner' = runner, NEW t \in Int, NEW x \in Int,
           Share(job'[h], u) = Share(job[h], u) + x,
           balance'[u] = balance[u] + t + x, statement'[u] = statement[u] + t
    PROVE  Explained(u)'
<1>1. Shares(u) \in Int /\ Share(job[h], u) \in Int
    BY UnrecordedIsShares
<1>2. Shares(u)' = Shares(u) - Share(job[h], u) + Share(job'[h], u)
    BY SharesMove
<1>3. Shares(u)' = Shares(u) + x
    BY <1>1, <1>2
<1>4. RunnerShare(u) \in Int /\ balance[u] \in Int
    BY UnrecordedIsShares DEF MoneyInv, Balances
<1>5. RunnerShare(u)' = RunnerShare(u)
    BY DEF RunnerShare, Payee
<1>6. RunnerShare(u)' = RunnerShare(u) + 0 /\ balance'[u] = balance[u] + t + x + 0
    BY <1>4, <1>5
<1> QED
    BY <1>3, <1>6, ExplainedKeeps

\* What one handler leaves alone.
LEMMA HandlerLeaves ==
    ASSUME MoneyInv, MoneyInv', RestOfTypes, NEW u \in Users, Explained(u),
           NEW h \in Handlers, OthersStay(h), runner' = runner,
           Share(job'[h], u) = Share(job[h], u),
           balance'[u] = balance[u], statement'[u] = statement[u]
    PROVE  Explained(u)'
<1>1. PICK z \in Int : z = 0
    OBVIOUS
<1>2. Share(job[h], u) \in Int /\ balance[u] \in Int /\ statement[u] \in Int
    BY DEF MoneyInv, Balances, JobInv, Job, RestOfTypes, Share
<1>3. /\ Share(job'[h], u) = Share(job[h], u) + z
      /\ balance'[u] = balance[u] + z + z /\ statement'[u] = statement[u] + z
    BY <1>1, <1>2
<1> QED
    BY <1>3, HandlerExplains

\* What the runner moves.
LEMMA RunnerExplains ==
    ASSUME MoneyInv, RestOfTypes, NEW u \in Users, Explained(u), job' = job,
           NEW t \in Int, NEW r \in Int, RunnerShare(u)' = RunnerShare(u) + r,
           balance'[u] = balance[u] + t + r, statement'[u] = statement[u] + t
    PROVE  Explained(u)'
<1>1. Shares(u) \in Int /\ balance[u] \in Int
    BY UnrecordedIsShares DEF MoneyInv, Balances
<1>2. Shares(u)' = Shares(u) + 0 /\ balance'[u] = balance[u] + t + 0 + r
    BY <1>1 DEF Shares
<1> QED
    BY <1>2, ExplainedKeeps

\* What the runner leaves alone.
LEMMA RunnerLeaves ==
    ASSUME MoneyInv, RestOfTypes, NEW u \in Users, Explained(u), job' = job,
           RunnerShare(u)' = RunnerShare(u),
           balance'[u] = balance[u], statement'[u] = statement[u]
    PROVE  Explained(u)'
<1>1. PICK z \in Int : z = 0
    OBVIOUS
<1>2. RunnerShare(u) \in Int /\ balance[u] \in Int /\ statement[u] \in Int
    BY UnrecordedIsShares DEF MoneyInv, Balances, RestOfTypes
<1>3. /\ RunnerShare(u)' = RunnerShare(u) + z
      /\ balance'[u] = balance[u] + z + z /\ statement'[u] = statement[u] + z
    BY <1>1, <1>2
<1> QED
    BY <1>3, RunnerExplains

\* A handler's step keeps an account explained that only it may have open.
LEMMA ExplainedByHandler ==
    ASSUME MoneyInv, MoneyInv', RestOfTypes, AmountInv, FreshInv, NEW h \in Handlers, Handler(h),
           NEW u \in Users \ raced, u \notin gone, Explained(u), faults = 0, faults' = 0
    PROVE  Explained(u)'
<1> USE DEF accounts, counts, history
<1>0. /\ job[h].amount \in Int /\ balance[u] \in Int /\ statement[u] \in Int /\ JobInv
      /\ balance \in [Users -> Int] /\ statement \in [Users -> Int]
      /\ Share(job[h], u) \in Int
    BY DEF MoneyInv, JobInv, Job, Balances, RestOfTypes, Share
<1>1. ASSUME OthersStay(h), UNCHANGED <<runner, balance, statement>>,
             Share(job'[h], u) = Share(job[h], u)
      PROVE  Explained(u)'
    BY <1>1, HandlerLeaves
<1>2. ASSUME NEW v, NEW label \in HoldsDocument, NEW c, NEW n, Read(h, v, label, c, n),
             UNCHANGED <<runner, balance, statement>>
      PROVE  Explained(u)'
  <2>1. /\ OthersStay(h) /\ job[h].pc = "idle"
        /\ job'[h] = [pc |-> label, user |-> v, contract |-> c,
                      read |-> balance[v], amount |-> n]
    <3>1. /\ OthersStay(h)
          /\ job'[h] = [pc |-> label, user |-> v, contract |-> c,
                        read |-> balance[v], amount |-> n]
      BY <1>0, <1>2, ReadOn
    <3> QED  BY <1>2, <3>1 DEF Read
  <2>2. Share(job[h], u) = 0 /\ Share(job'[h], u) = 0
    BY <2>1 DEF Share, Records, HoldsDocument
  <2> QED  BY <1>1, <1>2, <2>1, <2>2
<1>3. ASSUME Return(h), job[h].pc \notin Records, UNCHANGED <<runner, balance, statement>>
      PROVE  Explained(u)'
  <2>1. OthersStay(h) /\ job'[h] = Idle
    BY <1>0, <1>3, ReturnOn
  <2>2. Share(job[h], u) = 0 /\ Share(job'[h], u) = 0
    BY <1>3, <2>1 DEF Share, Records, Idle
  <2> QED  BY <1>1, <1>3, <2>1, <2>2
<1>4. ASSUME NEW label, Goto(h, label), label \in Records <=> job[h].pc \in Records,
             UNCHANGED <<runner, balance, statement>>
      PROVE  Explained(u)'
  <2>1. OthersStay(h) /\ Share(job'[h], u) = Share(job[h], u)
    BY <1>0, <1>4, GotoOn DEF Share
  <2> QED  BY <1>1, <1>4, <2>1
<1>5. ASSUME NEW label \in HoldsDocument, NEW next \in Records, Write(h, label, next)
      PROVE  Explained(u)'
  <2>1. /\ job[h].pc = label /\ Goto(h, next) /\ UNCHANGED <<runner, statement>>
        /\ balance' = [balance EXCEPT ![job[h].user] = job[h].read + job[h].amount]
    BY <1>5 DEF Write, WriteAmount
  <2>2. /\ OthersStay(h) /\ job'[h].pc = next /\ job'[h].user = job[h].user
        /\ job'[h].amount = job[h].amount
    BY <1>0, <2>1, GotoOn
  <2>3. Share(job[h], u) = 0
    BY <2>1 DEF Share, Records, HoldsDocument
  <2>4. CASE job[h].user = u
    <3>1. job[h].read = balance[u]
      BY <2>1, <2>4 DEF FreshInv, Holds
    <3>2. Share(job'[h], u) = Share(job[h], u) + job[h].amount
      BY <1>0, <2>2, <2>3, <2>4 DEF Share
    <3>3. balance'[u] = balance[u] + 0 + job[h].amount /\ statement'[u] = statement[u] + 0
      BY <1>0, <2>1, <2>4, <3>1
    <3> QED  BY <1>0, <2>1, <2>2, <3>2, <3>3, HandlerExplains
  <2>5. CASE job[h].user # u
    <3>1. Share(job'[h], u) = 0
      BY <2>2, <2>5 DEF Share
    <3>2. /\ Share(job'[h], u) = Share(job[h], u)
          /\ balance'[u] = balance[u] /\ statement'[u] = statement[u]
      BY <1>0, <2>1, <2>3, <2>5, <3>1
    <3> QED  BY <2>1, <2>2, <3>2, HandlerLeaves
  <2> QED  BY <2>4, <2>5
<1>6. CASE Record(h)
  <2>1. /\ job[h].pc = "record" /\ Return(h) /\ UNCHANGED <<runner, balance>>
        /\ statement' = [statement EXCEPT ![job[h].user] = @ + job[h].amount]
    BY <1>6 DEF Record
  <2>2. OthersStay(h) /\ job'[h] = Idle
    BY <1>0, <2>1, ReturnOn
  <2>3. Share(job'[h], u) = 0
    BY <2>2 DEF Share, Idle, Records
  <2>4. CASE job[h].user = u
    <3>1. Share(job[h], u) = job[h].amount
      BY <2>1, <2>4 DEF Share, Records
    <3>2. Share(job'[h], u) = Share(job[h], u) + (-job[h].amount) /\ -job[h].amount \in Int
      BY <1>0, <2>3, <3>1
    <3>3. statement'[u] = statement[u] + job[h].amount
      BY <1>0, <2>1, <2>4
    <3>4. balance'[u] = balance[u] + job[h].amount + (-job[h].amount)
      BY <1>0, <2>1
    <3> QED  BY <1>0, <2>1, <2>2, <3>2, <3>3, <3>4, HandlerExplains
  <2>5. CASE job[h].user # u
    <3>1. Share(job[h], u) = 0 /\ statement'[u] = statement[u]
      BY <1>0, <2>1, <2>5 DEF Share
    <3>2. Share(job'[h], u) = Share(job[h], u) /\ balance'[u] = balance[u]
      BY <2>1, <2>3, <3>1
    <3> QED  BY <2>1, <2>2, <3>1, <3>2, HandlerLeaves
  <2> QED  BY <2>4, <2>5
<1>7. CASE UpdateUser(h)
  <2>1. /\ job[h].pc = "put" /\ Return(h) /\ UNCHANGED <<runner, statement>>
        /\ balance' = [balance EXCEPT ![job[h].user] = job[h].read]
    BY <1>7 DEF UpdateUser
  <2>2. OthersStay(h) /\ job'[h] = Idle
    BY <1>0, <2>1, ReturnOn
  <2>3. Share(job[h], u) = 0 /\ Share(job'[h], u) = 0
    BY <2>1, <2>2 DEF Share, Records, Idle
  <2>4. job[h].user = u => job[h].read = balance[u]
    BY <2>1 DEF FreshInv, Holds, HoldsDocument
  <2>5. /\ Share(job'[h], u) = Share(job[h], u)
        /\ balance'[u] = balance[u] /\ statement'[u] = statement[u]
    BY <1>0, <2>1, <2>3, <2>4
  <2> QED  BY <2>1, <2>2, <2>5, HandlerLeaves
<1>8. CASE FailHandler(h)
  <2>1. job[h].pc \in HoldsDocument /\ Return(h) /\ UNCHANGED <<runner, balance, statement>>
    BY <1>8 DEF FailHandler
  <2>2. job[h].pc \notin Records
    BY <2>1 DEF Records, HoldsDocument
  <2> QED  BY <1>3, <2>1, <2>2
<1>9. ASSUME NEW c \in Contracts, PostContract(h, c)  PROVE  Explained(u)'
    BY <1>2, <1>9 DEF PostContract, HoldsDocument
<1>10. ASSUME NEW v, NEW label \in HoldsDocument, NEW n, Ask(h, v, label, n)  PROVE  Explained(u)'
    BY <1>2, <1>10 DEF Ask
<1>11. ASSUME NEW v, NEW cents, Deposit(h, v, cents) \/ Withdraw(h, v, cents) \/ PutUser(h, v)
       PROVE  Explained(u)'
    BY <1>10, <1>11 DEF Deposit, Withdraw, PutUser, HoldsDocument
<1>12. CASE InsertPayment(h) \/ InsertContract(h)
    BY <1>4, <1>12 DEF InsertPayment, InsertContract, Records
<1>13. CASE Execute(h) \/ Payout(h)
    BY <1>3, <1>4, <1>13 DEF Execute, Payout, Records
<1>14. CASE DebitFee(h) \/ Credit(h) \/ Debit(h)
    BY <1>5, <1>14 DEF DebitFee, Credit, Debit, Records, HoldsDocument
<1> QED
    BY <1>6, <1>7, <1>8, <1>9, <1>11, <1>12, <1>13, <1>14 DEF Handler

\* The runner's step.
LEMMA ExplainedByRunner ==
    ASSUME MoneyInv, MoneyInv', RestOfTypes, FreshInv, PaymentRunner,
           NEW u \in Users \ raced, u \notin gone, Explained(u)
    PROVE  Explained(u)'
<1> USE DEF accounts, counts, history
<1>0. /\ balance[u] \in Int /\ statement[u] \in Int /\ runner.amount \in Int /\ RunnerShare(u) \in Int
      /\ balance \in [Users -> Int] /\ statement \in [Users -> Int]
      /\ runner \in Runner
    BY DEF MoneyInv, RunnerInv, Runner, Balances, RestOfTypes, RunnerShare
<1>1. ASSUME UNCHANGED <<job, balance, statement>>, RunnerShare(u)' = RunnerShare(u)
      PROVE  Explained(u)'
    BY <1>1, RunnerLeaves
<1>2. \A todo : NextContract(todo).pc \in {"waiting", "next"} /\ Waiting.pc = "waiting"
    BY DEF NextContract, Waiting
<1>3. CASE RunPayments \/ SkipPayment \/ FindPayee
  <2>1. RunnerShare(u) = 0
    BY <1>3 DEF RunPayments, SkipPayment, FindPayee, FindPayeeFor, RunnerShare
  <2>2. runner'.pc \in {"waiting", "next", "crediting"}
    BY <1>0, <1>2, <1>3 DEF RunPayments, SkipPayment, FindPayee, FindPayeeFor, Waiting, Runner
  <2>3. RunnerShare(u)' = 0
    BY <2>2 DEF RunnerShare
  <2> QED  BY <1>1, <1>3, <2>1, <2>3 DEF RunPayments, SkipPayment, FindPayee, FindPayeeFor
<1>4. CASE CreditProvider
  <2>1. runner.pc = "crediting" /\ UNCHANGED <<job, statement>> /\ RunnerShare(u) = 0
    BY <1>4 DEF CreditProvider, RunnerShare
  <2>2. CASE Payee \in gone
    BY <1>1, <1>2, <1>4, <2>1, <2>2 DEF CreditProvider, RunnerShare
  <2>3. CASE Payee \notin gone
    <3>1. /\ runner'.pc = "settling" /\ runner'.amount = runner.amount /\ Payee' = Payee
          /\ balance' = [balance EXCEPT ![Payee] = runner.read + runner.amount]
      BY <1>0, <1>4, <2>3 DEF CreditProvider, Runner, Payee
    <3>2. CASE Payee = u
      <4>1. runner.read = balance[u]
        BY <2>1, <3>2 DEF FreshInv, Credits
      <4>2. RunnerShare(u)' = RunnerShare(u) + runner.amount
        BY <1>0, <2>1, <3>1, <3>2 DEF RunnerShare
      <4>3. balance'[u] = balance[u] + 0 + runner.amount /\ statement'[u] = statement[u] + 0
        BY <1>0, <2>1, <3>1, <3>2, <4>1
      <4> QED  BY <1>0, <2>1, <4>2, <4>3, RunnerExplains
    <3>3. CASE Payee # u
      <4>1. RunnerShare(u)' = RunnerShare(u)
        BY <2>1, <3>1, <3>3 DEF RunnerShare
      <4>2. balance'[u] = balance[u] /\ statement'[u] = statement[u]
        BY <1>0, <2>1, <3>1, <3>3
      <4> QED  BY <2>1, <4>1, <4>2, RunnerLeaves
    <3> QED  BY <3>2, <3>3
  <2> QED  BY <2>2, <2>3
<1>5. CASE SettlePayment
  <2>1. RunnerShare(u)' = RunnerShare(u)
    BY <1>0, <1>5 DEF SettlePayment, SettleAt, RunnerShare, Runner, Payee
  <2> QED  BY <1>1, <1>5, <2>1 DEF SettlePayment, SettleAt
<1>6. CASE RecordReceipt
  <2>1. /\ runner.pc = "recording" /\ UNCHANGED <<job, balance>>
        /\ statement' = [statement EXCEPT ![Payee] = @ + runner.amount]
    BY <1>6 DEF RecordReceipt
  <2>2. RunnerShare(u)' = 0
    BY <1>2, <1>6 DEF RecordReceipt, RunnerShare
  <2>3. CASE Payee = u
    <3>0. PICK r \in Int : r = -runner.amount
      BY <1>0
    <3>1. RunnerShare(u) = runner.amount
      BY <2>1, <2>3 DEF RunnerShare
    <3>2. RunnerShare(u)' = RunnerShare(u) + r
      BY <1>0, <2>2, <3>0, <3>1
    <3>3. PICK t \in Int : t = runner.amount
      BY <1>0
    <3>4. balance'[u] = balance[u] + t + r /\ statement'[u] = statement[u] + t
      BY <1>0, <2>1, <2>3, <3>0, <3>3
    <3> QED  BY <2>1, <3>2, <3>4, RunnerExplains
  <2>4. CASE Payee # u
    <3>1. RunnerShare(u) = 0 /\ statement'[u] = statement[u]
      BY <1>0, <2>1, <2>4 DEF RunnerShare
    <3> QED  BY <2>1, <2>2, <3>1, RunnerLeaves
  <2> QED  BY <2>3, <2>4
<1> QED
    BY <1>3, <1>4, <1>5, <1>6 DEF PaymentRunner

ExplainInv == faults = 0 => \A u \in Users \ (raced \cup gone) : Explained(u)

\* Every step keeps the accounts explained, unless a call fails in it.
LEMMA ExplainStep ==
    ASSUME MoneyInv, RestOfTypes, AmountInv, FreshInv, ExplainInv, [Next]_vars
    PROVE  ExplainInv'
<1> USE DEF accounts, counts, history
<1>1. MoneyInv' /\ raced \subseteq raced'
    BY MoneyInvStep, RacesGrow
<1>2. faults \in Nat /\ (faults' = 0 => faults = 0) /\ gone \subseteq gone'
  <2>1. faults' = faults \/ faults' = faults + 1
    BY DEF Next, Handler, vars, PostContract, DebitFee, InsertPayment,
       InsertContract, Record, Deposit, Execute, Credit, Withdraw, Payout, Debit, PutUser,
       UpdateUser, FailHandler, Ask, Write, WriteAmount, DeleteContract, DeleteUser,
       PaymentRunner, RunPayments, SkipPayment, FindPayee, FindPayeeFor, CreditProvider,
       SettlePayment, SettleAt, RecordReceipt, FailRunner, Tick, Crash
  <2>2. gone \subseteq gone'
    BY DEF Next, Handler, vars, PostContract, DebitFee, InsertPayment,
       InsertContract, Record, Deposit, Execute, Credit, Withdraw, Payout, Debit, PutUser,
       UpdateUser, FailHandler, Ask, Write, WriteAmount, DeleteContract, DeleteUser,
       PaymentRunner, RunPayments, SkipPayment, FindPayee, FindPayeeFor, CreditProvider,
       SettlePayment, SettleAt, RecordReceipt, FailRunner, Tick, Crash
  <2> QED  BY <2>1, <2>2 DEF RestOfTypes
<1> SUFFICES ASSUME faults' = 0, NEW u \in Users \ (raced' \cup gone')
             PROVE  Explained(u)'
    BY DEF ExplainInv
<1>3. u \in Users \ raced /\ u \notin gone /\ Explained(u) /\ faults = 0
    BY <1>1, <1>2 DEF ExplainInv
<1>4. CASE UNCHANGED <<job, balance, statement, runner>>
    BY <1>3, <1>4, RunnerLeaves DEF RunnerShare, Payee
<1>5. ~Crash /\ ~FailRunner
    BY <1>3 DEF Crash, FailRunner
<1> QED
    BY <1>1, <1>3, <1>4, <1>5, ExplainedByHandler, ExplainedByRunner
       DEF Next, vars, DeleteContract, DeleteUser, Tick

\* It holds at first.
LEMMA ExplainInit == Init => ExplainInv
<1> SUFFICES ASSUME Init, NEW u \in Users  PROVE  Explained(u)
    BY DEF ExplainInv
<1>1. balance[u] = Opening[u] /\ statement[u] = 0 /\ RunnerShare(u) = 0 /\ Opening[u] \in Int
    BY BillingAssumption DEF Init, RunnerShare, Waiting
<1>2. \A h \in Handlers : Share(job[h], u) = 0
    BY DEF Init, Idle, Share, Records
<1>3. Shares(u) = 0
    BY <1>2, SumOfZeros, BillingAssumption DEF Shares
<1> QED
    BY <1>1, <1>3 DEF Explained

\* If no call failed, the transactions explain the balance of every user whose
\* document was never in two hands at once, whatever others did meanwhile.
THEOREM StatementsExplain == Spec => []StatementExplains
<1> DEFINE Inv == PaymentInv /\ FreshInv /\ ExplainInv
<1>1. Init => Inv
    BY PaymentInvInit, FreshInit, ExplainInit
<1>2. Inv /\ [Next]_vars => Inv'
    BY PaymentInvStep, FreshStep, ExplainStep DEF PaymentInv
<1>3. Inv => StatementExplains
  <2> SUFFICES ASSUME Inv, faults = 0, NEW u \in Users \ (raced \cup gone)
               PROVE  balance[u] = Opening[u] + statement[u] + Unrecorded(u)
    BY DEF StatementExplains
  <2>1. balance[u] = Opening[u] + statement[u] + Shares(u) + RunnerShare(u)
    BY DEF ExplainInv, Explained
  <2>2. Shares(u) \in Int /\ RunnerShare(u) \in Int /\ Unrecorded(u) = Shares(u) + RunnerShare(u)
    BY UnrecordedIsShares DEF PaymentInv
  <2>3. Opening[u] \in Int /\ statement[u] \in Int
    BY BillingAssumption DEF PaymentInv, RestOfTypes
  <2> QED  BY <2>1, <2>2, <2>3
<1>4. QED
    BY <1>1, <1>2, <1>3, PTL DEF Spec

-----------------------------------------------------------------------------
(***************************************************************************)
(* What SkyBin owes is covered.                                            *)
(***************************************************************************)
Money == SumFunctionOnSet(balance, Users \ gone)
FeesLeft == SumFunctionOnSet([c \in Contracts |-> payment[c].left], Contracts)

\* What a handler has taken from one side and not yet given to the other.
Slack(j) ==
    IF j.pc = "insertPayment" THEN -j.amount
    ELSE IF j.pc \in {"credit", "debit"} THEN j.amount ELSE 0
Slacks == SumFunctionOnSet([h \in Handlers |-> Slack(job[h])], Handlers)

\* What came in since the start, and was cut in two, next to what is owed.
Surplus == (bank + torn + TornByRunner) - (Money + FeesLeft + Slacks)

Endowment == SumFunctionOnSet(Opening, Users) + SumFunctionOnSet(Fee, ToSet(Formed))

NoneOwes == \A c \in tried : Fee[c] >= 0

SolventInv == raced = {} /\ NoneOwes => 0 <= Endowment + Surplus

\* Without negative fees, none of the amounts that matter is negative.
LEMMA NoDebts ==
    ASSUME PaymentInv, DebtInv, NoneOwes
    PROVE  /\ \A u \in Users : balance[u] \in Nat
           /\ \A h \in Handlers : job[h].pc = "insertPayment" => Fee[job[h].contract] \in Nat
           /\ runner.pc \in {"crediting", "settling"} => runner.amount \in Nat
<1>1. MoneyInv /\ JobInv /\ RunnerInv /\ Balances /\ PostInv /\ PayInv
    BY DEF PaymentInv, MoneyInv
<1>2. Debtors = {}
    BY BillingAssumption DEF NoneOwes, Debtors, MayOwe, PaymentInv, PostInv
<1>3. \A u \in Users : balance[u] \in Nat
    BY <1>1, <1>2 DEF Balances, DebtInv
<1>4. ASSUME NEW h \in Handlers, job[h].pc = "insertPayment"  PROVE  Fee[job[h].contract] \in Nat
  <2>1. PICK c \in Contracts : c = job[h].contract
    BY <1>1, <1>4 DEF JobInv, Covers, HoldsContract
  <2>2. c \in tried
    BY <1>1, <1>4, <2>1 DEF PostInv, Posting, Posts, HoldsContract
  <2>3. Fee[c] \in Int /\ Fee[c] >= 0
    BY <2>2, BillingAssumption DEF NoneOwes
  <2> QED  BY <2>1, <2>3
<1>5. ASSUME runner.pc \in {"crediting", "settling"}  PROVE  runner.amount \in Nat
  <2>1. PICK c \in Contracts : c = Head(runner.todo)
    BY <1>1, <1>5, AtContract
  <2>2. runner.todo \in Seq(Contracts) /\ runner.todo # <<>> /\ runner.amount \in Int
    BY <1>1, <1>5 DEF RunnerInv, Runner
  <2>3. InList(runner.todo, c)
    BY <2>1, <2>2, ShorterLists
  <2>4. c \in tried
    BY <1>1, <2>3 DEF PostInv
  <2>5. Fee[c] >= 0
    BY <2>4 DEF NoneOwes
  <2>6. runner.amount > 0
    BY <1>1, <1>5, <2>1, <2>5 DEF PayInv, RunnerAmount
  <2> QED  BY <2>2, <2>6
<1> QED
    BY <1>3, <1>4, <1>5

\* All of these are numbers.
SurplusOK ==
    /\ Money \in Int /\ FeesLeft \in Int /\ Slacks \in Int
    /\ bank \in Int /\ torn \in Int /\ TornByRunner \in Int

\* They are, when the state has its types.
LEMMA SurplusType == PaymentInv => SurplusOK
<1> SUFFICES ASSUME PaymentInv  PROVE  SurplusOK
    OBVIOUS
<1>1. IsFiniteSet(Users \ gone) /\ IsFiniteSet(Contracts) /\ IsFiniteSet(Handlers)
    BY BillingAssumption, FS_Subset
<1>2. \A u \in Users \ gone : balance[u] \in Int
    BY DEF PaymentInv, MoneyInv, Balances
<1>3. \A c \in Contracts : payment[c].left \in Int
    BY DEF PaymentInv, MoneyInv, RunnerInv, Payment
<1>4. \A h \in Handlers : Slack(job[h]) \in Int
  <2>1. \A h \in Handlers : job[h].amount \in Int
    BY DEF PaymentInv, MoneyInv, JobInv, Job
  <2> QED  BY <2>1 DEF Slack
<1>5. Money \in Int
    BY <1>1, <1>2, SumType DEF Money
<1>6. FeesLeft \in Int
    BY <1>1, <1>3, SumType DEF FeesLeft
<1>7. Slacks \in Int
    BY <1>1, <1>4, SumType DEF Slacks
<1>8. TornByRunner \in Int /\ torn \in Int /\ bank \in Int
    BY DEF TornByRunner, PaymentInv, MoneyInv, RunnerInv, Runner, RestOfTypes
<1> QED
    BY <1>5, <1>6, <1>7, <1>8 DEF SurplusOK

\* An amount more on one account is an amount more in all.
LEMMA MoneyMoves ==
    ASSUME Balances, Balances', NEW u \in Users, u \notin gone, gone' = gone, NEW n \in Int,
           balance' = [balance EXCEPT ![u] = balance[u] + n]
    PROVE  Money' = Money + n
<1> DEFINE S == Users \ gone
<1>1. IsFiniteSet(S) /\ u \in S
    BY BillingAssumption, FS_Subset
<1>2. \A v \in S : balance[v] \in Int /\ balance'[v] \in Int
    BY DEF Balances
<1>3. \A v \in S \ {u} : balance'[v] = balance[v]
    BY DEF Balances
<1>4. balance'[u] = balance[u] + n /\ balance[u] \in Int
    BY DEF Balances
<1>5. Money = SumFunctionOnSet(balance, S)
    BY DEF Money
<1>6. Money' = SumFunctionOnSet(balance', S)
    BY DEF Money
<1> HIDE DEF S
<1>7. SumFunctionOnSet(balance', S) = SumFunctionOnSet(balance, S) - balance[u] + balance'[u]
  <2>1. PICK f, g : f = balance /\ g = balance'
    OBVIOUS
  <2>2. /\ \A v \in S : f[v] \in Int /\ g[v] \in Int
        /\ \A v \in S \ {u} : g[v] = f[v]
    BY <1>2, <1>3, <2>1
  <2>3. SumFunctionOnSet(g, S) = SumFunctionOnSet(f, S) - f[u] + g[u]
    BY <1>1, <2>2, SumChanges
  <2> QED  BY <2>1, <2>3
<1>8. SumFunctionOnSet(balance, S) \in Int
    BY <1>1, <1>2, SumType
<1> QED
    BY <1>4, <1>5, <1>6, <1>7, <1>8

\* The same for what is left of one contract,
LEMMA FeesMove ==
    ASSUME RunnerInv, RunnerInv', NEW c \in Contracts, NEW n \in Int,
           payment'[c].left = payment[c].left + n,
           \A d \in Contracts \ {c} : payment'[d].left = payment[d].left
    PROVE  FeesLeft' = FeesLeft + n
<1> DEFINE f == [d \in Contracts |-> payment[d].left]
           g == [d \in Contracts |-> payment'[d].left]
<1>1. IsFiniteSet(Contracts)
    BY BillingAssumption
<1>2. \A d \in Contracts : f[d] \in Int /\ g[d] \in Int
    BY DEF RunnerInv, Payment
<1>3. \A d \in Contracts \ {c} : g[d] = f[d]
    OBVIOUS
<1>4. g[c] = f[c] + n
    OBVIOUS
<1>5. FeesLeft = SumFunctionOnSet(f, Contracts) /\ FeesLeft' = SumFunctionOnSet(g, Contracts)
    BY DEF FeesLeft
<1> HIDE DEF f, g
<1>6. SumFunctionOnSet(g, Contracts) = SumFunctionOnSet(f, Contracts) - f[c] + g[c]
    BY <1>1, <1>2, <1>3, SumChanges
<1>7. SumFunctionOnSet(f, Contracts) \in Int /\ f[c] \in Int
    BY <1>1, <1>2, SumType
<1> QED
    BY <1>4, <1>5, <1>6, <1>7

\* and for what one handler holds.
LEMMA SlackMoves ==
    ASSUME JobInv, JobInv', NEW h \in Handlers, OthersStay(h)
    PROVE  /\ Slacks' = Slacks - Slack(job[h]) + Slack(job'[h])
           /\ Slack(job[h]) \in Int /\ Slack(job'[h]) \in Int
<1> DEFINE f == [g \in Handlers |-> Slack(job[g])]
           k == [g \in Handlers |-> Slack(job'[g])]
<1>1. \A g \in Handlers : f[g] \in Int /\ k[g] \in Int
  <2>1. \A g \in Handlers : job[g].amount \in Int /\ job'[g].amount \in Int
    BY DEF JobInv, Job
  <2> QED  BY <2>1 DEF Slack
<1>2. \A g \in Handlers \ {h} : k[g] = f[g]
    BY DEF OthersStay
<1>3. f[h] = Slack(job[h]) /\ k[h] = Slack(job'[h]) /\ IsFiniteSet(Handlers)
    BY BillingAssumption
<1>4. Slacks = SumFunctionOnSet(f, Handlers) /\ Slacks' = SumFunctionOnSet(k, Handlers)
    BY DEF Slacks
<1> HIDE DEF f, k
<1> QED
    BY <1>1, <1>2, <1>3, <1>4, SumChanges

\* A fee or a deposit is covered at each place, and a payout but for what
\* counts as torn.
LEMMA SlackCovered ==
    ASSUME PaymentInv, DebtInv, NoneOwes, NEW h \in Handlers
    PROVE  /\ Slack(job[h]) \in Int /\ TornBy(h) \in Nat
           /\ 0 <= Slack(job[h]) + TornBy(h)
<1>0. MoneyInv /\ AmountInv
    BY DEF PaymentInv
<1>1. job[h].amount \in Int /\ Amounts(job[h]) /\ TornBy(h) \in Nat
    BY <1>0, TornType DEF MoneyInv, JobInv, Job, AmountInv
<1>2. CASE job[h].pc = "insertPayment"
  <2>1. Fee[job[h].contract] \in Nat
    BY <1>2, NoDebts
  <2>2. Slack(job[h]) \in Nat
    BY <1>1, <1>2, <2>1 DEF Amounts, Slack
  <2> QED  BY <1>1, <2>2
<1>3. CASE job[h].pc = "debit"
    BY <1>1, <1>3 DEF Slack, TornBy
<1>4. CASE job[h].pc = "credit"
    BY <1>1, <1>4 DEF Slack, Amounts
<1>5. CASE job[h].pc \notin {"insertPayment", "credit", "debit"}
    BY <1>1, <1>5 DEF Slack
<1> QED
    BY <1>2, <1>3, <1>4, <1>5

\* Over all handlers.
LEMMA SlacksCovered ==
    ASSUME PaymentInv, DebtInv, NoneOwes
    PROVE  0 <= Slacks + SumFunctionOnSet([h \in Handlers |-> TornBy(h)], Handlers)
<1> DEFINE f == [h \in Handlers |-> Slack(job[h])]
           t == [h \in Handlers |-> TornBy(h)]
           s == [h \in Handlers |-> Slack(job[h]) + TornBy(h)]
<1>1. /\ \A h \in Handlers : f[h] \in Int /\ t[h] \in Int /\ s[h] \in Nat /\ s[h] = f[h] + t[h]
      /\ IsFiniteSet(Handlers)
    BY SlackCovered, BillingAssumption
<1>2. Slacks = SumFunctionOnSet(f, Handlers)
    BY DEF Slacks
<1> HIDE DEF f, t, s
<1>3. SumFunctionOnSet(s, Handlers) = SumFunctionOnSet(f, Handlers) + SumFunctionOnSet(t, Handlers)
  <2>1. \A h \in Handlers : s[h] \in Int
    BY <1>1
  <2> QED  BY <1>1, <2>1, SumAdds
<1>4. SumFunctionOnSet(s, Handlers) \in Nat
    BY <1>1, SumType
<1>5. 0 <= SumFunctionOnSet(f, Handlers) + SumFunctionOnSet(t, Handlers)
    BY <1>3, <1>4
<1> QED
    BY <1>2, <1>5 DEF t

\* What one handler moves: the money, the bank and its own slack.
LEMMA HandlerSurplus ==
    ASSUME PaymentInv, PaymentInv', NEW h \in Handlers, OthersStay(h),
           UNCHANGED <<runner, payment>>, NEW m \in Int, NEW b \in Int, NEW t \in Int,
           Money' = Money + m, bank' = bank + b, torn' = torn + t,
           m + Slack(job'[h]) <= Slack(job[h]) + b + t
    PROVE  Surplus <= Surplus'
<1>1. SurplusOK /\ SurplusOK'
    BY SurplusType, PTL
<1>2. /\ Slacks' = Slacks - Slack(job[h]) + Slack(job'[h])
      /\ Slack(job[h]) \in Int /\ Slack(job'[h]) \in Int
    BY SlackMoves DEF PaymentInv, MoneyInv
<1>3. FeesLeft' = FeesLeft /\ TornByRunner' = TornByRunner
    BY DEF FeesLeft, TornByRunner
<1> DEFINE x == Slack(job[h])
           y == Slack(job'[h])
<1>4. /\ x \in Int /\ y \in Int /\ Slacks' = Slacks - x + y
      /\ m + y <= x + b + t
    BY <1>2
<1> HIDE DEF x, y
<1>5. /\ Money \in Int /\ FeesLeft \in Int /\ Slacks \in Int
      /\ bank \in Int /\ torn \in Int /\ TornByRunner \in Int
    BY <1>1 DEF SurplusOK
<1>6. Surplus' = (bank' + torn' + TornByRunner') - (Money' + FeesLeft' + Slacks')
    BY DEF Surplus
<1> QED
    BY <1>3, <1>4, <1>5, <1>6 DEF Surplus

\* A handler that moves nothing, but may come from or to a place with slack.
LEMMA HandlerKeepsSurplus ==
    ASSUME PaymentInv, PaymentInv', NEW h \in Handlers, OthersStay(h),
           UNCHANGED <<runner, payment, balance, gone, bank, torn>>,
           Slack(job'[h]) <= Slack(job[h])
    PROVE  Surplus <= Surplus'
<1>1. PICK z \in Int : z = 0
    OBVIOUS
<1>2. Money \in Int /\ bank \in Int /\ torn \in Int /\ Money' = Money
    BY SurplusType DEF SurplusOK, Money
<1>3. Slack(job[h]) \in Int /\ Slack(job'[h]) \in Int
    BY SlackMoves DEF PaymentInv, MoneyInv
<1>4. /\ Money' = Money + z /\ bank' = bank + z /\ torn' = torn + z
      /\ z + Slack(job'[h]) <= Slack(job[h]) + z + z
    BY <1>1, <1>2, <1>3
<1> QED
    BY <1>4, HandlerSurplus

\* An amount that PayPal is asked for is paid out as it was asked, if no
\* amount loses its zero.
LEMMA PaidAsAsked ==
    ASSUME \A cents \in Cents : Formatted(cents) <= cents,
           NEW n, \E cents \in Cents : n = -(10 * cents)
    PROVE  10 * Formatted(-n \div 10) \in Int /\ 10 * Formatted(-n \div 10) <= -n
<1>1. PICK cents \in Cents : n = -(10 * cents)
    OBVIOUS
<1>2. cents \in Nat
    BY BillingAssumption
<1>3. -n \div 10 = cents
    BY <1>1, <1>2
<1>4. Formatted(cents) \in Int /\ Formatted(cents) <= cents
    BY <1>2 DEF Formatted
<1> QED
    BY <1>1, <1>2, <1>3, <1>4

\* A handler's step does not raise what is owed above what came in.
LEMMA SolventByHandler ==
    ASSUME \A cents \in Cents : Formatted(cents) <= cents,
           PaymentInv, PaymentInv', FreshInv, DebtInv, NoneOwes, raced = {},
           NEW h \in Handlers, Handler(h)
    PROVE  Surplus <= Surplus'
<1> USE DEF accounts, counts, history
<1>0. /\ JobInv /\ MoneyInv /\ Balances /\ Balances' /\ job[h].amount \in Int
      /\ Amounts(job[h]) /\ AmountInv /\ SurplusOK
      /\ balance \in [Users -> Int]
    BY SurplusType DEF PaymentInv, MoneyInv, JobInv, Job, AmountInv, Balances
<1>1. ASSUME NEW u, NEW label \in HoldsDocument, label \notin {"credit", "debit"},
             NEW c, NEW n, Read(h, u, label, c, n),
             UNCHANGED <<runner, payment, balance, gone, bank, torn>>
      PROVE  Surplus <= Surplus'
  <2>1. /\ OthersStay(h)
        /\ job'[h] = [pc |-> label, user |-> u, contract |-> c,
                      read |-> balance[u], amount |-> n]
    BY <1>0, <1>1, ReadOn
  <2>2. job[h].pc = "idle"
    BY <1>1 DEF Read
  <2>3. Slack(job[h]) = 0 /\ Slack(job'[h]) = 0
    BY <1>1, <2>1, <2>2 DEF Slack, HoldsDocument
  <2> QED  BY <1>1, <2>1, <2>3, HandlerKeepsSurplus
<1>2. ASSUME Return(h), 0 <= Slack(job[h]),
             UNCHANGED <<runner, payment, balance, gone, bank, torn>>
      PROVE  Surplus <= Surplus'
  <2>1. OthersStay(h) /\ job'[h] = Idle
    BY <1>0, <1>2, ReturnOn
  <2>2. Slack(job'[h]) = 0
    BY <2>1 DEF Slack, Idle
  <2> QED  BY <1>2, <2>1, <2>2, HandlerKeepsSurplus
<1>3. ASSUME NEW label \in HoldsDocument, NEW next \in Records, Write(h, label, next)
      PROVE  Money' = Money + job[h].amount
  <2>1. /\ job[h].pc = label /\ job[h].user \notin gone /\ gone' = gone
        /\ balance' = [balance EXCEPT ![job[h].user] = job[h].read + job[h].amount]
    BY <1>3 DEF Write, WriteAmount
  <2>2. job[h].user \in Users
    BY <2>1 DEF PaymentInv, MoneyInv, JobInv, Covers
  <2>3. job[h].read = balance[job[h].user]
    BY <1>0, <2>1, <2>2 DEF FreshInv, Holds
  <2> QED  BY <1>0, <2>1, <2>2, <2>3, MoneyMoves
<1>4. CASE DebitFee(h) \/ Credit(h) \/ Debit(h)
  <2>1. PICK label \in HoldsDocument, next \in Records :
           /\ Write(h, label, next)
           /\ <<label, next>> \in {<<"debitFee", "insertPayment">>, <<"credit", "record">>,
                                   <<"debit", "record">>}
    BY <1>4 DEF DebitFee, Credit, Debit, HoldsDocument, Records
  <2>2. /\ job[h].pc = label /\ Goto(h, next)
        /\ UNCHANGED <<runner, payment, bank, torn>>
    BY <2>1 DEF Write, WriteAmount
  <2>3. /\ OthersStay(h) /\ job'[h].pc = next /\ job'[h].amount = job[h].amount
    BY <1>0, <2>2, GotoOn
  <2>4. PICK z \in Int : z = 0
    OBVIOUS
  <2>5. PICK m \in Int : m = job[h].amount
    BY <1>0
  <2>6. m + Slack(job'[h]) <= Slack(job[h]) + z + z
    BY <2>1, <2>2, <2>3, <2>4, <2>5 DEF Slack
  <2>7. Money' = Money + m /\ bank' = bank + z /\ torn' = torn + z
    BY <1>0, <1>3, <2>1, <2>2, <2>4, <2>5 DEF SurplusOK
  <2> QED  BY <2>2, <2>3, <2>6, <2>7, HandlerSurplus
<1>5. CASE InsertPayment(h)
  <2>1. PICK c \in Contracts : c = job[h].contract
    BY <1>0, <1>5 DEF InsertPayment, JobInv, Covers, HoldsContract
  <2>2. /\ job[h].pc = "insertPayment" /\ Goto(h, "insertContract")
        /\ payment' = [payment EXCEPT ![c] = NewPayment(c)]
        /\ UNCHANGED <<runner, balance, gone, bank, torn>>
    BY <1>5, <2>1 DEF InsertPayment
  <2>3. OthersStay(h) /\ job'[h].pc = "insertContract"
    BY <1>0, <2>2, GotoOn
  <2>4. Posts(h, c) /\ Unposted(c)
    BY <2>1, <2>2 DEF PaymentInv, PostInv, Posting, Posts, HoldsContract
  <2>5. Fee[c] \in Int /\ payment \in [Contracts -> Payment] /\ RunnerInv /\ RunnerInv'
    BY BillingAssumption DEF PaymentInv, MoneyInv, RunnerInv
  <2>6. payment'[c].left = payment[c].left + Fee[c]
    BY <2>2, <2>4, <2>5 DEF NewPayment, Unposted, NoPayment
  <2>7. FeesLeft' = FeesLeft + Fee[c]
    BY <2>2, <2>5, <2>6, FeesMove
  <2>8. Slack(job[h]) = Fee[c] /\ Slack(job'[h]) = 0
    BY <1>0, <2>1, <2>2, <2>3, <2>5 DEF Slack, Amounts
  <2>9. Slacks' = Slacks - Fee[c]
    <3>1. Slacks' = Slacks - Slack(job[h]) + Slack(job'[h])
      BY <2>3, SlackMoves DEF PaymentInv, MoneyInv
    <3> QED  BY <1>0, <2>5, <2>8, <3>1 DEF SurplusOK
  <2>10. Money' = Money /\ TornByRunner' = TornByRunner
    BY <2>2 DEF Money, TornByRunner
  <2>11. Surplus' = (bank' + torn' + TornByRunner') - (Money' + FeesLeft' + Slacks')
    BY DEF Surplus
  <2> QED  BY <1>0, <2>2, <2>5, <2>7, <2>9, <2>10, <2>11 DEF Surplus, SurplusOK
<1>6. CASE InsertContract(h)
  <2>1. job[h].pc = "insertContract" /\ Goto(h, "record")
        /\ UNCHANGED <<runner, payment, balance, gone, bank, torn>>
    BY <1>6 DEF InsertContract
  <2>2. OthersStay(h) /\ job'[h].pc = "record"
    BY <1>0, <2>1, GotoOn
  <2>3. Slack(job[h]) = 0 /\ Slack(job'[h]) = 0
    BY <2>1, <2>2 DEF Slack
  <2> QED  BY <2>1, <2>2, <2>3, HandlerKeepsSurplus
<1>7. CASE Record(h)
    BY <1>2, <1>7 DEF Record, Slack
<1>8. CASE Execute(h) \/ Payout(h)
  <2>1. UNCHANGED <<runner, payment, balance, gone, torn>> /\ Slack(job[h]) = 0
    BY <1>8 DEF Execute, Payout, Slack
  <2>2. CASE Return(h) /\ bank' = bank
    BY <1>2, <2>1, <2>2
  <2>3. ASSUME NEW label \in {"credit", "debit"}, Goto(h, label),
               NEW b \in Int, bank' = bank + b, job[h].amount <= b
        PROVE  Surplus <= Surplus'
    <3>1. OthersStay(h) /\ job'[h].pc = label /\ job'[h].amount = job[h].amount
      BY <1>0, <2>3, GotoOn
    <3>2. PICK z \in Int : z = 0
      OBVIOUS
    <3>3. Slack(job'[h]) = job[h].amount
      BY <2>3, <3>1 DEF Slack
    <3>4. z + Slack(job'[h]) <= Slack(job[h]) + b + z
      BY <1>0, <2>1, <2>3, <3>2, <3>3
    <3>5. Money' = Money + z /\ torn' = torn + z
      BY <1>0, <2>1, <3>2 DEF Money, SurplusOK
    <3> QED  BY <2>1, <2>3, <3>1, <3>4, <3>5, HandlerSurplus
  <2>4. CASE Execute(h)
    BY <1>0, <2>2, <2>3, <2>4 DEF Execute
  <2>5. CASE Payout(h) /\ ~Return(h)
    <3>1. /\ job[h].pc = "payout" /\ Goto(h, "debit")
          /\ bank' = bank - 10 * Formatted(-job[h].amount \div 10)
      BY <2>5 DEF Payout
    <3>2. PICK a : a = job[h].amount
      OBVIOUS
    <3>3. \E cents \in Cents : a = -(10 * cents)
      BY <1>0, <3>1, <3>2 DEF Amounts
    <3>4. PICK d \in Int : d = 10 * Formatted(-a \div 10)
      BY <3>3, PaidAsAsked
    <3>5. d <= -a /\ a \in Int
      BY <1>0, <3>2, <3>3, <3>4, PaidAsAsked
    <3>6. PICK b \in Int : b = -d
      BY <3>4
    <3>7. bank' = bank + b /\ a <= b
      BY <1>0, <3>1, <3>2, <3>4, <3>5, <3>6 DEF SurplusOK
    <3> QED  BY <2>3, <3>1, <3>2, <3>7
  <2>6. Payout(h) /\ Return(h) => bank' = bank
    <3> SUFFICES ASSUME Payout(h), Return(h), Goto(h, "debit")  PROVE  FALSE
      BY DEF Payout
    <3>1. job'[h].pc = "debit" /\ job'[h] = Idle
      BY <1>0, GotoOn, ReturnOn
    <3> QED  BY <3>1 DEF Idle
  <2> QED  BY <1>8, <2>2, <2>4, <2>5, <2>6
<1>9. CASE UpdateUser(h)
  <2>1. /\ job[h].pc = "put" /\ Return(h) /\ UNCHANGED <<runner, payment, gone, bank, torn>>
        /\ balance' = [balance EXCEPT ![job[h].user] = job[h].read]
    BY <1>9 DEF UpdateUser
  <2>2. job[h].user \in Users
    BY <2>1 DEF PaymentInv, MoneyInv, JobInv, Covers, HoldsDocument
  <2>3. job[h].read = balance[job[h].user]
    BY <1>0, <2>1, <2>2 DEF FreshInv, Holds, HoldsDocument
  <2>4. balance' = balance
    BY <1>0, <2>1, <2>2, <2>3
  <2>5. Slack(job[h]) = 0
    BY <2>1 DEF Slack
  <2> QED  BY <1>2, <2>1, <2>4, <2>5
<1>10. CASE FailHandler(h)
  <2>1. /\ Return(h) /\ torn' = torn + TornBy(h)
        /\ UNCHANGED <<runner, payment, balance, gone, bank>>
    BY <1>10 DEF FailHandler
  <2>2. OthersStay(h) /\ job'[h] = Idle
    BY <1>0, <2>1, ReturnOn
  <2>3. Slack(job'[h]) = 0
    BY <2>2 DEF Slack, Idle
  <2>4. PICK z \in Int : z = 0
    OBVIOUS
  <2>5. PICK t \in Int : t = TornBy(h)
    BY <1>0, SlackCovered
  <2>6. z + Slack(job'[h]) <= Slack(job[h]) + z + t
    BY <1>0, <2>3, <2>4, <2>5, SlackCovered
  <2>7. Money' = Money + z /\ bank' = bank + z /\ torn' = torn + t
    BY <1>0, <2>1, <2>4, <2>5 DEF Money, SurplusOK
  <2> QED  BY <2>1, <2>2, <2>6, <2>7, HandlerSurplus
<1>11. ASSUME NEW c \in Contracts, PostContract(h, c)  PROVE  Surplus <= Surplus'
    BY <1>1, <1>11 DEF PostContract, HoldsDocument
<1>12. ASSUME NEW v, NEW label \in {"execute", "payout", "put"}, NEW n, Ask(h, v, label, n)
       PROVE  Surplus <= Surplus'
    BY <1>1, <1>12 DEF Ask, HoldsDocument
<1>13. ASSUME NEW v, NEW cents, Deposit(h, v, cents) \/ Withdraw(h, v, cents) \/ PutUser(h, v)
       PROVE  Surplus <= Surplus'
    BY <1>12, <1>13 DEF Deposit, Withdraw, PutUser
<1> QED
    BY <1>4, <1>5, <1>6, <1>7, <1>8, <1>9, <1>10, <1>11, <1>13 DEF Handler

\* The runner's step, and its end.
LEMMA SolventByRunner ==
    ASSUME PaymentInv, PaymentInv', FreshInv, DebtInv, NoneOwes, raced = {},
           PaymentRunner \/ FailRunner
    PROVE  Surplus <= Surplus'
<1> USE DEF accounts, counts, history
<1>0. /\ MoneyInv /\ RunnerInv /\ RunnerInv' /\ SurplusOK /\ Balances /\ Balances'
      /\ runner \in Runner /\ payment \in [Contracts -> Payment]
    BY SurplusType DEF PaymentInv, MoneyInv, RunnerInv
<1>1. UNCHANGED <<job, bank>> /\ Slacks' = Slacks /\ gone' = gone
    BY DEF Slacks, PaymentRunner, RunPayments, SkipPayment, FindPayee, FindPayeeFor,
       CreditProvider, SettlePayment, SettleAt, RecordReceipt, FailRunner
<1>2. Surplus' = (bank' + torn' + TornByRunner') - (Money' + FeesLeft' + Slacks')
    BY DEF Surplus
<1>3. Waiting.pc = "waiting" /\ \A todo : NextContract(todo).pc \in {"waiting", "next"}
    BY DEF Waiting, NextContract
<1>4. CASE RunPayments \/ SkipPayment \/ FindPayee \/ RecordReceipt
  <2>1. UNCHANGED <<balance, payment, torn>> /\ TornByRunner = 0
    BY <1>4 DEF RunPayments, SkipPayment, FindPayee, FindPayeeFor, RecordReceipt, TornByRunner
  <2>2. runner'.pc # "settling"
    BY <1>0, <1>3, <1>4 DEF RunPayments, SkipPayment, FindPayee, FindPayeeFor, RecordReceipt,
       Waiting, Runner
  <2>3. TornByRunner' = 0 /\ Money' = Money /\ FeesLeft' = FeesLeft
    BY <1>1, <2>1, <2>2 DEF TornByRunner, Money, FeesLeft
  <2> QED  BY <1>0, <1>1, <1>2, <2>1, <2>3 DEF Surplus, SurplusOK
<1>5. CASE FailRunner
  <2>1. UNCHANGED <<balance, payment>> /\ torn' = torn + TornByRunner /\ runner'.pc # "settling"
    BY <1>3, <1>5 DEF FailRunner
  <2>2. TornByRunner' = 0 /\ Money' = Money /\ FeesLeft' = FeesLeft
    BY <1>1, <2>1 DEF TornByRunner, Money, FeesLeft
  <2> QED  BY <1>0, <1>1, <1>2, <2>1, <2>2 DEF Surplus, SurplusOK
<1>6. CASE CreditProvider
  <2>1. runner.pc = "crediting" /\ UNCHANGED <<payment, torn>> /\ TornByRunner = 0
          /\ FeesLeft' = FeesLeft
    BY <1>6 DEF CreditProvider, TornByRunner, FeesLeft
  <2>2. CASE Payee \in gone
    <3>1. TornByRunner' = 0 /\ Money' = Money
      BY <1>1, <1>3, <1>6, <2>2 DEF CreditProvider, TornByRunner, Money
    <3> QED  BY <1>0, <1>1, <1>2, <2>1, <3>1 DEF Surplus, SurplusOK
  <2>3. CASE Payee \notin gone
    <3>1. PICK u \in Users : u = Payee
      BY <1>0, <2>1, AtContract
    <3>2. PICK n \in Nat : n = runner.amount
      BY <2>1, NoDebts
    <3>3. /\ balance' = [balance EXCEPT ![u] = runner.read + n]
          /\ runner' = [runner EXCEPT !.pc = "settling"] /\ u \notin gone
      BY <1>6, <2>3, <3>1, <3>2 DEF CreditProvider
    <3>4. runner.read = balance[u]
      BY <2>1, <3>1 DEF FreshInv, Credits
    <3>5. Money' = Money + n
      <4>1. n \in Int /\ balance' = [balance EXCEPT ![u] = balance[u] + n]
        BY <3>3, <3>4
      <4> QED  BY <1>0, <1>1, <3>3, <4>1, MoneyMoves
    <3>6. TornByRunner' = n
      BY <1>0, <3>2, <3>3 DEF TornByRunner, Runner
    <3> QED  BY <1>0, <1>1, <1>2, <2>1, <3>5, <3>6 DEF Surplus, SurplusOK
  <2> QED  BY <2>2, <2>3
<1>7. CASE SettlePayment
  <2>1. PICK c \in Contracts : c = Head(runner.todo)
    BY <1>0, <1>7, AtContract DEF SettlePayment, SettleAt
  <2>2. PICK n \in Int : n = -runner.amount
    BY <1>0 DEF Runner
  <2>8. runner.pc = "settling" => runner.amount >= 0
    BY NoDebts
  <2>3. /\ runner.pc = "settling" /\ UNCHANGED <<balance, torn>>
        /\ payment' = [payment EXCEPT ![c].left = @ - runner.amount, ![c].age = 0]
        /\ runner' = [runner EXCEPT !.pc = "recording"]
    BY <1>7, <2>1 DEF SettlePayment, SettleAt
  <2>4. /\ payment'[c].left = payment[c].left - runner.amount
        /\ payment[c].left \in Int /\ runner.amount \in Int
        /\ \A d \in Contracts \ {c} : payment'[d] = payment[d]
    BY <1>0, <2>3 DEF Payment, Runner
  <2>5. payment'[c].left = payment[c].left + n
    BY <2>2, <2>4
  <2>6. FeesLeft' = FeesLeft + n
    BY <1>0, <2>4, <2>5, FeesMove
  <2>7. TornByRunner = -n /\ TornByRunner' = 0 /\ Money' = Money
    BY <1>0, <1>1, <2>2, <2>3, <2>4, <2>8 DEF TornByRunner, Money, Runner
  <2> QED  BY <1>0, <1>1, <1>2, <2>3, <2>6, <2>7 DEF Surplus, SurplusOK
<1> QED
    BY <1>4, <1>5, <1>6, <1>7 DEF PaymentRunner

\* The steps of the environment.
LEMMA SolventElsewhere ==
    ASSUME PaymentInv, PaymentInv', DebtInv, NoneOwes,
           \/ \E i \in DOMAIN contracts : DeleteContract(i)
           \/ \E u \in Users : DeleteUser(u)
           \/ Tick \/ Crash \/ UNCHANGED vars
    PROVE  Surplus <= Surplus'
<1> USE DEF accounts, counts, history
<1>0. SurplusOK /\ MoneyInv /\ AmountInv /\ Balances
    BY SurplusType DEF PaymentInv, MoneyInv
<1>1. Surplus' = (bank' + torn' + TornByRunner') - (Money' + FeesLeft' + Slacks')
    BY DEF Surplus
<1>2. CASE UNCHANGED <<balance, gone, payment, job, runner, bank, torn>>
  <2>1. UNCHANGED <<Money, FeesLeft, Slacks, TornByRunner>>
    BY <1>2 DEF Money, FeesLeft, Slacks, TornByRunner
  <2> QED  BY <1>0, <1>1, <1>2, <2>1 DEF Surplus, SurplusOK
<1>3. ASSUME NEW u \in Users, DeleteUser(u)  PROVE  Surplus <= Surplus'
  <2>1. UNCHANGED <<balance, payment, job, runner, bank, torn>> /\ gone \subseteq gone'
    BY <1>3 DEF DeleteUser
  <2>2. UNCHANGED <<FeesLeft, Slacks, TornByRunner>>
    BY <2>1 DEF FeesLeft, Slacks, TornByRunner
  <2>3. Money' <= Money
    <3>1. PICK S, T : S = Users \ gone /\ T = Users \ gone'
      OBVIOUS
    <3>2. IsFiniteSet(S) /\ T \subseteq S /\ \A v \in S : balance[v] \in Nat
      BY <1>0, <2>1, <3>1, BillingAssumption, FS_Subset, NoDebts
    <3>3. SumFunctionOnSet(balance, T) <= SumFunctionOnSet(balance, S)
      BY <3>2, SumOfPart
    <3>4. Money = SumFunctionOnSet(balance, S) /\ Money' = SumFunctionOnSet(balance, T)
      BY <2>1, <3>1 DEF Money
    <3> QED  BY <3>3, <3>4
  <2>4. SurplusOK'
    BY SurplusType, PTL
  <2>5. Money' \in Int
    BY <2>4 DEF SurplusOK
  <2>6. PICK in \in Int, m \in Int, n \in Int, f \in Int, l \in Int :
           /\ in = bank + torn + TornByRunner /\ m = Money /\ n = Money'
           /\ f = FeesLeft /\ l = Slacks
    BY <1>0, <2>5 DEF SurplusOK
  <2>7. Surplus = in - (m + f + l) /\ Surplus' = in - (n + f + l) /\ n <= m
    BY <1>1, <2>1, <2>2, <2>3, <2>6 DEF Surplus
  <2> QED  BY <2>7
<1>4. CASE Tick
  <2>1. UNCHANGED <<balance, gone, job, runner, bank, torn>>
    BY <1>4 DEF Tick
  <2>2. \A c \in Contracts : payment'[c].left = payment[c].left
    <3> SUFFICES ASSUME NEW c \in Contracts  PROVE  payment'[c].left = payment[c].left
      OBVIOUS
    <3>1. payment[c] \in Payment
      BY <1>0 DEF MoneyInv, RunnerInv
    <3> QED  BY <1>4, <3>1 DEF Tick, Payment
  <2>3. UNCHANGED <<Money, Slacks, TornByRunner>>
    BY <2>1 DEF Money, Slacks, TornByRunner
  <2>4. FeesLeft' = FeesLeft
    BY <2>2 DEF FeesLeft
  <2> QED  BY <1>0, <1>1, <2>1, <2>3, <2>4 DEF Surplus, SurplusOK
<1>5. CASE Crash
  <2>1. PICK all : all = SumFunctionOnSet([h \in Handlers |-> TornBy(h)], Handlers)
    OBVIOUS
  <2>2. /\ torn' = torn + all + TornByRunner /\ runner' = Waiting
        /\ job' = [h \in Handlers |-> Idle]
        /\ UNCHANGED <<balance, gone, payment, bank>>
    BY <1>5, <2>1 DEF Crash
  <2>3. all \in Nat /\ 0 <= Slacks + all
    BY <1>0, <2>1, TornType, SlacksCovered
  <2>4. TornByRunner' = 0 /\ Money' = Money /\ FeesLeft' = FeesLeft
    BY <2>2 DEF TornByRunner, Money, FeesLeft, Waiting
  <2>5. Slacks' = 0
    <3>1. \A h \in Handlers : Slack(job'[h]) = 0
      BY <2>2 DEF Slack, Idle
    <3>2. PICK f : f = [h \in Handlers |-> Slack(job'[h])]
      OBVIOUS
    <3>3. SumFunctionOnSet(f, Handlers) = 0
      BY <3>1, <3>2, SumOfZeros, BillingAssumption
    <3> QED  BY <3>2, <3>3 DEF Slacks
  <2> QED  BY <1>0, <1>1, <2>2, <2>3, <2>4, <2>5 DEF Surplus, SurplusOK
<1> QED
    BY <1>2, <1>3, <1>4, <1>5 DEF DeleteContract, vars

\* What there was at first.
LEMMA EndowmentType ==
    /\ SumFunctionOnSet(Opening, Users) \in Int
    /\ SumFunctionOnSet(Fee, ToSet(Formed)) \in Int
    /\ Endowment \in Int
<1>1. IsFiniteSet(Users) /\ IsFiniteSet(Contracts) /\ ToSet(Formed) \subseteq Contracts
    BY BillingAssumption DEF ToSet
<1>2. (\A u \in Users : Opening[u] \in Int) /\ \A c \in Contracts : Fee[c] \in Int
    BY BillingAssumption
<1>3. SumFunctionOnSet(Opening, Users) \in Int
    BY <1>1, <1>2, SumType
<1>4. SumFunctionOnSet(Fee, ToSet(Formed)) \in Int
  <2>1. PICK T : T = ToSet(Formed)
    OBVIOUS
  <2>2. IsFiniteSet(T) /\ \A c \in T : Fee[c] \in Int
    BY <1>1, <1>2, <2>1, FS_Subset
  <2>3. SumFunctionOnSet(Fee, T) \in Int
    BY <2>2, SumType
  <2> QED  BY <2>1, <2>3
<1> QED
    BY <1>3, <1>4 DEF Endowment

\* At first there is what the users have, and the fees of the contracts.
LEMMA SolventInit == Init => SolventInv
<1> SUFFICES ASSUME Init  PROVE  0 <= Endowment + Surplus
    BY DEF SolventInv
<1>1. Money = SumFunctionOnSet(Opening, Users)
    BY DEF Init, Money
<1>2. ToSet(Formed) \subseteq Contracts /\ IsFiniteSet(Contracts) /\ IsFiniteSet(Users)
        /\ IsFiniteSet(Handlers) /\ Fee \in [Contracts -> Int] /\ Opening \in [Users -> Nat]
    BY BillingAssumption DEF ToSet
<1>3. FeesLeft = SumFunctionOnSet(Fee, ToSet(Formed))
  <2>1. PICK f, T : f = [c \in Contracts |-> payment[c].left] /\ T = ToSet(Formed)
    OBVIOUS
  <2>2. \A c \in Contracts : payment[c] = IF c \in T THEN NewPayment(c) ELSE NoPayment
    BY <2>1 DEF Init
  <2>3. \A c \in T : f[c] = Fee[c] /\ Fee[c] \in Int
    <3> SUFFICES ASSUME NEW c \in T  PROVE  f[c] = Fee[c] /\ Fee[c] \in Int
      OBVIOUS
    <3>1. payment[c] = NewPayment(c) /\ c \in Contracts
      BY <1>2, <2>1, <2>2
    <3> QED  BY <1>2, <2>1, <3>1 DEF NewPayment
  <2>4. \A c \in Contracts \ T : f[c] = 0
    <3> SUFFICES ASSUME NEW c \in Contracts \ T  PROVE  f[c] = 0
      OBVIOUS
    <3>1. payment[c] = NoPayment
      BY <2>2
    <3> QED  BY <2>1, <3>1 DEF NoPayment
  <2>5. SumFunctionOnSet(f, Contracts) = SumFunctionOnSet(Fee, T)
    <3>1. PICK g : g = Fee
      OBVIOUS
    <3>2. /\ T \subseteq Contracts
          /\ \A c \in T : g[c] \in Int /\ f[c] = g[c]
          /\ \A c \in Contracts \ T : f[c] = 0
      BY <1>2, <2>1, <2>3, <2>4, <3>1
    <3>3. SumFunctionOnSet(f, Contracts) = SumFunctionOnSet(g, T)
      BY <1>2, <3>2, SumOfSome
    <3> QED  BY <3>1, <3>3
  <2> QED  BY <2>1, <2>5 DEF FeesLeft
<1>4. Slacks = 0
  <2>1. \A h \in Handlers : Slack(job[h]) = 0
    BY DEF Init, Slack, Idle
  <2> QED  BY <1>2, <2>1, SumOfZeros DEF Slacks
<1>5. bank = 0 /\ torn = 0 /\ TornByRunner = 0
    BY DEF Init, TornByRunner, Waiting
<1>6. SurplusOK
    BY SurplusType, PaymentInvInit
<1> QED
    BY <1>1, <1>3, <1>4, <1>5, <1>6, EndowmentType DEF Endowment, Surplus, SurplusOK

\* What SkyBin owes is covered by what came in, as long as no document was in
\* two hands at once, no contract with a negative fee was posted, and no amount loses the zero of its cents on its way to
\* PayPal (for the cents 1 to 9, Formatted pays out too much: paypal.go:60).
THEOREM MoneyIsCovered ==
    ASSUME \A cents \in Cents : Formatted(cents) <= cents
    PROVE  Spec => []Solvent
<1> DEFINE Inv == PaymentInv /\ FreshInv /\ DebtInv /\ SolventInv
<1>1. Init => Inv
    BY PaymentInvInit, FreshInit, DebtInit, SolventInit
<1>2. Inv /\ [Next]_vars => Inv'
  <2> SUFFICES ASSUME Inv, [Next]_vars  PROVE  Inv'
    OBVIOUS
  <2>1. PaymentInv' /\ FreshInv' /\ DebtInv'
    BY PaymentInvStep, FreshStep, DebtStep DEF PaymentInv
  <2>2. ASSUME raced' = {}, NoneOwes'  PROVE  0 <= Endowment + Surplus'
    <3>1. raced = {} /\ NoneOwes
      BY <2>2, RacesGrow, TriedGrows DEF PaymentInv, NoneOwes
    <3>2. Surplus <= Surplus'
      BY <2>1, <3>1, SolventByHandler, SolventByRunner, SolventElsewhere DEF Next
    <3>3. Surplus \in Int
      BY SurplusType DEF Surplus, SurplusOK
    <3>4. SurplusOK'
      BY <2>1, SurplusType, PTL
    <3>5. Surplus' \in Int
      BY <3>4 DEF Surplus, SurplusOK
    <3>6. Endowment \in Int
      BY EndowmentType
    <3>7. 0 <= Endowment + Surplus
      BY <3>1 DEF SolventInv
    <3>8. PICK e \in Int, p \in Int, q \in Int : e = Endowment /\ p = Surplus /\ q = Surplus'
      BY <3>3, <3>5, <3>6
    <3>9. p <= q /\ 0 <= e + p
      BY <3>2, <3>7, <3>8
    <3>10. 0 <= e + q
      BY <3>9
    <3> QED  BY <3>8, <3>10
  <2>3. SolventInv'
    BY <2>2 DEF SolventInv, Endowment
  <2> QED  BY <2>1, <2>3
<1>3. Inv => Solvent
  <2> SUFFICES ASSUME Inv, raced = {}, NoneOwes  PROVE  Solvent
    BY DEF Solvent, NoneOwes
  <2>1. PICK all : all = SumFunctionOnSet([h \in Handlers |-> TornBy(h)], Handlers)
    OBVIOUS
  <2>2. all \in Nat /\ 0 <= Slacks + all
    BY <2>1, TornType, SlacksCovered DEF PaymentInv
  <2>3. 0 <= Endowment + Surplus /\ SurplusOK /\ Endowment \in Int
    BY SurplusType, EndowmentType DEF SolventInv
  <2>4. Money + FeesLeft <= Endowment + bank + torn + all + TornByRunner
    BY <2>2, <2>3 DEF Surplus, SurplusOK
  <2>5. SumFunctionOnSet(Opening, Users) \in Int /\ SumFunctionOnSet(Fee, ToSet(Formed)) \in Int
    BY EndowmentType
  <2>6. Money + FeesLeft <= SumFunctionOnSet(Opening, Users)
             + SumFunctionOnSet(Fee, ToSet(Formed)) + bank + torn + all + TornByRunner
    BY <2>2, <2>3, <2>4, <2>5 DEF Endowment, SurplusOK
  <2> QED  BY <2>1, <2>6 DEF Solvent, Money, FeesLeft
<1>4. QED
    BY <1>1, <1>2, <1>3, PTL DEF Spec

=============================================================================

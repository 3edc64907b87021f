------------------------------ MODULE Billing ------------------------------
(***************************************************************************)
(* The money of the metaserver (metaserver/contracts.go, paymentrunner.go, *)
(* paypal.go, and the PUT and DELETE handlers of renter.go, provider.go).  *)
(*                                                                         *)
(* A balance is changed by reading the user's document, computing, and     *)
(* writing the whole document back; other database and PayPal calls lie    *)
(* between.  Each call is one action.  Handlers run concurrently with each *)
(* other and with the one payment runner; any database call may fail, and  *)
(* the process may die.                                                    *)
(*                                                                         *)
(* Amounts are in tenths of cents.  The fee of a contract may be negative: *)
(* nobody refuses such a rate or such a fee.  Time is counted in ticks.    *)
(* FindPaymentByContract selects by a field that no document has, so that  *)
(* PUT payment always fails (mongoDB.go:705) and has no action.            *)
(***************************************************************************)
EXTENDS Integers, FiniteSets, SequencesExt

CONSTANTS
    Renters, Providers,
    Contracts,        \* contract IDs; each is posted at most once
    RenterOf, ProviderOf,
    Fee,              \* Fee[c]: StorageFee, which may be negative
    Opening,          \* Opening[u]: the balance of u at first
    Cents,            \* amounts users ask to deposit or to withdraw, in cents
    Duration,         \* the length of every contract, in ticks
    Handlers,         \* handler goroutines: how many requests overlap
    Formed,           \* the contracts collection at first
    Deletable,        \* users and contracts that may be deleted
    MaxContracts,     \* bound: contracts in one behaviour
    MaxAge,           \* bound: how long after its start, and after its last
                      \* payment, a contract's time is counted
    MaxRequests,      \* bound: requests of users, next to the contracts they post
                      \* for a fee
    MaxFaults,        \* bound: failed database calls and crashes
    NoUser, NoContract

Users == Renters \cup Providers

ASSUME BillingAssumption ==
    /\ IsFiniteSet(Users) /\ IsFiniteSet(Contracts) /\ IsFiniteSet(Handlers)
    /\ Renters \cap Providers = {}
    /\ RenterOf \in [Contracts -> Renters] /\ ProviderOf \in [Contracts -> Providers]
    /\ Fee \in [Contracts -> Int]
    /\ Opening \in [Users -> Nat]
    /\ Cents \subseteq Nat \ {0}
    /\ Duration \in Nat \ {0}
    /\ Formed \in Seq(Contracts) /\ IsInjective(Formed)
    /\ Deletable \subseteq Users \cup Contracts
    /\ MaxContracts \in Nat /\ MaxAge \in Nat /\ Duration <= MaxAge
    /\ MaxRequests \in Nat /\ MaxFaults \in Nat
    /\ NoUser \notin Users /\ NoContract \notin Contracts

VARIABLES
    balance,     \* balance[u], as the document of u has it
    statement,   \* statement[u]: the transactions of u, summed with their signs
    gone,        \* users whose documents were deleted
    contracts,   \* the contracts collection, in order of insertion
    payment,     \* payment[c]: what is left to pay, and the ages
    tried,       \* contracts that were posted, whatever came of it
    job,         \* job[h]: handler h
    runner,      \* the payment runner: its place and the contracts ahead of it
    bank,        \* what PayPal took in for SkyBin, less what it paid out
    faults,      \* failed database calls and crashes so far
    asked,       \* requests of users so far
    raced,       \* history: users whose document two of them had read at once
    torn,        \* history: amounts moved twice because a move was cut in two
    paid         \* history: paid[c]: what the runner credited for c

accounts == <<balance, statement>>
counts == <<faults, asked>>
history == <<raced, torn, paid>>
vars == <<balance, statement, gone, contracts, payment, tried, job, runner, bank,
          faults, asked, raced, torn, paid>>

\* age: ticks since LastPaymentTime; elapsed: since StartDate.
NoPayment == [left |-> 0, age |-> 0, elapsed |-> 0]

NewPayment(c) == [left |-> Fee[c], age |-> 0, elapsed |-> 0]

\* read: the balance in the document the handler holds; amount: what it will
\* add to it.
Idle == [pc |-> "idle", user |-> NoUser, contract |-> NoContract, read |-> 0, amount |-> 0]

Waiting == [pc |-> "waiting", todo |-> <<>>, read |-> 0, amount |-> 0]

Init ==
    /\ balance = Opening
    /\ statement = [u \in Users |-> 0]
    /\ gone = {} /\ contracts = Formed /\ tried = ToSet(Formed)
    /\ payment = [c \in Contracts |-> IF c \in tried THEN NewPayment(c) ELSE NoPayment]
    /\ job = [h \in Handlers |-> Idle]
    /\ runner = Waiting
    /\ bank = 0 /\ faults = 0 /\ asked = 0
    /\ raced = {} /\ torn = 0
    /\ paid = [c \in Contracts |-> 0]

-----------------------------------------------------------------------------
(* Reading and writing a user's document.                                  *)

\* The places at which the document that was read will still be written.
HoldsDocument == {"debitFee", "execute", "credit", "payout", "debit", "put"}

Payee == ProviderOf[Head(runner.todo)]

Held(u) ==
    \/ \E h \in Handlers : job[h].user = u /\ job[h].pc \in HoldsDocument
    \/ runner.pc = "crediting" /\ Payee = u

Race(u) == raced' = IF Held(u) THEN raced \cup {u} ELSE raced

Goto(h, label) == job' = [job EXCEPT ![h].pc = label]
Return(h) == job' = [job EXCEPT ![h] = Idle]

\* Handler h reads the document of u.
Read(h, u, label, c, amount) ==
    /\ job[h].pc = "idle"
    /\ u \notin gone
    /\ job' = [job EXCEPT ![h] = [pc |-> label, user |-> u, contract |-> c,
                                  read |-> balance[u], amount |-> amount]]
    /\ Race(u)

\* The start of a request that MaxRequests counts.
Ask(h, u, label, amount) ==
    /\ asked < MaxRequests
    /\ asked' = asked + 1
    /\ Read(h, u, label, NoContract, amount)
    /\ UNCHANGED <<accounts, gone, contracts, payment, tried, runner, bank, faults, torn, paid>>

\* ... and writes it back, with the balance changed.
WriteAmount(h, label, next, amount) ==
    /\ job[h].pc = label
    /\ job[h].user \notin gone
    /\ balance' = [balance EXCEPT ![job[h].user] = job[h].read + amount]
    /\ Goto(h, next)
    /\ UNCHANGED <<statement, gone, contracts, payment, tried, runner, bank, counts, history>>

Write(h, label, next) == WriteAmount(h, label, next, job[h].amount)

\* InsertTransaction, the last call of most handlers.
Record(h) ==
    /\ job[h].pc = "record"
    /\ statement' = [statement EXCEPT ![job[h].user] = @ + job[h].amount]
    /\ Return(h)
    /\ UNCHANGED <<balance, gone, contracts, payment, tried, runner, bank, counts, history>>

-----------------------------------------------------------------------------
(* postContractHandler.                                                    *)

\* The fee is compared with the balance only: a negative one is credited.
PostContract(h, c) ==
    /\ c \notin tried /\ Cardinality(tried) < MaxContracts
    /\ Fee[c] <= balance[RenterOf[c]]
    /\ Read(h, RenterOf[c], "debitFee", c, -Fee[c])
    /\ tried' = tried \cup {c}
    /\ \/ Fee[c] >= 0 /\ UNCHANGED asked
       \/ Fee[c] < 0 /\ asked < MaxRequests /\ asked' = asked + 1
    /\ UNCHANGED <<accounts, gone, contracts, payment, runner, bank, faults, torn, paid>>

\* Mutant of DebitFee: the error of UpdateRenter is ignored.
DebitFeeUnchecked(h) ==
    \/ Write(h, "debitFee", "insertPayment")
    \/ /\ job[h].pc = "debitFee"
       /\ Goto(h, "insertPayment")
       /\ UNCHANGED <<accounts, gone, contracts, payment, tried, runner, bank, counts, history>>

DebitFee(h) == Write(h, "debitFee", "insertPayment")

InsertPayment(h) ==
    /\ job[h].pc = "insertPayment"
    /\ LET c == job[h].contract
       IN  payment' = [payment EXCEPT ![c] = NewPayment(c)]
    /\ Goto(h, "insertContract")
    /\ UNCHANGED <<accounts, gone, contracts, tried, runner, bank, counts, history>>

InsertContract(h) ==
    /\ job[h].pc = "insertContract"
    /\ contracts' = Append(contracts, job[h].contract)
    /\ Goto(h, "record")
    /\ UNCHANGED <<accounts, gone, payment, tried, runner, bank, counts, history>>

\* deleteContractHandler leaves the payment, and what is left of it, behind.
DeleteContract(i) ==
    /\ contracts[i] \in Deletable
    /\ contracts' = RemoveAt(contracts, i)
    /\ UNCHANGED <<accounts, gone, payment, tried, job, runner, bank, counts, history>>

-----------------------------------------------------------------------------
(* The PayPal handlers.                                                    *)

\* What "%d.%d" of dollars and cents says, in cents: 105 becomes 1.5.
Formatted(cents) ==
    LET small == cents % 100
    IN  (cents - small) + (IF small < 10 THEN 10 * small ELSE small)

\* getExecutePaypalPaymentHandler, for a payment of so many cents.
Deposit(h, r, cents) == Ask(h, r, "execute", 10 * Formatted(cents))

Execute(h) ==
    /\ job[h].pc = "execute"
    /\ \/ bank' = bank + job[h].amount /\ Goto(h, "credit")
       \/ UNCHANGED bank /\ Return(h)                  \* PayPal refuses
    /\ UNCHANGED <<accounts, gone, contracts, payment, tried, runner, counts, history>>

Credit(h) == Write(h, "credit", "record")

\* Mutant of Withdraw: cents are compared with tenths of cents.
WithdrawCents(h, u, cents) ==
    /\ cents <= balance[u]
    /\ Ask(h, u, "payout", -(10 * cents))

\* getRenterPaypalWithdrawHandler and getProviderPaypalWithdrawHandler.
Withdraw(h, u, cents) ==
    /\ 10 * cents <= balance[u]
    /\ Ask(h, u, "payout", -(10 * cents))

Payout(h) ==
    /\ job[h].pc = "payout"
    /\ \/ bank' = bank - 10 * Formatted(-job[h].amount \div 10) /\ Goto(h, "debit")
       \/ UNCHANGED bank /\ Return(h)                  \* PayPal refuses
    /\ UNCHANGED <<accounts, gone, contracts, payment, tried, runner, counts, history>>

\* Mutant of Debit: the cents are subtracted as they came.
DebitCents(h) == WriteAmount(h, "debit", "record", job[h].amount \div 10)

Debit(h) == Write(h, "debit", "record")

-----------------------------------------------------------------------------
(* putRenterHandler, putProviderHandler: the document sent must have the   *)
(* balance of the one that was read.  The DELETE handlers.                 *)

PutUser(h, u) == Ask(h, u, "put", 0)

UpdateUser(h) ==
    /\ job[h].pc = "put"
    /\ job[h].user \notin gone
    /\ balance' = [balance EXCEPT ![job[h].user] = job[h].read]
    /\ Return(h)
    /\ UNCHANGED <<statement, gone, contracts, payment, tried, runner, bank, counts, history>>

DeleteUser(u) ==
    /\ u \in (Users \cap Deletable) \ gone
    /\ gone' = gone \cup {u}
    /\ UNCHANGED <<accounts, contracts, payment, tried, job, runner, bank, counts, history>>

-----------------------------------------------------------------------------
(* runPayments.                                                            *)

Capped(a, b) == IF a <= b THEN a ELSE b

\* amountToPay: the share of the fee for the time since the last payment,
\* truncated towards zero.
Due(c) ==
    LET share == payment[c].age * Fee[c]
    IN  IF share >= 0 THEN share \div Duration ELSE -((-share) \div Duration)

\* The contracts are listed before the payments, and only the runner changes
\* a payment that a listed contract has: it is read at its turn instead.
RunPayments ==
    /\ runner.pc = "waiting"
    /\ contracts # <<>>
    /\ runner' = [Waiting EXCEPT !.pc = "next", !.todo = contracts]
    /\ UNCHANGED <<accounts, gone, contracts, payment, tried, job, bank, counts, history>>

NextContract(todo) == IF todo = <<>> THEN Waiting ELSE [Waiting EXCEPT !.pc = "next", !.todo = todo]

\* Mutant of SkipPayment: the time is noted although nothing was paid.
SkipPaymentNoted ==
    /\ runner.pc = "next"
    /\ LET c == Head(runner.todo)
       IN  /\ payment[c].left = 0 \/ Due(c) = 0
           /\ payment' = [payment EXCEPT ![c].age = 0]
    /\ runner' = NextContract(Tail(runner.todo))
    /\ UNCHANGED <<accounts, gone, contracts, tried, job, bank, counts, history>>

SkipPayment ==
    /\ runner.pc = "next"
    /\ LET c == Head(runner.todo) IN payment[c].left = 0 \/ Due(c) = 0
    /\ runner' = NextContract(Tail(runner.todo))
    /\ UNCHANGED <<accounts, gone, contracts, payment, tried, job, bank, counts, history>>

FindPayeeFor(amount) ==
    /\ runner.pc = "next"
    /\ LET c == Head(runner.todo) IN payment[c].left # 0 /\ Due(c) # 0
    /\ IF Payee \in gone
       THEN runner' = Waiting /\ UNCHANGED raced
       ELSE /\ runner' = [runner EXCEPT !.pc = "crediting", !.read = balance[Payee],
                                        !.amount = amount]
            /\ Race(Payee)
    /\ UNCHANGED <<accounts, gone, contracts, payment, tried, job, bank, counts, torn, paid>>

\* Mutant of FindPayee: what is due is paid, also when less is left.
FindPayeeUncapped == FindPayeeFor(Due(Head(runner.todo)))

\* The run ends at a contract whose provider is not found.
FindPayee ==
    FindPayeeFor(Capped(Due(Head(runner.todo)), payment[Head(runner.todo)].left))

CreditProvider ==
    /\ runner.pc = "crediting"
    /\ IF Payee \in gone
       THEN runner' = Waiting /\ UNCHANGED <<balance, paid>>
       ELSE /\ balance' = [balance EXCEPT ![Payee] = runner.read + runner.amount]
            /\ paid' = [paid EXCEPT ![Head(runner.todo)] = @ + runner.amount]
            /\ runner' = [runner EXCEPT !.pc = "settling"]
    /\ UNCHANGED <<statement, gone, contracts, payment, tried, job, bank, counts, raced, torn>>

SettleAt(age) ==
    /\ runner.pc = "settling"
    /\ LET c == Head(runner.todo)
       IN  payment' = [payment EXCEPT ![c].left = @ - runner.amount, ![c].age = age]
    /\ runner' = [runner EXCEPT !.pc = "recording"]
    /\ UNCHANGED <<accounts, gone, contracts, tried, job, bank, counts, history>>

\* Mutant of SettlePayment: the time of the payment is not noted.
SettlePaymentUndated == SettleAt(payment[Head(runner.todo)].age)

SettlePayment == SettleAt(0)

RecordReceipt ==
    /\ runner.pc = "recording"
    /\ statement' = [statement EXCEPT ![Payee] = @ + runner.amount]
    /\ runner' = NextContract(Tail(runner.todo))
    /\ UNCHANGED <<balance, gone, contracts, payment, tried, job, bank, counts, history>>

PaymentRunner ==
    RunPayments \/ SkipPayment \/ FindPayee \/ CreditProvider \/ SettlePayment \/ RecordReceipt

-----------------------------------------------------------------------------
(* Time, failures and crashes.                                             *)

Tick ==
    /\ payment' = [c \in Contracts |->
                     IF payment[c].left = 0 THEN payment[c]
                     ELSE [payment[c] EXCEPT !.age = Capped(@ + 1, MaxAge),
                                             !.elapsed = Capped(@ + 1, MaxAge)]]
    /\ UNCHANGED <<accounts, gone, contracts, tried, job, runner, bank, counts, history>>

\* What a handler, or the runner, has moved on one side only.
TornBy(h) == IF job[h].pc = "debit" THEN -job[h].amount ELSE 0
TornByRunner == IF runner.pc = "settling" /\ runner.amount > 0 THEN runner.amount ELSE 0

\* A database call fails, or finds no document: the handler returns.
FailHandler(h) ==
    /\ job[h].pc # "idle"
    /\ LET lost == job[h].user \in gone /\ job[h].pc \in HoldsDocument
       IN  /\ lost \/ faults < MaxFaults
           /\ faults' = IF lost THEN faults ELSE faults + 1
    /\ torn' = torn + TornBy(h)
    /\ Return(h)
    /\ UNCHANGED <<accounts, gone, contracts, payment, tried, runner, bank, asked, raced, paid>>

\* Any error ends the run.
FailRunner ==
    /\ runner.pc # "waiting"
    /\ faults < MaxFaults
    /\ faults' = faults + 1
    /\ torn' = torn + TornByRunner
    /\ runner' = Waiting
    /\ UNCHANGED <<accounts, gone, contracts, payment, tried, job, bank, asked, raced, paid>>

Crash ==
    /\ faults < MaxFaults
    /\ faults' = faults + 1
    /\ torn' = torn + SumFunctionOnSet([h \in Handlers |-> TornBy(h)], Handlers) + TornByRunner
    /\ job' = [h \in Handlers |-> Idle]
    /\ runner' = Waiting
    /\ UNCHANGED <<accounts, gone, contracts, payment, tried, bank, asked, raced, paid>>

-----------------------------------------------------------------------------
Handler(h) ==
    \/ \E c \in Contracts : PostContract(h, c)
    \/ DebitFee(h) \/ InsertPayment(h) \/ InsertContract(h) \/ Record(h)
    \/ \E r \in Renters, cents \in Cents : Deposit(h, r, cents)
    \/ Execute(h) \/ Credit(h)
    \/ \E u \in Users, cents \in Cents : Withdraw(h, u, cents)
    \/ Payout(h) \/ Debit(h)
    \/ \E u \in Users : PutUser(h, u)
    \/ UpdateUser(h) \/ FailHandler(h)

Next ==
    \/ \E h \in Handlers : Handler(h)
    \/ \E i \in DOMAIN contracts : DeleteContract(i)
    \/ \E u \in Users : DeleteUser(u)
    \/ PaymentRunner \/ FailRunner
    \/ Tick \/ Crash

\* The ticker keeps starting the runner, the database answers it, and time
\* goes on.
Fairness == WF_vars(PaymentRunner) /\ WF_vars(Tick)

Spec == Init /\ [][Next]_vars /\ Fairness

-----------------------------------------------------------------------------
Payment == [left : Int, age : 0..MaxAge, elapsed : 0..MaxAge]

Job == [pc : HoldsDocument \cup {"idle", "record", "insertPayment", "insertContract"},
        user : Users \cup {NoUser},
        contract : Contracts \cup {NoContract},
        read : Int, amount : Int]

Runner == [pc : {"waiting", "next", "crediting", "settling", "recording"},
           todo : Seq(Contracts), read : Int, amount : Int]

\* The type of the state: among others, no contract with a fee is paid more
\* than is left.
TypeOK ==
    /\ balance \in [Users -> Int]
    /\ statement \in [Users -> Int]
    /\ gone \subseteq Users /\ tried \subseteq Contracts
    /\ ToSet(contracts) \subseteq tried /\ IsInjective(contracts)
    /\ payment \in [Contracts -> Payment]
    /\ \A c \in Contracts : Fee[c] >= 0 => payment[c].left >= 0
    /\ job \in [Handlers -> Job]
    /\ runner \in Runner
    /\ bank \in Int /\ torn \in Nat /\ faults \in 0..MaxFaults /\ asked \in 0..MaxRequests
    /\ raced \subseteq Users
    /\ paid \in [Contracts -> Int]

\* A contract with a negative fee, which nobody refuses, is paid by its provider.
MayOwe(u) == \E c \in tried : ProviderOf[c] = u /\ Fee[c] < 0

\* No balance is negative, whatever overlaps and whatever fails, unless it is
\* of the provider of a contract with a negative fee: each other writer
\* subtracts from the document in which it checked the balance, and a fee that
\* is negative takes nothing from anyone else.
NeverOverdrawn == \A u \in Users : balance[u] < 0 => MayOwe(u)

\* What u's balance has of the moves the transactions do not show yet.
Unrecorded(u) ==
    SumFunctionOnSet([h \in Handlers |-> job[h].amount],
        {h \in Handlers : job[h].user = u
                          /\ job[h].pc \in {"record", "insertPayment", "insertContract"}})
      + (IF runner.pc \in {"settling", "recording"} /\ Payee = u THEN runner.amount ELSE 0)

\* A user whose document was never in two hands at once has the balance that
\* the transactions explain, if no call failed: deposits, withdrawals, fees
\* and receipts of other users, and the runner, do not disturb it.
StatementExplains ==
    faults = 0 =>
        \A u \in Users \ (raced \cup gone) :
            balance[u] = Opening[u] + statement[u] + Unrecorded(u)

\* SkyBin owes its users no more than it was given: balances and what is left
\* on the contracts are covered by the money that came in, but for the moves
\* that are under way or were cut in two; fees and deposits are safe to cut
\* anywhere, payouts and receipts in one place each.  This is so until a
\* contract with a negative fee is posted: the renter has its money at once, and
\* the provider, its contract or its document may be gone before it pays.
Solvent ==
    raced = {} /\ (\A c \in tried : Fee[c] >= 0) =>
        SumFunctionOnSet(balance, Users \ gone)
          + SumFunctionOnSet([c \in Contracts |-> payment[c].left], Contracts)
        <= SumFunctionOnSet(Opening, Users)
             + SumFunctionOnSet(Fee, ToSet(Formed)) + bank
             + torn + SumFunctionOnSet([h \in Handlers |-> TornBy(h)], Handlers) + TornByRunner

\* A provider is never paid ahead of the time it has kept its contract, nor
\* more than the fee, as long as no run was cut in two; whoever else writes
\* its balance, and whatever fees other contracts have.
NeverAhead ==
    torn = 0 =>
        \A c \in {d \in Contracts : Fee[d] >= 0} : paid[c] * Duration <= Fee[c] * payment[c].elapsed

\* The runner does not get to the contracts behind one whose provider was
\* deleted: the run ends there each time.
Reached(i) == \A j \in 1..i : ProviderOf[contracts[j]] \notin gone

\* Every contract is paid in the end, the last tenth of a cent included,
\* unless it is deleted or the runner cannot reach it: at any time, sooner or
\* later nothing is left to pay of those in the collection.  (For a negative
\* fee this depends on the runner's being in time: amountToPay is not capped
\* from below.)
PaidInFull ==
    []<>(\A i \in DOMAIN contracts :
            Fee[contracts[i]] >= 0 /\ Reached(i) => payment[contracts[i]].left = 0)
=============================================================================

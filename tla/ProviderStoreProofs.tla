------------------------ MODULE ProviderStoreProofs ------------------------
(***************************************************************************)
(* The provider's store, for any number of renters, blocks and overlapping *)
(* handlers, and for any crashes: every safety property that the runs      *)
(* check.  No block row without a contract row, the outcome of an          *)
(* undisturbed request stays true, and the counters in memory account for  *)
(* the tables of the database.                                             *)
(***************************************************************************)
EXTENDS ProviderStore, DataLemmas, TLAPS

(***************************************************************************)
(* A handler that stands past a check carries what it checked.             *)
(***************************************************************************)
Carries(c) ==
    /\ pc(c) \in StorePC \cup DeletePC =>
          /\ job[c].block \in Blocks
          /\ job[c].renter = Owner[job[c].block]
    /\ pc(c) \in NegotiatePC => job[c].renter \in Renters /\ job[c].amount > 0
    /\ pc(c) \notin StorePC \cup DeletePC => job[c].block = NoBlock

JobsCarry == \A c \in Clients : Carries(c)

\* What the handlers rely on of the disk and of each other's requests.
DiskInv == DiskTypeOK /\ JobsCarry

(***************************************************************************)
(* A renter is in provider.renters only after its contract is in the       *)
(* database, and a store passed its check only for such a renter.          *)
(***************************************************************************)
Signed(c) ==
    /\ pc(c) = "signed" => ledger[job[c].renter] > 0
    /\ pc(c) \in StorePC => ledger[Owner[job[c].block]] > 0

ContractFirst ==
    /\ \A r \in known : ledger[r] > 0
    /\ \A c \in Clients : Signed(c)

(***************************************************************************)
(* What an undisturbed handler may rely on at each of its labels.          *)
(***************************************************************************)
Holds(c) == job[c].alone =>
    /\ pc(c) = "copying" => file[job[c].block] = c
    /\ pc(c) \in {"copied", "inserted"} => file[job[c].block] = "whole"
    /\ pc(c) = "inserted" => rows[job[c].block] > 0
    /\ pc(c) \in {"removed", "unlisted"} => file[job[c].block] = "nofile"
    /\ pc(c) = "unlisted" => rows[job[c].block] = 0

Apart(c, d) ==
    job[c].alone /\ job[c].block \in Blocks /\ d # c => job[d].block # job[c].block

Unclaimed(c, b) == promise[b] # "none" => job[c].block # b

Undisturbed ==
    /\ \A c \in Clients : Holds(c)
    /\ \A c \in Clients, d \in Clients : Apart(c, d)
    /\ \A c \in Clients, b \in Blocks : Unclaimed(c, b)

\* What is on disk of block b is what the outcome says.
Left(b, outcome) ==
    /\ outcome = "stored" => file[b] = "whole" /\ rows[b] > 0
    /\ outcome = "gone" => file[b] = "nofile" /\ rows[b] = 0

LedgerInv == DiskInv /\ ContractFirst /\ NoOrphanRows
PromiseInv == DiskInv /\ Undisturbed /\ PromiseKept

-----------------------------------------------------------------------------
(***************************************************************************)
(* What the four ways to change a handler's state do.                      *)
(***************************************************************************)
JobType == job \in [Clients -> Job]

\* d's request is as it was.
Same(d) == job'[d] = job[d]

\* d's request is as it was, but for its label.
SameRequest(d) ==
    /\ job'[d].block = job[d].block
    /\ job'[d].renter = job[d].renter
    /\ job'[d].amount = job[d].amount
    /\ job'[d].alone = job[d].alone

\* d's request is as it was, but that one for b may have disturbed it.
Disturbed(d, b) ==
    /\ job'[d].pc = job[d].pc
    /\ job'[d].block = job[d].block
    /\ job'[d].renter = job[d].renter
    /\ job'[d].amount = job[d].amount
    /\ job'[d].alone => job[d].alone /\ job[d].block # b

\* A handler that moves to another label keeps its request, and the other
\* handlers stay where they are.
LEMMA GotoJob ==
    ASSUME JobType, NEW c \in Clients, NEW label \in Labels, Goto(c, label)
    PROVE  /\ JobType'
           /\ job'[c].pc = label /\ SameRequest(c)
           /\ \A d \in Clients \ {c} : Same(d)
<1>1. job' = [job EXCEPT ![c] = [job[c] EXCEPT !.pc = label]]
    BY DEF Goto
<1>2. job[c] \in Job /\ [job[c] EXCEPT !.pc = label] \in Job
    BY DEF JobType, Job
<1>3. JobType' /\ job'[c] = [job[c] EXCEPT !.pc = label]
    BY <1>1, <1>2 DEF JobType
<1>4. job'[c].pc = label /\ SameRequest(c)
    BY <1>2, <1>3 DEF SameRequest, Job
<1>5. \A d \in Clients \ {c} : Same(d)
    BY <1>1 DEF JobType, Same
<1>6. QED
    BY <1>3, <1>4, <1>5

\* A handler between two requests has the type of a job.
LEMMA IdleJob == Idle \in Job
    BY DEF Idle, Job, Labels

\* A handler that returns is idle, and the other handlers stay where they are.
LEMMA ReturnJob ==
    ASSUME JobType, NEW c \in Clients, Return(c)
    PROVE  /\ JobType'
           /\ job'[c] = Idle
           /\ \A d \in Clients \ {c} : Same(d)
    BY IdleJob DEF JobType, Return, Same

\* A handler that takes up a request for b holds it; another request is
\* disturbed if it is for b, and is otherwise as it was; nothing is promised
\* about b from then on.
LEMMA StartJob ==
    ASSUME JobType, NEW c \in Clients, NEW b \in Blocks, NEW label \in Labels,
           NEW n \in Nat, StartBlockJob(c, b, label, n)
    PROVE  /\ JobType'
           /\ job'[c] = [pc |-> label, block |-> b, renter |-> Owner[b],
                         amount |-> n, alone |-> InFlight(b) = {}]
           /\ \A d \in Clients \ {c} : Disturbed(d, b)
           /\ promise' = [promise EXCEPT ![b] = "none"]
<1> DEFINE started == [pc |-> label, block |-> b, renter |-> Owner[b],
                       amount |-> n, alone |-> InFlight(b) = {}]
           other(d) == IF job[d].block = b THEN [job[d] EXCEPT !.alone = FALSE]
                                           ELSE job[d]
<1>1. job' = [d \in Clients |-> IF d = c THEN started ELSE other(d)]
    BY DEF StartBlockJob
<1>2. started \in Job
    BY ProviderAssumption DEF Job
<1>3. \A d \in Clients : job[d] \in Job /\ other(d) \in Job
    BY DEF JobType, Job
<1>4. \A d \in Clients \ {c} :
          /\ other(d).pc = job[d].pc
          /\ other(d).block = job[d].block
          /\ other(d).renter = job[d].renter
          /\ other(d).amount = job[d].amount
          /\ other(d).alone => job[d].alone /\ job[d].block # b
    BY <1>3 DEF Job
<1> HIDE DEF started, other
<1>5. JobType'
    BY <1>1, <1>2, <1>3 DEF JobType
<1>6. job'[c] = started /\ \A d \in Clients \ {c} : job'[d] = other(d)
    BY <1>1
<1>7. \A d \in Clients \ {c} : Disturbed(d, b)
    BY <1>4, <1>6 DEF Disturbed
<1>8. QED
    BY <1>5, <1>6, <1>7 DEF started, StartBlockJob

\* A handler that starts on a request about no block holds what it asks for.
LEMMA NewJob ==
    ASSUME JobType, NEW c \in Clients, NEW label \in Labels,
           NEW r \in Renters \cup {NoRenter}, NEW n \in Nat, Start(c, label, r, n)
    PROVE  /\ JobType'
           /\ job'[c] = [pc |-> label, block |-> NoBlock, renter |-> r,
                         amount |-> n, alone |-> FALSE]
           /\ \A d \in Clients \ {c} : Same(d)
<1> DEFINE new == [pc |-> label, block |-> NoBlock, renter |-> r,
                   amount |-> n, alone |-> FALSE]
<1>1. new \in Job
    BY DEF Job
<1>2. job' = [job EXCEPT ![c] = new]
    BY DEF Start
<1>3. QED
    BY <1>1, <1>2 DEF JobType, Same

\* A negotiation that passed its check holds the renter and the space.
LEMMA AgreeJob ==
    ASSUME JobType, NEW c \in Clients, NEW r \in Renters, NEW space \in Spaces,
           NegotiateCheck(c, r, space)
    PROVE  /\ JobType'
           /\ job'[c] = [pc |-> "agreed", block |-> NoBlock, renter |-> r,
                         amount |-> space, alone |-> FALSE]
           /\ \A d \in Clients \ {c} : Same(d)
<1>1. "agreed" \in Labels /\ space \in Nat
    BY ProviderAssumption DEF Labels, NegotiatePC
<1>2. Start(c, "agreed", r, space)
    BY DEF NegotiateCheck
<1>3. QED
    BY <1>1, <1>2, NewJob

-----------------------------------------------------------------------------
(***************************************************************************)
(* A handler carries the same facts before and after a step that keeps its *)
(* request, and while it moves along the labels of its operation.          *)
(***************************************************************************)
\* The handler that moves keeps what its check established.
LEMMA CarryOn ==
    ASSUME NEW c \in Clients, Carries(c), SameRequest(c),
           \/ job'[c].pc = job[c].pc
           \/ pc(c) \in StorePC /\ job'[c].pc \in StorePC
           \/ pc(c) \in DeletePC /\ job'[c].pc \in DeletePC
           \/ pc(c) \in NegotiatePC /\ job'[c].pc \in NegotiatePC
    PROVE  Carries(c)'
    BY DEF Carries, SameRequest, pc, StorePC, DeletePC, NegotiatePC

\* A handler that does not move keeps what its check established.
LEMMA SameCarries ==
    ASSUME NEW d \in Clients, Carries(d), Same(d)
    PROVE  Carries(d)'
    BY DEF Carries, Same, pc

\* An idle handler holds no block.
LEMMA IdleCarries ==
    ASSUME NEW c \in Clients, job'[c] = Idle
    PROVE  Carries(c)'
    BY DEF Carries, Idle, pc, StorePC, DeletePC, NegotiatePC

\* After a step along one operation the jobs are as they should be.
LEMMA GotoCarries ==
    ASSUME DiskInv, NEW c \in Clients, NEW label \in Labels, Goto(c, label),
           \/ pc(c) \in StorePC /\ label \in StorePC
           \/ pc(c) \in DeletePC /\ label \in DeletePC
           \/ pc(c) \in NegotiatePC /\ label \in NegotiatePC
    PROVE  JobType' /\ JobsCarry'
    BY GotoJob, CarryOn, SameCarries DEF DiskInv, DiskTypeOK, JobType, JobsCarry

\* After a return the jobs are as they should be.
LEMMA ReturnCarries ==
    ASSUME DiskInv, NEW c \in Clients, Return(c)
    PROVE  JobType' /\ JobsCarry'
    BY ReturnJob, IdleCarries, SameCarries DEF DiskInv, DiskTypeOK, JobType, JobsCarry

\* After a request for a block began the jobs are as they should be.
LEMMA StartCarries ==
    ASSUME DiskInv, NEW c \in Clients, NEW b \in Blocks,
           NEW label \in StorePC \cup DeletePC, NEW n \in Nat,
           StartBlockJob(c, b, label, n)
    PROVE  JobType' /\ JobsCarry' /\ promise' \in [Blocks -> {"none", "stored", "gone"}]
<1>1. JobType /\ label \in Labels
    BY DEF DiskInv, DiskTypeOK, JobType, Labels
<1>2. /\ JobType'
      /\ job'[c] = [pc |-> label, block |-> b, renter |-> Owner[b],
                    amount |-> n, alone |-> InFlight(b) = {}]
      /\ promise' = [promise EXCEPT ![b] = "none"]
    BY <1>1, StartJob
<1>3. \A d \in Clients \ {c} : Disturbed(d, b)
    BY <1>1, StartJob
<1>4. Carries(c)'
    BY <1>2 DEF Carries, pc, StorePC, DeletePC, NegotiatePC
<1>5. \A d \in Clients \ {c} : Carries(d)'
    BY <1>3 DEF DiskInv, JobsCarry, Carries, pc, Disturbed
<1>6. QED
    BY <1>2, <1>4, <1>5 DEF JobsCarry, DiskInv, DiskTypeOK

-----------------------------------------------------------------------------
(***************************************************************************)
(* UpdateMeta, UpdateConfig and the pricing thread hold no block and touch *)
(* no table and no counter.                                                *)
(***************************************************************************)
Aside(c) == UpdateMeta(c) \/ UpdateConfig(c) \/ PricingTick(c)

\* The labels of a handler that is not past a check.
OffPC == {"idle", "counted"} \cup ConfigPC

\* What the rest of the system sees of such a step.
Unseen == UNCHANGED <<file, rows, ledger, known, reserved, used, totalReserved,
                      agreedSpace, promise>>

\* Such a step moves one handler at most, among the labels past no check.
LEMMA AsideMoves ==
    ASSUME DiskInv, NEW c \in Clients, Aside(c)
    PROVE  /\ JobType' /\ Carries(c)' /\ Unseen
           /\ \A d \in Clients \ {c} : Same(d)
           /\ job[c].pc \in OffPC /\ job'[c].pc \in OffPC
           /\ job[c].block = NoBlock /\ job'[c].block = NoBlock
<1> USE DEF disk, memory, config, meta
<1>0. /\ JobType /\ Carries(c)
      /\ OffPC \cap (StorePC \cup DeletePC) = {}
      /\ ConfigPC \subseteq Labels /\ ConfigPC \cap NegotiatePC = {}
    BY DEF DiskInv, DiskTypeOK, JobType, JobsCarry, OffPC, ConfigPC, StorePC, DeletePC,
       NegotiatePC, Labels
<1>1. Unseen
    BY DEF Aside, UpdateMeta, UpdateConfig, MetaSnapshot, MetaSkip, MetaPublish, ConfigSet,
       ConfigSave, PricingTick, Unseen
<1>2. job[c].pc \in OffPC
    BY DEF Aside, UpdateMeta, UpdateConfig, MetaSnapshot, MetaSkip, MetaPublish, MetaReturn,
       ConfigSet, ConfigSave, PricingTick, At, pc, MetaPC, ConfigPC, OffPC
<1>3. job[c].block = NoBlock
    BY <1>0, <1>2 DEF Carries, pc
<1>4. CASE job' = job
  <2>1. JobType' /\ \A d \in Clients \ {c} : Same(d)
    BY <1>0, <1>4 DEF JobType, Same
  <2>2. Carries(c)'
    BY <1>0, <1>4 DEF Carries, pc
  <2> QED
    BY <1>1, <1>2, <1>3, <1>4, <2>1, <2>2
<1>5. CASE Return(c)
  <2>1. JobType' /\ job'[c] = Idle /\ \A d \in Clients \ {c} : Same(d)
    BY <1>0, <1>5, ReturnJob
  <2>2. Carries(c)'
    BY <2>1, IdleCarries
  <2>3. job'[c].pc \in OffPC /\ job'[c].block = NoBlock
    BY <2>1 DEF Idle, OffPC
  <2> QED
    BY <1>1, <1>2, <1>3, <2>1, <2>2, <2>3
<1>6. ASSUME NEW label \in {"priced", "saving"}, Goto(c, label)
      PROVE  /\ JobType' /\ Carries(c)' /\ \A d \in Clients \ {c} : Same(d)
             /\ job'[c].pc \in OffPC /\ job'[c].block = NoBlock
  <2>1. label \in ConfigPC
    BY DEF ConfigPC
  <2>2. /\ JobType' /\ job'[c].pc = label /\ SameRequest(c)
        /\ \A d \in Clients \ {c} : Same(d)
    BY <1>0, <1>6, <2>1, GotoJob
  <2>3. job'[c].block = NoBlock /\ job'[c].pc \in OffPC
    BY <1>3, <2>1, <2>2 DEF SameRequest, OffPC
  <2> QED
    BY <1>0, <2>1, <2>2, <2>3 DEF Carries, pc, OffPC
<1>7. ASSUME NEW label \in {"configured", "repricing"}, Start(c, label, NoRenter, 0)
      PROVE  /\ JobType' /\ Carries(c)' /\ \A d \in Clients \ {c} : Same(d)
             /\ job'[c].pc \in OffPC /\ job'[c].block = NoBlock
  <2>1. label \in ConfigPC
    BY DEF ConfigPC
  <2>2. /\ JobType'
        /\ job'[c] = [pc |-> label, block |-> NoBlock, renter |-> NoRenter,
                      amount |-> 0, alone |-> FALSE]
        /\ \A d \in Clients \ {c} : Same(d)
    BY <1>0, <1>7, <2>1, NewJob
  <2>3. job'[c].block = NoBlock /\ job'[c].pc = label /\ label \in OffPC
    BY <2>1, <2>2 DEF OffPC
  <2> QED
    BY <1>0, <2>1, <2>2, <2>3 DEF Carries, pc, OffPC
<1> QED
    BY <1>1, <1>2, <1>3, <1>4, <1>5, <1>6, <1>7 DEF Aside, UpdateMeta, UpdateConfig,
       MetaSnapshot, MetaSkip, MetaPublish, MetaReturn, ConfigSet, ConfigSave, PricingTick

-----------------------------------------------------------------------------
(***************************************************************************)
(* What is on disk and where the handlers are has its type.                *)
(***************************************************************************)
\* DiskInv is inductive: every step of every handler keeps it, and so does a
\* restart.
LEMMA DiskInvStep == DiskInv /\ [Next]_vars => DiskInv'
<1> SUFFICES ASSUME DiskInv, [Next]_vars
             PROVE  DiskInv'
    OBVIOUS
<1> USE DEF disk, memory, config, meta
<1>0. /\ DiskTypeOK
      /\ \A c \in Clients : job[c].amount \in Nat
    BY DEF DiskInv, DiskTypeOK, Job
<1>1. ASSUME NEW c \in Clients, NEW b \in Blocks, StoreCheck(c, b)
      PROVE  DiskInv'
  <2>1. StartBlockJob(c, b, "checked", Size[b]) /\ Size[b] \in Nat
    BY <1>1, ProviderAssumption DEF StoreCheck
  <2>2. JobType' /\ JobsCarry' /\ promise' \in [Blocks -> {"none", "stored", "gone"}]
    BY <2>1, StartCarries DEF StorePC
  <2>3. QED
    BY <1>0, <1>1, <2>2 DEF StoreCheck, DiskTypeOK, JobType, DiskInv
<1>2. ASSUME NEW c \in Clients, StoreCreate(c)
      PROVE  DiskInv'
  <2>1. JobType' /\ JobsCarry'
    BY <1>2, GotoCarries, ReturnCarries DEF StoreCreate, At, pc, Labels, StorePC
  <2>2. QED
    BY <1>0, <1>2, <2>1 DEF StoreCreate, DiskTypeOK, FileState, JobType, DiskInv
<1>3. ASSUME NEW c \in Clients, StoreCopy(c)
      PROVE  DiskInv'
  <2>1. JobType' /\ JobsCarry'
    BY <1>3, GotoCarries, ReturnCarries DEF StoreCopy, At, pc, Labels, StorePC
  <2>2. QED
    BY <1>0, <1>3, <2>1 DEF StoreCopy, DiskTypeOK, FileState, JobType, DiskInv
<1>4. ASSUME NEW c \in Clients, InsertBlock(c)
      PROVE  DiskInv'
  <2>1. JobType' /\ JobsCarry'
    BY <1>4, GotoCarries, ReturnCarries DEF InsertBlock, At, pc, Labels, StorePC
  <2>2. QED
    BY <1>0, <1>4, <2>1 DEF InsertBlock, DiskTypeOK, FileState, JobType, DiskInv
<1>5. ASSUME NEW c \in Clients, StoreCount(c)
      PROVE  DiskInv'
  <2>1. JobType' /\ JobsCarry'
    BY <1>5, ReturnCarries DEF StoreCount, Acknowledge
  <2>2. QED
    BY <1>0, <1>5, <2>1 DEF StoreCount, Acknowledge, DiskTypeOK, JobType, DiskInv
<1>6. ASSUME NEW c \in Clients, NEW b \in Blocks, DeleteStat(c, b)
      PROVE  DiskInv'
  <2>1. PICK n \in 0..Size[b] : StartBlockJob(c, b, "statted", n)
    BY <1>6 DEF DeleteStat
  <2>a. n \in Nat
    BY <2>1, ProviderAssumption
  <2>2. JobType' /\ JobsCarry' /\ promise' \in [Blocks -> {"none", "stored", "gone"}]
    BY <2>1, <2>a, StartCarries DEF DeletePC
  <2>3. QED
    BY <1>0, <1>6, <2>2 DEF DeleteStat, DiskTypeOK, JobType, DiskInv
<1>7. ASSUME NEW c \in Clients, DeleteRemove(c)
      PROVE  DiskInv'
  <2>1. JobType' /\ JobsCarry'
    BY <1>7, GotoCarries, ReturnCarries DEF DeleteRemove, At, pc, Labels, DeletePC
  <2>2. QED
    BY <1>0, <1>7, <2>1 DEF DeleteRemove, DiskTypeOK, FileState, JobType, DiskInv
<1>8. ASSUME NEW c \in Clients, DeleteBlockById(c)
      PROVE  DiskInv'
  <2>1. JobType' /\ JobsCarry'
    BY <1>8, GotoCarries, ReturnCarries DEF DeleteBlockById, At, pc, Labels, DeletePC
  <2>2. QED
    BY <1>0, <1>8, <2>1 DEF DeleteBlockById, DiskTypeOK, FileState, JobType, DiskInv
<1>9. ASSUME NEW c \in Clients, DeleteCount(c)
      PROVE  DiskInv'
  <2>1. JobType' /\ JobsCarry'
    BY <1>9, ReturnCarries DEF DeleteCount, Acknowledge
  <2>2. QED
    BY <1>0, <1>9, <2>1 DEF DeleteCount, Acknowledge, DiskTypeOK, JobType, DiskInv
<1>10. ASSUME NEW c \in Clients, NEW r \in Renters, NEW space \in Spaces,
            NegotiateCheck(c, r, space)
      PROVE  DiskInv'
  <2>1. /\ JobType'
        /\ job'[c] = [pc |-> "agreed", block |-> NoBlock, renter |-> r,
                      amount |-> space, alone |-> FALSE]
    BY <1>0, <1>10, AgreeJob DEF DiskTypeOK, JobType
  <2>a. space \in Nat /\ space > 0
    BY ProviderAssumption
  <2>b. Carries(c)'
    BY <2>1, <2>a DEF Carries, pc, StorePC, DeletePC, NegotiatePC
  <2>2. JobsCarry'
    BY <1>0, <1>10, <2>b, AgreeJob, SameCarries DEF DiskTypeOK, JobType, DiskInv, JobsCarry
  <2>3. QED
    BY <1>0, <1>10, <2>1, <2>2 DEF NegotiateCheck, DiskTypeOK, JobType, DiskInv
<1>11. ASSUME NEW c \in Clients, InsertContract(c)
      PROVE  DiskInv'
  <2>1. JobType' /\ JobsCarry'
    BY <1>11, GotoCarries, ReturnCarries DEF InsertContract, At, pc, Labels, NegotiatePC
  <2>2. QED
    BY <1>0, <1>11, <2>1 DEF InsertContract, DiskTypeOK, FileState, JobType, DiskInv
<1>12. ASSUME NEW c \in Clients, NegotiateCount(c)
      PROVE  DiskInv'
  <2>1. JobType' /\ JobsCarry'
    BY <1>12, GotoCarries DEF NegotiateCount, At, pc, Labels, NegotiatePC
  <2>2. job[c].renter \in Renters
    BY <1>12 DEF NegotiateCount, At, DiskInv, JobsCarry, Carries, pc, NegotiatePC
  <2>3. QED
    BY <1>0, <1>12, <2>1, <2>2 DEF NegotiateCount, DiskTypeOK, JobType, DiskInv
<1>13. ASSUME NEW c \in Clients, Aside(c)
      PROVE  DiskInv'
  <2>1. JobType' /\ Carries(c)' /\ Unseen /\ \A d \in Clients \ {c} : Same(d)
    BY <1>13, AsideMoves
  <2>2. JobsCarry'
    BY <2>1, SameCarries DEF DiskInv, JobsCarry
  <2>3. QED
    BY <1>0, <2>1, <2>2 DEF Unseen, DiskTypeOK, JobType, DiskInv
<1>15. CASE Restart
  <2>1. JobsCarry'
    BY <1>15, IdleCarries DEF Restart, JobsCarry
  <2>2. QED
    BY <1>0, <1>15, <2>1, IdleJob DEF Restart, DiskTypeOK, FileState, DiskInv
<1>16. CASE UNCHANGED vars
    BY <1>16 DEF vars, DiskInv, DiskTypeOK, JobsCarry, Carries, pc
<1>17. QED
    BY <1>1, <1>2, <1>3, <1>4, <1>5, <1>6, <1>7, <1>8, <1>9, <1>10, <1>11,
       <1>12, <1>13, <1>15, <1>16
       DEF Next, StoreBlock, DeleteBlock, NegotiateContract, Aside

\* The files, the tables, the keys of provider.renters and the handlers always
\* have their types.
THEOREM DiskTypeCorrect == Spec => []DiskTypeOK
<1>1. Init => DiskInv
    BY IdleJob DEF Init, DiskInv, DiskTypeOK, FileState, JobsCarry, Carries,
       Idle, pc, StorePC, DeletePC, NegotiatePC
<1>2. DiskInv => DiskTypeOK
    BY DEF DiskInv
<1>3. QED
    BY <1>1, <1>2, DiskInvStep, PTL DEF Spec

-----------------------------------------------------------------------------
(***************************************************************************)
(* No row of the blocks table without a contract row of its renter.        *)
(***************************************************************************)
\* No step takes a contract out of the contracts table.
LEMMA LedgerGrows ==
    DiskInv /\ [Next]_vars => \A r \in Renters : ledger'[r] >= ledger[r]
<1> SUFFICES ASSUME DiskInv, [Next]_vars
             PROVE  \A r \in Renters : ledger'[r] >= ledger[r]
    OBVIOUS
<1>1. /\ ledger \in [Renters -> Nat]
      /\ \A c \in Clients : job[c].amount \in Nat
    BY DEF DiskInv, DiskTypeOK, Job
<1>2. ASSUME NEW c \in Clients, InsertContract(c)
      PROVE  \A r \in Renters : ledger'[r] >= ledger[r]
    BY <1>1, <1>2 DEF InsertContract
<1>3. CASE UNCHANGED ledger
    BY <1>1, <1>3
<1>4. QED
    BY <1>2, <1>3 DEF Next, vars, disk, StoreBlock, DeleteBlock, NegotiateContract,
       StoreCheck, StoreCreate, StoreCopy, InsertBlock, StoreCount, DeleteStat,
       DeleteRemove, DeleteBlockById, DeleteCount, NegotiateCheck, NegotiateCount,
       UpdateMeta, MetaSnapshot, MetaSkip, MetaPublish, UpdateConfig, ConfigSet, ConfigSave,
       PricingTick, Restart

\* While the ledger grows, a handler whose request is not the one that moves
\* keeps what its check established.
LEMMA SignedStays ==
    ASSUME DiskInv, DiskInv', [Next]_vars, NEW d \in Clients, Signed(d),
           job'[d].block = job[d].block, job'[d].renter = job[d].renter,
           \/ job'[d].pc = job[d].pc
           \/ pc(d) \in StorePC /\ job'[d].pc \in StorePC
           \/ job'[d].pc \notin StorePC \cup {"signed"}
    PROVE  Signed(d)'
<1>1. \A r \in Renters : ledger'[r] >= ledger[r] /\ ledger[r] \in Nat /\ ledger'[r] \in Nat
    BY LedgerGrows DEF DiskInv, DiskTypeOK
<1>2. pc(d) = "signed" => job[d].renter \in Renters
    BY DEF DiskInv, JobsCarry, Carries, NegotiatePC
<1>3. pc(d) \in StorePC => Owner[job[d].block] \in Renters
    BY ProviderAssumption DEF DiskInv, JobsCarry, Carries
<1>4. "signed" \notin StorePC
    BY DEF StorePC
<1>5. QED
    BY <1>1, <1>2, <1>3, <1>4 DEF Signed, pc

\* LedgerInv is inductive: a store passes its check only for a renter in
\* provider.renters, who is there only after its contract row was inserted.
LEMMA LedgerInvStep == LedgerInv /\ [Next]_vars => LedgerInv'
<1> SUFFICES ASSUME LedgerInv, [Next]_vars
             PROVE  LedgerInv'
    OBVIOUS
<1> USE DEF disk, memory, config, meta
<1>0. DiskInv /\ DiskInv' /\ JobType
    BY DiskInvStep DEF LedgerInv, DiskInv, DiskTypeOK, JobType
<1>a. \A r \in Renters : ledger'[r] >= ledger[r] /\ ledger[r] \in Nat /\ ledger'[r] \in Nat
    BY <1>0, LedgerGrows DEF DiskInv, DiskTypeOK
<1>b. ASSUME known' = known
      PROVE  \A r \in known' : ledger'[r] > 0
    BY <1>0, <1>a, <1>b DEF LedgerInv, ContractFirst, DiskInv, DiskTypeOK
<1>c. ASSUME \A b \in Blocks : rows'[b] > 0 => rows[b] > 0
      PROVE  NoOrphanRows'
    BY <1>a, <1>c, ProviderAssumption DEF LedgerInv, NoOrphanRows
<1>d. \A d \in Clients : Same(d) => Signed(d)'
    BY <1>0, SignedStays DEF LedgerInv, ContractFirst, Same
<1>e. \A d \in Clients : job'[d] = Idle => Signed(d)'
    BY DEF Signed, Idle, pc, StorePC
<1>f. rows \in [Blocks -> Nat]
    BY <1>0 DEF DiskInv, DiskTypeOK
<1>1. ASSUME NEW c \in Clients, NEW b \in Blocks, StoreCheck(c, b)
      PROVE  LedgerInv'
  <2>a. Size[b] \in Nat /\ StartBlockJob(c, b, "checked", Size[b])
    BY <1>1, ProviderAssumption DEF StoreCheck
  <2>l. "checked" \in Labels
    BY DEF Labels, StorePC
  <2>s. /\ job'[c] = [pc |-> "checked", block |-> b, renter |-> Owner[b],
                      amount |-> Size[b], alone |-> InFlight(b) = {}]
        /\ \A d \in Clients \ {c} : Disturbed(d, b)
    BY <1>0, <2>a, <2>l, StartJob
  <2>c. /\ job'[c].pc = "checked" /\ job'[c].block = b
        /\ \A d \in Clients \ {c} : Disturbed(d, b)
    BY <2>s
  <2>d. \A d \in Clients \ {c} : Signed(d)'
    BY <1>0, <2>c, SignedStays DEF Disturbed, LedgerInv, ContractFirst
  <2>e. Signed(c)'
    BY <1>0, <1>1, <2>c DEF StoreCheck, Signed, pc, LedgerInv, ContractFirst
  <2>1. \A d \in Clients : Signed(d)'
    BY <2>d, <2>e
  <2>9. QED
    BY <1>0, <1>b, <1>c, <1>f, <1>1, <2>1 DEF StoreCheck, LedgerInv, ContractFirst
<1>2. ASSUME NEW c \in Clients, StoreCreate(c)
      PROVE  LedgerInv'
  <2>1. \A d \in Clients : Signed(d)'
    <3>1. CASE Goto(c, "copying")
      <4>1. "copying" \in Labels
        BY DEF Labels, StorePC
      <4>2. SameRequest(c) /\ job'[c].pc = "copying" /\ \A d \in Clients \ {c} : Same(d)
        BY <1>0, <3>1, <4>1, GotoJob
      <4>3. pc(c) \in StorePC /\ "copying" \in StorePC
        BY <1>2 DEF StoreCreate, At, pc, StorePC
      <4>4. Signed(c)'
        BY <1>0, <4>2, <4>3, SignedStays DEF SameRequest, LedgerInv, ContractFirst
      <4>5. QED
        BY <1>d, <4>2, <4>4
    <3>2. CASE Return(c)
      BY <1>0, <1>d, <1>e, <3>2, ReturnJob
    <3>3. QED
      BY <1>2, <3>1, <3>2 DEF StoreCreate
  <2>9. QED
    BY <1>0, <1>b, <1>c, <1>f, <1>2, <2>1 DEF StoreCreate, LedgerInv, ContractFirst
<1>3. ASSUME NEW c \in Clients, StoreCopy(c)
      PROVE  LedgerInv'
  <2>1. \A d \in Clients : Signed(d)'
    <3>1. CASE Goto(c, "copied")
      <4>1. "copied" \in Labels
        BY DEF Labels, StorePC
      <4>2. SameRequest(c) /\ job'[c].pc = "copied" /\ \A d \in Clients \ {c} : Same(d)
        BY <1>0, <3>1, <4>1, GotoJob
      <4>3. pc(c) \in StorePC /\ "copied" \in StorePC
        BY <1>3 DEF StoreCopy, At, pc, StorePC
      <4>4. Signed(c)'
        BY <1>0, <4>2, <4>3, SignedStays DEF SameRequest, LedgerInv, ContractFirst
      <4>5. QED
        BY <1>d, <4>2, <4>4
    <3>2. CASE Return(c)
      BY <1>0, <1>d, <1>e, <3>2, ReturnJob
    <3>3. QED
      BY <1>3, <3>1, <3>2 DEF StoreCopy
  <2>9. QED
    BY <1>0, <1>b, <1>c, <1>f, <1>3, <2>1 DEF StoreCopy, LedgerInv, ContractFirst
<1>4. ASSUME NEW c \in Clients, InsertBlock(c)
      PROVE  LedgerInv'
  <2>1. \A d \in Clients : Signed(d)'
    <3>1. CASE Goto(c, "inserted")
      <4>1. "inserted" \in Labels
        BY DEF Labels, StorePC
      <4>2. SameRequest(c) /\ job'[c].pc = "inserted" /\ \A d \in Clients \ {c} : Same(d)
        BY <1>0, <3>1, <4>1, GotoJob
      <4>3. pc(c) \in StorePC /\ "inserted" \in StorePC
        BY <1>4 DEF InsertBlock, At, pc, StorePC
      <4>4. Signed(c)'
        BY <1>0, <4>2, <4>3, SignedStays DEF SameRequest, LedgerInv, ContractFirst
      <4>5. QED
        BY <1>d, <4>2, <4>4
    <3>2. CASE Return(c)
      BY <1>0, <1>d, <1>e, <3>2, ReturnJob
    <3>3. QED
      BY <1>4, <3>1, <3>2 DEF InsertBlock
  <2>2. NoOrphanRows'
    <3>1. job[c].block \in Blocks /\ ledger[Owner[job[c].block]] > 0
      BY <1>0, <1>4 DEF InsertBlock, At, DiskInv, JobsCarry, Carries, pc, StorePC,
         LedgerInv, ContractFirst, Signed
    <3>2. \A b \in Blocks : rows'[b] > 0 => rows[b] > 0 \/ b = job[c].block
      BY <1>f, <1>4 DEF InsertBlock
    <3>3. QED
      BY <1>a, <3>1, <3>2, ProviderAssumption DEF LedgerInv, NoOrphanRows
  <2>9. QED
    BY <1>0, <1>b, <1>4, <2>1, <2>2 DEF InsertBlock, LedgerInv, ContractFirst
<1>5. ASSUME NEW c \in Clients, StoreCount(c)
      PROVE  LedgerInv'
  <2>1. \A d \in Clients : Signed(d)'
    BY <1>0, <1>d, <1>e, <1>5, ReturnJob DEF StoreCount, Acknowledge
  <2>9. QED
    BY <1>0, <1>b, <1>c, <1>f, <1>5, <2>1 DEF StoreCount, Acknowledge, LedgerInv, ContractFirst
<1>6. ASSUME NEW c \in Clients, NEW b \in Blocks, DeleteStat(c, b)
      PROVE  LedgerInv'
  <2>a. PICK n \in 0..Size[b] : StartBlockJob(c, b, "statted", n)
    BY <1>6, ProviderAssumption DEF DeleteStat
  <2>b. n \in Nat
    BY <2>a, ProviderAssumption
  <2>l. "statted" \in Labels
    BY DEF Labels, DeletePC
  <2>s. /\ job'[c] = [pc |-> "statted", block |-> b, renter |-> Owner[b],
                      amount |-> n, alone |-> InFlight(b) = {}]
        /\ \A d \in Clients \ {c} : Disturbed(d, b)
    BY <1>0, <2>a, <2>b, <2>l, StartJob
  <2>c. /\ job'[c].pc = "statted" /\ job'[c].block = b
        /\ \A d \in Clients \ {c} : Disturbed(d, b)
    BY <2>s
  <2>d. \A d \in Clients \ {c} : Signed(d)'
    BY <1>0, <2>c, SignedStays DEF Disturbed, LedgerInv, ContractFirst
  <2>e. Signed(c)'
    BY <2>c DEF Signed, pc, StorePC
  <2>1. \A d \in Clients : Signed(d)'
    BY <2>d, <2>e
  <2>9. QED
    BY <1>0, <1>b, <1>c, <1>f, <1>6, <2>1 DEF DeleteStat, LedgerInv, ContractFirst
<1>7. ASSUME NEW c \in Clients, DeleteRemove(c)
      PROVE  LedgerInv'
  <2>1. \A d \in Clients : Signed(d)'
    <3>1. CASE Goto(c, "removed")
      <4>1. "removed" \in Labels
        BY DEF Labels, DeletePC
      <4>2. SameRequest(c) /\ job'[c].pc = "removed" /\ \A d \in Clients \ {c} : Same(d)
        BY <1>0, <3>1, <4>1, GotoJob
      <4>3. "removed" \notin StorePC \cup {"signed"}
        BY DEF StorePC
      <4>4. Signed(c)'
        BY <1>0, <4>2, <4>3, SignedStays DEF SameRequest, LedgerInv, ContractFirst
      <4>5. QED
        BY <1>d, <4>2, <4>4
    <3>2. CASE Return(c)
      BY <1>0, <1>d, <1>e, <3>2, ReturnJob
    <3>3. QED
      BY <1>7, <3>1, <3>2 DEF DeleteRemove
  <2>9. QED
    BY <1>0, <1>b, <1>c, <1>f, <1>7, <2>1 DEF DeleteRemove, LedgerInv, ContractFirst
<1>8. ASSUME NEW c \in Clients, DeleteBlockById(c)
      PROVE  LedgerInv'
  <2>1. \A d \in Clients : Signed(d)'
    <3>1. CASE Goto(c, "unlisted")
      <4>1. "unlisted" \in Labels
        BY DEF Labels, DeletePC
      <4>2. SameRequest(c) /\ job'[c].pc = "unlisted" /\ \A d \in Clients \ {c} : Same(d)
        BY <1>0, <3>1, <4>1, GotoJob
      <4>3. "unlisted" \notin StorePC \cup {"signed"}
        BY DEF StorePC
      <4>4. Signed(c)'
        BY <1>0, <4>2, <4>3, SignedStays DEF SameRequest, LedgerInv, ContractFirst
      <4>5. QED
        BY <1>d, <4>2, <4>4
    <3>2. CASE Return(c)
      BY <1>0, <1>d, <1>e, <3>2, ReturnJob
    <3>3. QED
      BY <1>8, <3>1, <3>2 DEF DeleteBlockById
  <2>9. QED
    BY <1>0, <1>b, <1>c, <1>f, <1>8, <2>1 DEF DeleteBlockById, LedgerInv, ContractFirst
<1>9. ASSUME NEW c \in Clients, DeleteCount(c)
      PROVE  LedgerInv'
  <2>1. \A d \in Clients : Signed(d)'
    BY <1>0, <1>d, <1>e, <1>9, ReturnJob DEF DeleteCount, Acknowledge
  <2>9. QED
    BY <1>0, <1>b, <1>c, <1>f, <1>9, <2>1 DEF DeleteCount, Acknowledge, LedgerInv, ContractFirst
<1>10. ASSUME NEW c \in Clients, NEW r \in Renters, NEW space \in Spaces,
            NegotiateCheck(c, r, space)
      PROVE  LedgerInv'
  <2>s. job'[c] = [pc |-> "agreed", block |-> NoBlock, renter |-> r,
                   amount |-> space, alone |-> FALSE]
    BY <1>0, <1>10, AgreeJob
  <2>a. Signed(c)'
    BY <2>s DEF Signed, pc, StorePC
  <2>1. \A d \in Clients : Signed(d)'
    BY <1>0, <1>d, <1>10, <2>a, AgreeJob
  <2>9. QED
    BY <1>0, <1>b, <1>c, <1>f, <1>10, <2>1 DEF NegotiateCheck, LedgerInv, ContractFirst
<1>11. ASSUME NEW c \in Clients, InsertContract(c)
      PROVE  LedgerInv'
  <2>1. \A d \in Clients : Signed(d)'
    <3>1. CASE Goto(c, "signed") /\ ledger' = [ledger EXCEPT ![job[c].renter] = @ + job[c].amount]
      <4>1. "signed" \in Labels
        BY DEF Labels, NegotiatePC
      <4>2. SameRequest(c) /\ job'[c].pc = "signed" /\ \A d \in Clients \ {c} : Same(d)
        BY <1>0, <3>1, <4>1, GotoJob
      <4>3. job[c].renter \in Renters /\ job[c].amount > 0 /\ job[c].amount \in Nat
        BY <1>0, <1>11 DEF InsertContract, At, DiskInv, DiskTypeOK, Job, JobsCarry, Carries, pc, NegotiatePC
      <4>4. Signed(c)'
        BY <1>0, <1>a, <3>1, <4>2, <4>3 DEF SameRequest, Signed, pc, StorePC, DiskInv, DiskTypeOK
      <4>5. QED
        BY <1>d, <4>2, <4>4
    <3>2. CASE Return(c)
      BY <1>0, <1>d, <1>e, <3>2, ReturnJob
    <3>3. QED
      BY <1>11, <3>1, <3>2 DEF InsertContract
  <2>9. QED
    BY <1>0, <1>b, <1>c, <1>f, <1>11, <2>1 DEF InsertContract, LedgerInv, ContractFirst
<1>12. ASSUME NEW c \in Clients, NegotiateCount(c)
      PROVE  LedgerInv'
  <2>a. "counted" \in Labels
    BY DEF Labels, NegotiatePC
  <2>b. SameRequest(c) /\ job'[c].pc = "counted" /\ \A d \in Clients \ {c} : Same(d)
    BY <1>0, <1>12, <2>a, GotoJob DEF NegotiateCount
  <2>1. \A d \in Clients : Signed(d)'
    BY <1>d, <2>b DEF Signed, pc, StorePC
  <2>2. job[c].renter \in Renters /\ ledger[job[c].renter] > 0
    BY <1>0, <1>12 DEF NegotiateCount, At, DiskInv, JobsCarry, Carries, pc, NegotiatePC,
       LedgerInv, ContractFirst, Signed
  <2>3. \A r \in known' : ledger'[r] > 0
    BY <1>12, <2>2 DEF NegotiateCount, LedgerInv, ContractFirst
  <2>9. QED
    BY <1>0, <1>c, <1>12, <2>1, <2>3 DEF NegotiateCount, LedgerInv, ContractFirst
<1>13. ASSUME NEW c \in Clients, Aside(c)
      PROVE  LedgerInv'
  <2>1. Unseen /\ job'[c].pc \in OffPC /\ \A d \in Clients \ {c} : Same(d)
    BY <1>0, <1>13, AsideMoves
  <2>2. "signed" \notin OffPC /\ OffPC \cap StorePC = {}
    BY DEF OffPC, ConfigPC, StorePC
  <2>3. \A d \in Clients : Signed(d)'
    BY <1>d, <2>1, <2>2 DEF Signed, pc
  <2>9. QED
    BY <1>0, <1>b, <1>c, <1>f, <2>1, <2>3 DEF Unseen, LedgerInv, ContractFirst
<1>15. CASE Restart
  <2>1. \A d \in Clients : Signed(d)'
    BY <1>e, <1>15 DEF Restart
  <2>2. \A r \in known' : ledger'[r] > 0
    BY <1>15 DEF Restart
  <2>9. QED
    BY <1>0, <1>c, <1>15, <2>1, <2>2 DEF Restart, LedgerInv, ContractFirst
<1>16. CASE UNCHANGED vars
  <2>1. \A d \in Clients : Signed(d)'
    BY <1>d, <1>16 DEF vars, Same
  <2>9. QED
    BY <1>0, <1>b, <1>c, <1>16, <2>1 DEF vars, LedgerInv, ContractFirst
<1>17. QED
    BY <1>1, <1>2, <1>3, <1>4, <1>5, <1>6, <1>7, <1>8, <1>9, <1>10, <1>11,
       <1>12, <1>13, <1>15, <1>16
       DEF Next, StoreBlock, DeleteBlock, NegotiateContract, Aside

\* The case loadInfoFromDB gives up on, a block row without a contract of its
\* renter, never occurs, for any interleaving of handlers and any crashes.
THEOREM OrphanFree == Spec => []NoOrphanRows
<1>1. Init => LedgerInv
  <2>1. Init => DiskInv
    BY IdleJob DEF Init, DiskInv, DiskTypeOK, FileState, JobsCarry, Carries,
       Idle, pc, StorePC, DeletePC, NegotiatePC
  <2>2. QED
    BY <2>1 DEF Init, LedgerInv, ContractFirst, Signed, NoOrphanRows, Idle, pc, StorePC
<1>2. LedgerInv => NoOrphanRows
    BY DEF LedgerInv
<1>3. QED
    BY <1>1, <1>2, LedgerInvStep, PTL DEF Spec

-----------------------------------------------------------------------------
(***************************************************************************)
(* The outcome of an undisturbed request stays true.  A step of a handler  *)
(* that works on block b touches only b: DiskElsewhere.                    *)
(***************************************************************************)
DiskElsewhere(b) ==
    \A x \in Blocks \ {b} : file'[x] = file[x] /\ rows'[x] = rows[x]

\* A step of a handler on its own block, that leaves the other blocks alone,
\* keeps the promises if the block is left as the handler's label says.
LEMMA WorkStep ==
    ASSUME PromiseInv, DiskInv', NEW c \in Clients, job[c].block \in Blocks,
           DiskElsewhere(job[c].block),
           \A d \in Clients \ {c} : Same(d),
           job'[c] = Idle \/ SameRequest(c),
           Holds(c)',
           \/ promise' = promise
           \/ /\ job'[c] = Idle /\ job[c].alone
              /\ \E outcome \in {"stored", "gone"} :
                    /\ promise' = [promise EXCEPT ![job[c].block] = outcome]
                    /\ \A b \in Blocks : b = job[c].block => Left(b, outcome)'
    PROVE  PromiseInv'
<1> DEFINE B == job[c].block
<1>0. /\ promise \in [Blocks -> {"none", "stored", "gone"}]
      /\ promise[B] = "none"
      /\ NoBlock \notin Blocks /\ Idle.block = NoBlock /\ ~Idle.alone
      /\ \A d \in Clients : pc(d) \in StorePC \cup DeletePC => job[d].block \in Blocks
    BY ProviderAssumption DEF PromiseInv, DiskInv, DiskTypeOK, JobsCarry, Carries,
       Undisturbed, Unclaimed, Idle
<1>1. \A d \in Clients \ {c} : Holds(d)'
  <2> SUFFICES ASSUME NEW d \in Clients \ {c}, job[d].alone, job[d].block \in Blocks
               PROVE  Holds(d)'
    BY <1>0 DEF Holds, Same, pc, StorePC, DeletePC
  <2>1. job[d].block # B
    BY DEF PromiseInv, Undisturbed, Apart
  <2>2. Holds(d)
    BY DEF PromiseInv, Undisturbed
  <2>3. QED
    BY <2>1, <2>2 DEF Holds, Same, pc, DiskElsewhere
<1>2. \A d \in Clients, e \in Clients : Apart(d, e)'
  <2> SUFFICES ASSUME NEW d \in Clients, NEW e \in Clients, d # e,
                      job'[d].alone, job'[d].block \in Blocks
               PROVE  job'[e].block # job'[d].block
    BY DEF Apart
  <2>1. job[d].alone /\ job[d].block = job'[d].block
    BY <1>0 DEF Same, SameRequest
  <2>2. job[e].block # job[d].block
    BY <2>1 DEF PromiseInv, Undisturbed, Apart
  <2>3. job'[e].block = job[e].block \/ job'[e].block = NoBlock
    BY <1>0 DEF Same, SameRequest
  <2>4. QED
    BY <1>0, <2>1, <2>2, <2>3
<1>3. \A d \in Clients, b \in Blocks : Unclaimed(d, b)'
  <2> SUFFICES ASSUME NEW d \in Clients, NEW b \in Blocks, promise'[b] # "none"
               PROVE  job'[d].block # b
    BY DEF Unclaimed
  <2>1. job'[d].block = job[d].block \/ job'[d].block = NoBlock
    BY <1>0 DEF Same, SameRequest
  <2>2. CASE promise[b] # "none"
    BY <1>0, <2>1, <2>2 DEF PromiseInv, Undisturbed, Unclaimed
  <2>3. CASE promise[b] = "none"
    <3>1. b = B /\ job[c].alone /\ job'[c] = Idle
      BY <1>0, <2>3
    <3>2. d # c => job[d].block # B
      BY <3>1 DEF PromiseInv, Undisturbed, Apart
    <3>3. QED
      BY <1>0, <2>1, <3>1, <3>2
  <2>4. QED
    BY <2>2, <2>3
<1>4. PromiseKept'
  <2> SUFFICES ASSUME NEW b \in Blocks
               PROVE  Left(b, promise[b])'
    BY DEF PromiseKept, Left
  <2>1. CASE b # B
    BY <1>0, <2>1 DEF DiskElsewhere, PromiseInv, PromiseKept, Left
  <2>2. CASE b = B
    <3>1. CASE promise' = promise
      BY <1>0, <2>2, <3>1 DEF Left
    <3>2. CASE promise' # promise
      <4>1. PICK outcome \in {"stored", "gone"} :
                 /\ promise' = [promise EXCEPT ![B] = outcome]
                 /\ \A x \in Blocks : x = B => Left(x, outcome)'
        BY <3>2
      <4>2. promise'[b] = outcome /\ Left(b, outcome)'
        BY <1>0, <2>2, <4>1
      <4>3. QED
        BY <4>2 DEF Left
    <3>3. QED
      BY <3>1, <3>2
  <2>3. QED
    BY <2>1, <2>2
<1>5. QED
    BY <1>1, <1>2, <1>3, <1>4 DEF PromiseInv, Undisturbed

\* A step of a negotiation, of a handler that holds no block.
LEMMA QuietStep ==
    ASSUME PromiseInv, DiskInv', NEW c \in Clients,
           \A d \in Clients \ {c} : Same(d),
           job'[c].block = NoBlock,
           UNCHANGED <<file, rows, promise>>
    PROVE  PromiseInv'
<1>0. NoBlock \notin Blocks /\ pc(c)' \notin StorePC \cup DeletePC
    BY ProviderAssumption DEF DiskInv, JobsCarry, Carries
<1>1. \A d \in Clients : Holds(d)'
    BY <1>0 DEF PromiseInv, Undisturbed, Holds, Same, pc, StorePC, DeletePC
<1>2. \A d \in Clients, e \in Clients : Apart(d, e)'
    BY <1>0 DEF PromiseInv, Undisturbed, Apart, Same
<1>3. \A d \in Clients, b \in Blocks : Unclaimed(d, b)'
    BY <1>0 DEF PromiseInv, Undisturbed, Unclaimed, Same
<1>4. QED
    BY <1>1, <1>2, <1>3 DEF PromiseInv, Undisturbed, PromiseKept

\* A request for block b begins: no other request for b is undisturbed now.
LEMMA StartStep ==
    ASSUME PromiseInv, DiskInv', NEW c \in Clients, NEW b \in Blocks,
           NEW label \in {"checked", "statted"}, NEW n \in Nat, pc(c) = "idle",
           StartBlockJob(c, b, label, n), UNCHANGED <<file, rows>>
    PROVE  PromiseInv'
<1>1. label \in Labels /\ JobType
    BY DEF Labels, StorePC, DeletePC, PromiseInv, DiskInv, DiskTypeOK, JobType
<1>2. /\ job'[c] = [pc |-> label, block |-> b, renter |-> Owner[b],
                    amount |-> n, alone |-> InFlight(b) = {}]
      /\ promise' = [promise EXCEPT ![b] = "none"]
    BY <1>1, StartJob
<1>3. \A d \in Clients \ {c} : Disturbed(d, b)
    BY <1>1, StartJob
<1>4. \A d \in Clients : Holds(d)'
    BY <1>2, <1>3 DEF PromiseInv, Undisturbed, Holds, Disturbed, pc
<1>5. \A d \in Clients, e \in Clients : Apart(d, e)'
  <2> SUFFICES ASSUME NEW d \in Clients, NEW e \in Clients, d # e,
                      job'[d].alone, job'[d].block \in Blocks
               PROVE  job'[e].block # job'[d].block
    BY DEF Apart
  <2>1. CASE d = c
    <3>a. job'[c].block = b /\ job'[c].alone = (InFlight(b) = {})
      BY <1>2
    <3>b. job'[c].alone
      BY <2>1
    <3>1. job'[d].block = b /\ InFlight(b) = {}
      BY <2>1, <3>a, <3>b, Zenon
    <3>2. job[e].block # b
      BY <3>1 DEF InFlight
    <3>3. job'[e].block = job[e].block
      BY <1>3, <2>1 DEF Disturbed
    <3>4. QED
      BY <3>1, <3>2, <3>3
  <2>2. CASE d # c
    BY <1>2, <1>3, <2>2 DEF Disturbed, PromiseInv, Undisturbed, Apart
  <2>3. QED
    BY <2>1, <2>2
<1>6. \A d \in Clients, x \in Blocks : Unclaimed(d, x)'
  <2> SUFFICES ASSUME NEW d \in Clients, NEW x \in Blocks, promise'[x] # "none"
               PROVE  job'[d].block # x
    BY DEF Unclaimed
  <2>1. promise \in [Blocks -> {"none", "stored", "gone"}]
    BY DEF PromiseInv, DiskInv, DiskTypeOK
  <2>2. x # b /\ promise[x] # "none"
    BY <1>2, <2>1
  <2>3. QED
    BY <1>2, <1>3, <2>2 DEF Disturbed, PromiseInv, Undisturbed, Unclaimed
<1>7. PromiseKept'
  <2>1. promise \in [Blocks -> {"none", "stored", "gone"}]
    BY DEF PromiseInv, DiskInv, DiskTypeOK
  <2>2. QED
    BY <1>2, <2>1 DEF PromiseInv, PromiseKept
<1>8. QED
    BY <1>4, <1>5, <1>6, <1>7 DEF PromiseInv, Undisturbed

\* PromiseInv is inductive: a request that may touch b ends the promise about
\* b when it starts, so no other step can break it.
LEMMA PromiseInvStep == PromiseInv /\ [Next]_vars => PromiseInv'
<1> SUFFICES ASSUME PromiseInv, [Next]_vars
             PROVE  PromiseInv'
    OBVIOUS
<1> USE DEF disk, memory, config, meta
<1>0. DiskInv /\ DiskInv' /\ JobType
    BY DiskInvStep DEF PromiseInv, DiskInv, DiskTypeOK, JobType
<1>t. file \in [Blocks -> FileState] /\ rows \in [Blocks -> Nat]
    BY <1>0 DEF DiskInv, DiskTypeOK
<1>h. \A d \in Clients : Holds(d)
    BY DEF PromiseInv, Undisturbed
<1>i. \A d \in Clients : job'[d] = Idle => Holds(d)'
    BY DEF Holds, Idle
<1>1. ASSUME NEW c \in Clients, NEW b \in Blocks, StoreCheck(c, b)
      PROVE  PromiseInv'
  <2>1. Size[b] \in Nat /\ pc(c) = "idle"
    BY <1>1, ProviderAssumption DEF StoreCheck, At, pc
  <2>2. StartBlockJob(c, b, "checked", Size[b]) /\ UNCHANGED <<file, rows>>
    BY <1>1 DEF StoreCheck
  <2>3. QED
    BY <1>0, <2>1, <2>2, StartStep
<1>2. ASSUME NEW c \in Clients, StoreCreate(c)
      PROVE  PromiseInv'
  <2>1. /\ job[c].block \in Blocks /\ pc(c) \in StorePC
        /\ DiskElsewhere(job[c].block) /\ promise' = promise
    BY <1>0, <1>t, <1>2 DEF StoreCreate, At, pc, StorePC, DiskInv, JobsCarry, Carries, DiskElsewhere
  <2>2. CASE Goto(c, "copying")
    <3>1. "copying" \in Labels
      BY DEF Labels, StorePC
    <3>2. /\ job'[c].pc = "copying" /\ SameRequest(c)
          /\ \A d \in Clients \ {c} : Same(d)
      BY <1>0, <2>2, <3>1, GotoJob
    <3>3. ~Return(c)
      BY <1>0, <3>2, ReturnJob DEF Idle
    <3>4. Holds(c) /\ Holds(c)'
      BY <1>t, <1>h, <1>2, <2>1, <3>2, <3>3 DEF StoreCreate, At, Holds, pc, SameRequest
    <3>5. QED
      BY <1>0, <2>1, <3>2, <3>4, WorkStep
  <2>3. CASE Return(c)
    BY <1>0, <1>i, <2>1, <2>3, ReturnJob, WorkStep
  <2>4. QED
    BY <1>2, <2>2, <2>3 DEF StoreCreate
<1>3. ASSUME NEW c \in Clients, StoreCopy(c)
      PROVE  PromiseInv'
  <2>1. /\ job[c].block \in Blocks /\ pc(c) \in StorePC
        /\ DiskElsewhere(job[c].block) /\ promise' = promise
    BY <1>0, <1>t, <1>3 DEF StoreCopy, At, pc, StorePC, DiskInv, JobsCarry, Carries, DiskElsewhere
  <2>2. CASE Goto(c, "copied")
    <3>1. "copied" \in Labels
      BY DEF Labels, StorePC
    <3>2. /\ job'[c].pc = "copied" /\ SameRequest(c)
          /\ \A d \in Clients \ {c} : Same(d)
      BY <1>0, <2>2, <3>1, GotoJob
    <3>3. ~Return(c)
      BY <1>0, <3>2, ReturnJob DEF Idle
    <3>4. Holds(c) /\ Holds(c)'
      BY <1>t, <1>h, <1>3, <2>1, <3>2, <3>3 DEF StoreCopy, At, Holds, pc, SameRequest
    <3>5. QED
      BY <1>0, <2>1, <3>2, <3>4, WorkStep
  <2>3. CASE Return(c)
    BY <1>0, <1>i, <2>1, <2>3, ReturnJob, WorkStep
  <2>4. QED
    BY <1>3, <2>2, <2>3 DEF StoreCopy
<1>4. ASSUME NEW c \in Clients, InsertBlock(c)
      PROVE  PromiseInv'
  <2>1. /\ job[c].block \in Blocks /\ pc(c) \in StorePC
        /\ DiskElsewhere(job[c].block) /\ promise' = promise
    BY <1>0, <1>t, <1>4 DEF InsertBlock, At, pc, StorePC, DiskInv, JobsCarry, Carries, DiskElsewhere
  <2>2. CASE Goto(c, "inserted")
    <3>1. "inserted" \in Labels
      BY DEF Labels, StorePC
    <3>2. /\ job'[c].pc = "inserted" /\ SameRequest(c)
          /\ \A d \in Clients \ {c} : Same(d)
      BY <1>0, <2>2, <3>1, GotoJob
    <3>3. ~Return(c)
      BY <1>0, <3>2, ReturnJob DEF Idle
    <3>4. Holds(c) /\ Holds(c)'
      BY <1>t, <1>h, <1>4, <2>1, <3>2, <3>3 DEF InsertBlock, At, Holds, pc, SameRequest
    <3>5. QED
      BY <1>0, <2>1, <3>2, <3>4, WorkStep
  <2>3. CASE Return(c)
    BY <1>0, <1>i, <2>1, <2>3, ReturnJob, WorkStep
  <2>4. QED
    BY <1>4, <2>2, <2>3 DEF InsertBlock
<1>5. ASSUME NEW c \in Clients, StoreCount(c)
      PROVE  PromiseInv'
  <2>1. /\ job[c].block \in Blocks /\ pc(c) = "inserted"
        /\ UNCHANGED <<file, rows>>
    BY <1>0, <1>5 DEF StoreCount, At, pc, StorePC, DiskInv, JobsCarry, Carries
  <2>2. job'[c] = Idle /\ \A d \in Clients \ {c} : Same(d)
    BY <1>0, <1>5, ReturnJob DEF StoreCount, Acknowledge
  <2>3. \/ promise' = promise
        \/ /\ job[c].alone
           /\ promise' = [promise EXCEPT ![job[c].block] = "stored"]
           /\ \A b \in Blocks : b = job[c].block => Left(b, "stored")'
    <3>1. CASE job[c].alone
      BY <1>h, <1>5, <2>1, <3>1 DEF StoreCount, Acknowledge, Holds, Left
    <3>2. CASE ~job[c].alone
      BY <1>5, <3>2 DEF StoreCount, Acknowledge
    <3>3. QED
      BY <3>1, <3>2
  <2>4. DiskElsewhere(job[c].block) /\ Holds(c)'
    BY <1>i, <2>1, <2>2 DEF DiskElsewhere
  <2>5. QED
    BY <1>0, <2>1, <2>2, <2>3, <2>4, WorkStep
<1>6. ASSUME NEW c \in Clients, NEW b \in Blocks, DeleteStat(c, b)
      PROVE  PromiseInv'
  <2>1. PICK n \in 0..Size[b] : StartBlockJob(c, b, "statted", n)
    BY <1>6 DEF DeleteStat
  <2>2. n \in Nat /\ pc(c) = "idle" /\ UNCHANGED <<file, rows>>
    BY <1>6, ProviderAssumption DEF DeleteStat, At, pc
  <2>3. QED
    BY <1>0, <2>1, <2>2, StartStep
<1>7. ASSUME NEW c \in Clients, DeleteRemove(c)
      PROVE  PromiseInv'
  <2>1. /\ job[c].block \in Blocks /\ pc(c) \in DeletePC
        /\ DiskElsewhere(job[c].block) /\ promise' = promise
    BY <1>0, <1>t, <1>7 DEF DeleteRemove, At, pc, DeletePC, DiskInv, JobsCarry, Carries, DiskElsewhere
  <2>2. CASE Goto(c, "removed")
    <3>1. "removed" \in Labels
      BY DEF Labels, DeletePC
    <3>2. /\ job'[c].pc = "removed" /\ SameRequest(c)
          /\ \A d \in Clients \ {c} : Same(d)
      BY <1>0, <2>2, <3>1, GotoJob
    <3>3. ~Return(c)
      BY <1>0, <3>2, ReturnJob DEF Idle
    <3>4. Holds(c) /\ Holds(c)'
      BY <1>t, <1>h, <1>7, <2>1, <3>2, <3>3 DEF DeleteRemove, At, Holds, pc, SameRequest
    <3>5. QED
      BY <1>0, <2>1, <3>2, <3>4, WorkStep
  <2>3. CASE Return(c)
    BY <1>0, <1>i, <2>1, <2>3, ReturnJob, WorkStep
  <2>4. QED
    BY <1>7, <2>2, <2>3 DEF DeleteRemove
<1>8. ASSUME NEW c \in Clients, DeleteBlockById(c)
      PROVE  PromiseInv'
  <2>1. /\ job[c].block \in Blocks /\ pc(c) \in DeletePC
        /\ DiskElsewhere(job[c].block) /\ promise' = promise
    BY <1>0, <1>t, <1>8 DEF DeleteBlockById, At, pc, DeletePC, DiskInv, JobsCarry, Carries, DiskElsewhere
  <2>2. CASE Goto(c, "unlisted")
    <3>1. "unlisted" \in Labels
      BY DEF Labels, DeletePC
    <3>2. /\ job'[c].pc = "unlisted" /\ SameRequest(c)
          /\ \A d \in Clients \ {c} : Same(d)
      BY <1>0, <2>2, <3>1, GotoJob
    <3>3. ~Return(c)
      BY <1>0, <3>2, ReturnJob DEF Idle
    <3>4. Holds(c) /\ Holds(c)'
      BY <1>t, <1>h, <1>8, <2>1, <3>2, <3>3 DEF DeleteBlockById, At, Holds, pc, SameRequest
    <3>5. QED
      BY <1>0, <2>1, <3>2, <3>4, WorkStep
  <2>3. CASE Return(c)
    BY <1>0, <1>i, <2>1, <2>3, ReturnJob, WorkStep
  <2>4. QED
    BY <1>8, <2>2, <2>3 DEF DeleteBlockById
<1>9. ASSUME NEW c \in Clients, DeleteCount(c)
      PROVE  PromiseInv'
  <2>1. /\ job[c].block \in Blocks /\ pc(c) = "unlisted"
        /\ UNCHANGED <<file, rows>>
    BY <1>0, <1>9 DEF DeleteCount, At, pc, DeletePC, DiskInv, JobsCarry, Carries
  <2>2. job'[c] = Idle /\ \A d \in Clients \ {c} : Same(d)
    BY <1>0, <1>9, ReturnJob DEF DeleteCount, Acknowledge
  <2>3. \/ promise' = promise
        \/ /\ job[c].alone
           /\ promise' = [promise EXCEPT ![job[c].block] = "gone"]
           /\ \A b \in Blocks : b = job[c].block => Left(b, "gone")'
    <3>1. CASE job[c].alone
      BY <1>h, <1>9, <2>1, <3>1 DEF DeleteCount, Acknowledge, Holds, Left
    <3>2. CASE ~job[c].alone
      BY <1>9, <3>2 DEF DeleteCount, Acknowledge
    <3>3. QED
      BY <3>1, <3>2
  <2>4. DiskElsewhere(job[c].block) /\ Holds(c)'
    BY <1>i, <2>1, <2>2 DEF DiskElsewhere
  <2>5. QED
    BY <1>0, <2>1, <2>2, <2>3, <2>4, WorkStep
<1>10. ASSUME NEW c \in Clients, NEW r \in Renters, NEW space \in Spaces,
            NegotiateCheck(c, r, space)
      PROVE  PromiseInv'
  <2>1. job'[c] = [pc |-> "agreed", block |-> NoBlock, renter |-> r,
                   amount |-> space, alone |-> FALSE]
    BY <1>0, <1>10, AgreeJob
  <2>2. \A d \in Clients \ {c} : Same(d)
    BY <1>0, <1>10, AgreeJob
  <2>3. job'[c].block = NoBlock /\ UNCHANGED <<file, rows, promise>>
    BY <1>10, <2>1 DEF NegotiateCheck
  <2>4. QED
    BY <1>0, <2>2, <2>3, QuietStep
<1>11. ASSUME NEW c \in Clients, InsertContract(c)
      PROVE  PromiseInv'
  <2>1. job[c].block = NoBlock /\ UNCHANGED <<file, rows, promise>>
    BY <1>0, <1>11 DEF InsertContract, At, pc, DiskInv, JobsCarry, Carries, StorePC, DeletePC
  <2>2. CASE Goto(c, "signed")
    <3>1. "signed" \in Labels
      BY DEF Labels, NegotiatePC
    <3>2. SameRequest(c) /\ \A d \in Clients \ {c} : Same(d)
      BY <1>0, <2>2, <3>1, GotoJob
    <3>3. QED
      BY <1>0, <2>1, <3>2, QuietStep DEF SameRequest
  <2>3. CASE Return(c)
    BY <1>0, <2>1, <2>3, ReturnJob, QuietStep DEF Idle
  <2>4. QED
    BY <1>11, <2>2, <2>3 DEF InsertContract
<1>12. ASSUME NEW c \in Clients, NegotiateCount(c)
      PROVE  PromiseInv'
  <2>1. job[c].block = NoBlock /\ UNCHANGED <<file, rows, promise>>
    BY <1>0, <1>12 DEF NegotiateCount, At, pc, DiskInv, JobsCarry, Carries, StorePC, DeletePC
  <2>2. CASE Goto(c, "counted")
    <3>1. "counted" \in Labels
      BY DEF Labels, NegotiatePC
    <3>2. SameRequest(c) /\ \A d \in Clients \ {c} : Same(d)
      BY <1>0, <2>2, <3>1, GotoJob
    <3>3. QED
      BY <1>0, <2>1, <3>2, QuietStep DEF SameRequest
  <2>4. QED
    BY <1>12, <2>2 DEF NegotiateCount
<1>13. ASSUME NEW c \in Clients, Aside(c)
      PROVE  PromiseInv'
    BY <1>0, <1>13, AsideMoves, QuietStep DEF Unseen
<1>15. CASE Restart
  <2>1. /\ \A d \in Clients : job'[d] = Idle
        /\ NoBlock \notin Blocks /\ Idle.block = NoBlock /\ ~Idle.alone
    BY <1>15, ProviderAssumption DEF Restart, Idle
  <2>2. \A d \in Clients : Holds(d)'
    BY <1>i, <2>1
  <2>3. \A d \in Clients, e \in Clients : Apart(d, e)'
    BY <2>1 DEF Apart
  <2>4. \A d \in Clients, b \in Blocks : Unclaimed(d, b)'
    BY <2>1 DEF Unclaimed
  <2>5. /\ UNCHANGED <<rows, promise>>
        /\ \A b \in Blocks : file[b] \in {"whole", "nofile"} => file'[b] = file[b]
    BY <1>15, ProviderAssumption DEF Restart
  <2>6. PromiseKept'
    BY <2>5 DEF PromiseInv, PromiseKept
  <2>7. QED
    BY <1>0, <2>2, <2>3, <2>4, <2>6 DEF PromiseInv, Undisturbed
<1>16. CASE UNCHANGED vars
    BY <1>0, <1>16 DEF vars, PromiseInv, Undisturbed, Holds, Apart, Unclaimed, PromiseKept, pc
<1>17. QED
    BY <1>1, <1>2, <1>3, <1>4, <1>5, <1>6, <1>7, <1>8, <1>9, <1>10, <1>11,
       <1>12, <1>13, <1>15, <1>16
       DEF Next, StoreBlock, DeleteBlock, NegotiateContract, Aside

\* What an undisturbed StoreBlock or DeleteBlock returned stays true, for any
\* interleaving with requests for other blocks and any crashes.
THEOREM PromisesKept == Spec => []PromiseKept
<1>1. Init => PromiseInv
  <2>1. Init => DiskInv
    BY IdleJob DEF Init, DiskInv, DiskTypeOK, FileState, JobsCarry, Carries,
       Idle, pc, StorePC, DeletePC, NegotiatePC
  <2>2. QED
    BY <2>1 DEF Init, PromiseInv, Undisturbed, Holds, Apart, Unclaimed, PromiseKept, Idle, pc
<1>2. PromiseInv => PromiseKept
    BY DEF PromiseInv
<1>3. QED
    BY <1>1, <1>2, PromiseInvStep, PTL DEF Spec
-----------------------------------------------------------------------------
(***************************************************************************)
(* What the counters account for.  The bytes of the requests that stand    *)
(* between the database and a counter are a sum over the handlers, of      *)
(* which a step changes one term.  j stands for job or job'.               *)
(***************************************************************************)
\* The bytes c stands for at the label in a request of r.
Share(j, c, r, label) == IF j[c].renter = r /\ j[c].pc = label THEN j[c].amount ELSE 0

\* Their sum over the handlers.
Shares(j, r, label) == SumFunctionOnSet([c \in Clients |-> Share(j, c, r, label)], Clients)

\* The space of the contract c stands for at one of the labels.
Held(j, c, labels) == IF j[c].pc \in labels THEN j[c].amount ELSE 0

\* Their sum over the handlers.
Underway(j, labels) == SumFunctionOnSet([c \in Clients |-> Held(j, c, labels)], Clients)

\* The types of the counters: with DiskTypeOK, the type of the state.
CountersTypeOK ==
    /\ reserved \in [Renters -> Nat]
    /\ used \in [Renters -> Int]
    /\ totalReserved \in Nat
    /\ {spaceAvail, savedSpace, agreedSpace} \subseteq Capacities
    /\ workload \in [ids : SUBSET Blocks, updates : Nat]
    /\ snap \in [Clients -> Snapshot \cup {NoSnap}]
    /\ advertised \in Snapshot

\* One contract for each handler but the one that agreed last.
Excess == (Cardinality(Clients) - 1) * Max(Spaces)

\* The contracts table holds what is counted in total and what is about to be.
LedgerCounted ==
    SumFunctionOnSet(ledger, Renters) = totalReserved + Underway(job, {"signed"})

\* What is counted and what was agreed since fit the space that the last
\* contract was agreed for, up to the excess.
AgreedBounded ==
    totalReserved + Underway(job, {"agreed", "signed"}) > 0 =>
        totalReserved + Underway(job, {"agreed", "signed"}) <= agreedSpace + Excess

\* A contract in the making is of a size that renters ask for.
Asked == \A c \in Clients : job[c].pc \in {"agreed", "signed"} => job[c].amount \in Spaces

\* A snapshot shows no less than is free of the space it was taken for: of
\* each that is not published yet, and of the one the metaserver has.
Late(s) == s.free >= s.space - totalReserved

SnapshotsLate ==
    /\ \A c \in Clients : snap[c] # NoSnap => Late(snap[c])
    /\ Late(advertised)

\* The inductive invariant of the reservations.
ContractInv ==
    /\ DiskInv /\ CountersTypeOK /\ ReservedAccountsForContracts
    /\ LedgerCounted /\ AgreedBounded /\ Asked
    /\ SnapshotsLate

\* For a renter whose blocks are sent once and deleted once, StorageUsed is
\* the size of its rows, up to the requests that are between the database
\* and the counter: no interleaving with other requests and no crash makes
\* the counter drift.
UsedAccountsForRows ==
    \A r \in Renters :
        (\A b \in Shared : Owner[b] # r) =>
            used[r] + Pending(r, "inserted") - Pending(r, "unlisted")
                = RowBytes(r, Blocks)

(***************************************************************************)
(* A block that is not in Shared is in the hands of one handler at most,   *)
(* and what its label says of the file and of the row is true.             *)
(***************************************************************************)
Tracks(c) ==
    LET b == job[c].block
    IN  b \in Blocks \ Shared =>
            /\ pc(c) \in {"checked", "copying", "copied", "unlisted"} => rows[b] = 0
            /\ pc(c) \in {"inserted", "statted", "removed"} => rows[b] = 1
            /\ pc(c) = "copying" => file[b] = c
            /\ pc(c) \in {"copied", "inserted", "statted"} => file[b] = "whole"
            /\ job[c].amount = Size[b]

\* At most one handler works on a block that is not in Shared.
OneHandler ==
    \A c, d \in Clients :
        job[c].block \in Blocks \ Shared /\ job[d].block = job[c].block => c = d

\* A row is of a whole file, or of one that a delete unlinked and left.
RowOfFile ==
    \A b \in Blocks \ Shared :
        /\ rows[b] \in {0, 1}
        /\ rows[b] = 1 => file[b] \in {"whole", "nofile"}

\* The inductive invariant of StorageUsed.
TrackInv == (\A c \in Clients : Tracks(c)) /\ OneHandler /\ RowOfFile

UsedInv == LedgerInv /\ TrackInv /\ used \in [Renters -> Int] /\ UsedAccountsForRows

-----------------------------------------------------------------------------
(***************************************************************************)
(* How the sums change.                                                    *)
(***************************************************************************)
\* The bytes at a label are a sum over all handlers.
LEMMA PendingIsShares ==
    ASSUME NEW j \in [Clients -> Job], NEW r, NEW label
    PROVE  SumFunctionOnSet([c \in Clients |-> j[c].amount],
                            {c \in Clients : j[c].renter = r /\ j[c].pc = label})
             = Shares(j, r, label)
<1> DEFINE f == [c \in Clients |-> j[c].amount]
           g == [c \in Clients |-> Share(j, c, r, label)]
           T == {c \in Clients : j[c].renter = r /\ j[c].pc = label}
<1>1. IsFiniteSet(Clients) /\ T \subseteq Clients /\ IsFiniteSet(T) /\ IsFiniteSet(Clients \ T)
    BY ProviderAssumption, FS_Subset
<1>2. \A c \in Clients : g[c] \in Int
    BY DEF Share, Job
<1>3. \A c \in T : f[c] = g[c]
    BY DEF Share
<1>4. \A c \in Clients \ T : g[c] = 0
    BY DEF Share
<1> HIDE DEF f, g, T
<1>5. SumFunctionOnSet(f, T) = SumFunctionOnSet(g, T)
    BY <1>1, <1>3, SumAgrees
<1>6. SumFunctionOnSet(g, Clients) = SumFunctionOnSet(g, T) + SumFunctionOnSet(g, Clients \ T)
    BY <1>1, <1>2, SumSplits
<1>7. SumFunctionOnSet(g, Clients \ T) = 0
    BY <1>1, <1>4, SumOfZeros
<1>8. SumFunctionOnSet(g, T) \in Int
    BY <1>1, <1>2, SumType
<1>9. SumFunctionOnSet(g, Clients) = SumFunctionOnSet(f, T)
    BY <1>5, <1>6, <1>7, <1>8
<1> QED
    BY <1>9 DEF f, g, T, Shares

\* d stands where it stood, with the request it had, disturbed or not.
Waits(d) ==
    /\ job'[d].pc = job[d].pc
    /\ job'[d].block = job[d].block
    /\ job'[d].renter = job[d].renter
    /\ job'[d].amount = job[d].amount

OthersWait(c) == \A d \in Clients \ {c} : Waits(d)

\* When one handler moves, the bytes at a label change by its own.
LEMMA PendingMoves ==
    ASSUME JobType, JobType', NEW c \in Clients, OthersWait(c), NEW r, NEW label
    PROVE  /\ Pending(r, label)' = Pending(r, label) - Share(job, c, r, label)
                                                     + Share(job', c, r, label)
           /\ Pending(r, label) \in Nat
<1> DEFINE f == [d \in Clients |-> Share(job, d, r, label)]
           g == [d \in Clients |-> Share(job', d, r, label)]
<1>1. Pending(r, label) = Shares(job, r, label) /\ Pending(r, label)' = Shares(job', r, label)
    BY PendingIsShares DEF Pending, JobType
<1>2. \A d \in Clients : f[d] \in Nat /\ g[d] \in Nat
    BY DEF Share, Job, JobType
<1>3. \A d \in Clients \ {c} : g[d] = f[d]
    BY DEF Share, OthersWait, Waits
<1>4. f[c] = Share(job, c, r, label) /\ g[c] = Share(job', c, r, label)
    OBVIOUS
<1>5. IsFiniteSet(Clients)
    BY ProviderAssumption
<1>6. Shares(job, r, label) = SumFunctionOnSet(f, Clients)
      /\ Shares(job', r, label) = SumFunctionOnSet(g, Clients)
    BY DEF Shares
<1> HIDE DEF f, g
<1>7. SumFunctionOnSet(g, Clients) = SumFunctionOnSet(f, Clients) - f[c] + g[c]
    BY <1>2, <1>3, <1>5, SumChanges
<1>8. SumFunctionOnSet(f, Clients) \in Nat
    BY <1>2, <1>5, SumType
<1> QED
    BY <1>1, <1>4, <1>6, <1>7, <1>8

\* When one handler moves, the bytes under way change by its own.
LEMMA UnderwayMoves ==
    ASSUME JobType, JobType', NEW c \in Clients, OthersWait(c), NEW labels
    PROVE  /\ Underway(job', labels) = Underway(job, labels) - Held(job, c, labels)
                                                             + Held(job', c, labels)
           /\ Underway(job, labels) \in Nat
<1> DEFINE f == [d \in Clients |-> Held(job, d, labels)]
           g == [d \in Clients |-> Held(job', d, labels)]
<1>1. Underway(job, labels) = SumFunctionOnSet(f, Clients)
      /\ Underway(job', labels) = SumFunctionOnSet(g, Clients)
    BY DEF Underway
<1>2. \A d \in Clients : f[d] \in Nat /\ g[d] \in Nat
    BY DEF Held, Job, JobType
<1>3. \A d \in Clients \ {c} : g[d] = f[d]
    BY DEF Held, OthersWait, Waits
<1>4. f[c] = Held(job, c, labels) /\ g[c] = Held(job', c, labels)
    OBVIOUS
<1>5. IsFiniteSet(Clients)
    BY ProviderAssumption
<1> HIDE DEF f, g
<1>6. SumFunctionOnSet(g, Clients) = SumFunctionOnSet(f, Clients) - f[c] + g[c]
    BY <1>2, <1>3, <1>5, SumChanges
<1>7. SumFunctionOnSet(f, Clients) \in Nat
    BY <1>2, <1>5, SumType
<1> QED
    BY <1>1, <1>4, <1>6, <1>7

-----------------------------------------------------------------------------
(***************************************************************************)
(* Who moves in a step, and how.                                           *)
(***************************************************************************)
\* One handler moves along its operation.
LEMMA GotoMoves ==
    ASSUME JobType, NEW c \in Clients, NEW label \in Labels, Goto(c, label)
    PROVE  JobType' /\ job'[c].pc = label /\ SameRequest(c) /\ OthersWait(c)
BY GotoJob DEF OthersWait, Waits, Same

\* One handler returns.
LEMMA ReturnMoves ==
    ASSUME JobType, NEW c \in Clients, Return(c)
    PROVE  JobType' /\ job'[c] = Idle /\ OthersWait(c)
BY ReturnJob DEF OthersWait, Waits, Same

\* One handler takes up a request for a block.
LEMMA StartMoves ==
    ASSUME JobType, NEW c \in Clients, NEW b \in Blocks, NEW label \in Labels,
           NEW n \in Nat, StartBlockJob(c, b, label, n)
    PROVE  /\ JobType' /\ OthersWait(c)
           /\ job'[c].pc = label /\ job'[c].block = b
           /\ job'[c].renter = Owner[b] /\ job'[c].amount = n
<1>1. /\ JobType'
      /\ job'[c] = [pc |-> label, block |-> b, renter |-> Owner[b],
                    amount |-> n, alone |-> InFlight(b) = {}]
      /\ \A d \in Clients \ {c} : Disturbed(d, b)
    BY StartJob
<1>2. OthersWait(c)
    BY <1>1 DEF OthersWait, Waits, Disturbed
<1> QED
    BY <1>1, <1>2

\* One handler agrees to a contract.
LEMMA AgreeMoves ==
    ASSUME JobType, NEW c \in Clients, NEW r \in Renters, NEW space \in Spaces,
           NegotiateCheck(c, r, space)
    PROVE  /\ JobType' /\ OthersWait(c)
           /\ job'[c] = [pc |-> "agreed", block |-> NoBlock, renter |-> r,
                         amount |-> space, alone |-> FALSE]
BY AgreeJob DEF OthersWait, Waits, Same

-----------------------------------------------------------------------------
(***************************************************************************)
(* Reservations: the contracts table, the counters, what may be promised   *)
(* and what is advertised.                                                 *)
(***************************************************************************)
\* Where a contract is under way.
InTheMiddle == {"agreed", "signed"}

\* The counters and the table stay as they are.
CountersKept == UNCHANGED <<ledger, reserved, totalReserved, config, meta>>

\* A step of a handler that is not negotiating leaves the reservations alone.
LEMMA AwayFromContracts ==
    ASSUME ContractInv, DiskInv', JobType, JobType', NEW c \in Clients, OthersWait(c),
           job[c].pc \notin InTheMiddle, job'[c].pc \notin InTheMiddle,
           CountersKept, used' \in [Renters -> Int]
    PROVE  ContractInv'
<1> USE DEF InTheMiddle
<1>1. \A r \in Renters : Pending(r, "signed")' = Pending(r, "signed")
  <2> TAKE r \in Renters
  <2>1. /\ Pending(r, "signed")' = Pending(r, "signed") - Share(job, c, r, "signed")
                                      + Share(job', c, r, "signed")
        /\ Pending(r, "signed") \in Nat
    BY PendingMoves
  <2>2. Share(job, c, r, "signed") = 0 /\ Share(job', c, r, "signed") = 0
    BY DEF Share
  <2> QED  BY <2>1, <2>2
<1>2. ASSUME NEW labels \in {{"signed"}, {"agreed", "signed"}}
      PROVE  Underway(job', labels) = Underway(job, labels)
  <2>1. /\ Underway(job', labels) = Underway(job, labels) - Held(job, c, labels)
                                       + Held(job', c, labels)
        /\ Underway(job, labels) \in Nat
    BY UnderwayMoves
  <2>2. Held(job, c, labels) = 0 /\ Held(job', c, labels) = 0
    BY DEF Held
  <2> QED  BY <2>1, <2>2
<1>3. CountersTypeOK'
    BY DEF ContractInv, CountersTypeOK, CountersKept, config, meta
<1>4. ReservedAccountsForContracts'
    BY <1>1 DEF ContractInv, ReservedAccountsForContracts, CountersKept
<1>5. LedgerCounted' /\ AgreedBounded'
    BY <1>2 DEF ContractInv, LedgerCounted, AgreedBounded, CountersKept, config
<1>6. Asked' /\ SnapshotsLate'
    BY DEF ContractInv, Asked, SnapshotsLate, Late, CountersKept, meta, OthersWait, Waits
<1> QED
    BY <1>3, <1>4, <1>5, <1>6 DEF ContractInv

\* What handlers may hold of the contracts that are being made.
LEMMA SpacesBounded ==
    /\ Cardinality(Clients) - 1 \in Nat
    /\ Excess \in Nat
    /\ Max(Spaces) \in Nat
    /\ \A space \in Spaces : space \in Nat /\ space <= Max(Spaces)
<1>1. Cardinality(Clients) \in Nat /\ Cardinality(Clients) # 0
    BY ProviderAssumption, FS_CardinalityType, FS_EmptySet
<1>2. Spaces \subseteq Int /\ IsFiniteSet(Spaces) /\ Spaces # {}
    BY ProviderAssumption
<1>3. Max(Spaces) \in Spaces /\ \A space \in Spaces : space <= Max(Spaces)
    BY <1>2, MaxExists
<1>4. \A space \in Spaces : space \in Nat
    BY ProviderAssumption
<1>5. Cardinality(Clients) - 1 \in Nat
    BY <1>1
<1>6. Max(Spaces) \in Nat
    BY <1>3, <1>4
<1>7. Excess \in Nat
  <2>1. \A m, n \in Nat : m * n \in Nat
    OBVIOUS
  <2> QED  BY <1>5, <1>6, <2>1 DEF Excess
<1> QED
    BY <1>3, <1>4, <1>5, <1>6, <1>7

\* Beside the handler that moves, each holds one contract at most.
LEMMA OthersBounded ==
    ASSUME NEW j \in [Clients -> Job], NEW c \in Clients, NEW labels,
           \A d \in Clients \ {c} : Held(j, d, labels) <= Max(Spaces)
    PROVE  Underway(j, labels) <= Held(j, c, labels) + Excess
<1> DEFINE f == [d \in Clients |-> Held(j, d, labels)]
<1>1. IsFiniteSet(Clients) /\ IsFiniteSet(Clients \ {c})
    BY ProviderAssumption, FS_RemoveElement
<1>2. \A d \in Clients : f[d] \in Int
    BY DEF Held, Job
<1>3. \A d \in Clients \ {c} : f[d] <= Max(Spaces)
    OBVIOUS
<1>4. Underway(j, labels) = SumFunctionOnSet(f, Clients) /\ f[c] = Held(j, c, labels)
    BY DEF Underway
<1> HIDE DEF f
<1>5. SumFunctionOnSet(f, Clients) = f[c] + SumFunctionOnSet(f, Clients \ {c})
    BY <1>1, <1>2, SumTakesOut
<1>6. SumFunctionOnSet(f, Clients \ {c}) <= Cardinality(Clients \ {c}) * Max(Spaces)
  <2>1. Max(Spaces) \in Int /\ \A d \in Clients \ {c} : f[d] \in Int /\ f[d] <= Max(Spaces)
    BY <1>2, <1>3, SpacesBounded
  <2> QED  BY <1>1, <2>1, SumBounded
<1>7. Cardinality(Clients \ {c}) = Cardinality(Clients) - 1
    BY <1>1, ProviderAssumption, FS_RemoveElement
<1>8. SumFunctionOnSet(f, Clients \ {c}) \in Int /\ f[c] \in Int
    BY <1>1, <1>2, SumType
<1>9. Excess \in Int /\ Excess = Cardinality(Clients \ {c}) * Max(Spaces)
    BY <1>7, SpacesBounded DEF Excess
<1> QED
    BY <1>4, <1>5, <1>6, <1>8, <1>9

\* A negotiation that passes the check finds the space it asks for free.
LEMMA AgreeStep ==
    ASSUME ContractInv, DiskInv', NEW c \in Clients, NEW r \in Renters,
           NEW space \in Spaces, NegotiateCheck(c, r, space)
    PROVE  ContractInv'
<1> USE DEF disk, memory, config, meta
<1>0. JobType /\ JobType' /\ OthersWait(c)
      /\ job'[c] = [pc |-> "agreed", block |-> NoBlock, renter |-> r,
                    amount |-> space, alone |-> FALSE]
    BY AgreeMoves DEF ContractInv, DiskInv, DiskTypeOK, JobType
<1>1. /\ job[c].pc = "idle"
      /\ UNCHANGED <<ledger, reserved, used, totalReserved, spaceAvail, savedSpace, workload,
                     snap, advertised>>
      /\ space <= spaceAvail - totalReserved /\ agreedSpace' = spaceAvail
    BY DEF NegotiateCheck, At
<1>2. \A p \in Renters : Pending(p, "signed")' = Pending(p, "signed")
  <2> TAKE p \in Renters
  <2>1. /\ Pending(p, "signed")' = Pending(p, "signed") - Share(job, c, p, "signed")
                                      + Share(job', c, p, "signed")
        /\ Pending(p, "signed") \in Nat
    BY <1>0, PendingMoves
  <2>2. Share(job, c, p, "signed") = 0 /\ Share(job', c, p, "signed") = 0
    BY <1>0, <1>1 DEF Share
  <2> QED  BY <2>1, <2>2
<1>3. Underway(job', {"signed"}) = Underway(job, {"signed"})
  <2>1. /\ Underway(job', {"signed"}) = Underway(job, {"signed"}) - Held(job, c, {"signed"})
                                       + Held(job', c, {"signed"})
        /\ Underway(job, {"signed"}) \in Nat
    BY <1>0, UnderwayMoves
  <2>2. Held(job, c, {"signed"}) = 0 /\ Held(job', c, {"signed"}) = 0
    BY <1>0, <1>1 DEF Held
  <2> QED  BY <2>1, <2>2
<1>4. CountersTypeOK' /\ ReservedAccountsForContracts' /\ LedgerCounted'
    BY <1>1, <1>2, <1>3 DEF ContractInv, CountersTypeOK, ReservedAccountsForContracts,
       LedgerCounted
<1>5. Asked'
    BY <1>0 DEF ContractInv, Asked, OthersWait, Waits
<1>6. AgreedBounded'
  <2>1. \A d \in Clients \ {c} : Held(job', d, {"agreed", "signed"}) <= Max(Spaces)
    BY <1>5, SpacesBounded DEF Asked, Held
  <2>2. Underway(job', {"agreed", "signed"})
          <= Held(job', c, {"agreed", "signed"}) + Excess
    BY <1>0, <2>1, OthersBounded DEF JobType
  <2>3. Held(job', c, {"agreed", "signed"}) = space
    BY <1>0 DEF Held
  <2>4. Underway(job', {"agreed", "signed"}) \in Int
    <3>1. Underway(job, {"agreed", "signed"}) \in Int
          /\ Held(job, c, {"agreed", "signed"}) = 0
          /\ Underway(job', {"agreed", "signed"}) = Underway(job, {"agreed", "signed"})
               - Held(job, c, {"agreed", "signed"}) + Held(job', c, {"agreed", "signed"})
      BY <1>0, <1>1, UnderwayMoves DEF Held
    <3> QED  BY <2>3, <3>1, SpacesBounded
  <2>5. /\ totalReserved' = totalReserved /\ totalReserved \in Nat
        /\ agreedSpace' = spaceAvail /\ spaceAvail \in Int
    BY <1>1, ProviderAssumption DEF ContractInv, CountersTypeOK
  <2>6. Excess \in Int /\ space \in Int
    BY SpacesBounded
  <2>7. totalReserved' + Underway(job', {"agreed", "signed"}) <= agreedSpace' + Excess
    BY <1>1, <2>2, <2>3, <2>4, <2>5, <2>6
  <2> QED  BY <2>7 DEF AgreedBounded
<1>7. SnapshotsLate'
    BY <1>1 DEF ContractInv, SnapshotsLate, Late
<1> QED
    BY <1>4, <1>5, <1>6, <1>7 DEF ContractInv

\* A contract that is inserted is counted as under way until it is counted.
LEMMA InsertStep ==
    ASSUME ContractInv, DiskInv', NEW c \in Clients, InsertContract(c)
    PROVE  ContractInv'
<1> USE DEF disk, memory, config, meta
<1>0. JobType /\ job[c].pc = "agreed" /\ job[c].renter \in Renters /\ job[c].amount \in Spaces
      /\ job[c].amount \in Nat
    BY SpacesBounded DEF InsertContract, At, pc, ContractInv, DiskInv, DiskTypeOK, JobType,
       JobsCarry, Carries, NegotiatePC, Asked
<1>1. UNCHANGED <<reserved, used, totalReserved, spaceAvail, savedSpace, workload,
                  agreedSpace, snap, advertised>>
    BY DEF InsertContract
<1>2. CASE Goto(c, "signed") /\ ledger' = [ledger EXCEPT ![job[c].renter] = @ + job[c].amount]
  <2>1. JobType' /\ OthersWait(c) /\ SameRequest(c) /\ job'[c].pc = "signed"
    BY <1>0, <1>2, GotoMoves DEF Labels, NegotiatePC
  <2>2. job'[c].renter = job[c].renter /\ job'[c].amount = job[c].amount
    BY <2>1 DEF SameRequest
  <2>3. ledger \in [Renters -> Nat]
    BY DEF ContractInv, DiskInv, DiskTypeOK
  <2>4. ASSUME NEW r \in Renters
        PROVE  reserved'[r] + Pending(r, "signed")' = ledger'[r]
    <3>1. /\ Pending(r, "signed")' = Pending(r, "signed") - Share(job, c, r, "signed")
                                        + Share(job', c, r, "signed")
          /\ Pending(r, "signed") \in Nat
      BY <1>0, <2>1, PendingMoves
    <3>2. Share(job, c, r, "signed") = 0
          /\ Share(job', c, r, "signed") = IF r = job[c].renter THEN job[c].amount ELSE 0
      BY <1>0, <2>1, <2>2 DEF Share
    <3>3. reserved[r] + Pending(r, "signed") = ledger[r] /\ reserved[r] \in Nat
      BY DEF ContractInv, ReservedAccountsForContracts, CountersTypeOK
    <3>4. ledger'[r] = ledger[r] + (IF r = job[c].renter THEN job[c].amount ELSE 0)
      BY <1>0, <1>2, <2>3
    <3> QED  BY <1>0, <1>1, <2>3, <3>1, <3>2, <3>3, <3>4
  <2>5. SumFunctionOnSet(ledger', Renters) = SumFunctionOnSet(ledger, Renters) + job[c].amount
        /\ SumFunctionOnSet(ledger, Renters) \in Nat
    <3>1. IsFiniteSet(Renters) /\ \A r \in Renters : ledger[r] \in Int /\ ledger'[r] \in Int
          /\ ledger[r] \in Nat
      BY <1>0, <1>2, <2>3, ProviderAssumption
    <3>2. \A r \in Renters \ {job[c].renter} : ledger'[r] = ledger[r]
      BY <1>2, <2>3
    <3>3. ledger'[job[c].renter] = ledger[job[c].renter] + job[c].amount
      BY <1>0, <1>2, <2>3
    <3>4. SumFunctionOnSet(ledger', Renters) = SumFunctionOnSet(ledger, Renters)
            - ledger[job[c].renter] + ledger'[job[c].renter]
      BY <1>0, <3>1, <3>2, SumChanges
    <3>5. SumFunctionOnSet(ledger, Renters) \in Nat
      BY <3>1, SumType
    <3> QED  BY <1>0, <3>1, <3>3, <3>4, <3>5
  <2>6. ASSUME NEW labels
        PROVE  /\ Underway(job', labels) = Underway(job, labels) - Held(job, c, labels)
                                              + Held(job', c, labels)
               /\ Underway(job, labels) \in Nat
    BY <1>0, <2>1, UnderwayMoves
  <2>7. /\ Held(job, c, {"signed"}) = 0 /\ Held(job', c, {"signed"}) = job[c].amount
        /\ Held(job, c, {"agreed", "signed"}) = job[c].amount
        /\ Held(job', c, {"agreed", "signed"}) = job[c].amount
    BY <1>0, <2>1, <2>2 DEF Held
  <2>8. Underway(job', {"signed"}) = Underway(job, {"signed"}) + job[c].amount
        /\ Underway(job', {"agreed", "signed"}) = Underway(job, {"agreed", "signed"})
    BY <1>0, <2>6, <2>7
  <2>9. LedgerCounted' /\ AgreedBounded'
    BY <1>0, <1>1, <2>5, <2>6, <2>8
       DEF ContractInv, LedgerCounted, AgreedBounded, CountersTypeOK
  <2>10. Asked'
    BY <1>0, <2>1, <2>2 DEF ContractInv, Asked, OthersWait, Waits
  <2>11. CountersTypeOK' /\ ReservedAccountsForContracts'
    BY <1>1, <2>4 DEF ContractInv, CountersTypeOK, ReservedAccountsForContracts
  <2>12. SnapshotsLate'
    BY <1>1 DEF ContractInv, SnapshotsLate, Late
  <2> QED
    BY <2>9, <2>10, <2>11, <2>12 DEF ContractInv
<1>3. CASE Return(c) /\ ledger' = ledger
  <2>1. JobType' /\ OthersWait(c) /\ job'[c] = Idle
    BY <1>0, <1>3, ReturnMoves
  <2>2. ASSUME NEW r \in Renters
        PROVE  Pending(r, "signed")' = Pending(r, "signed")
    <3>1. /\ Pending(r, "signed")' = Pending(r, "signed") - Share(job, c, r, "signed")
                                        + Share(job', c, r, "signed")
          /\ Pending(r, "signed") \in Nat
      BY <1>0, <2>1, PendingMoves
    <3>2. Share(job, c, r, "signed") = 0 /\ Share(job', c, r, "signed") = 0
      BY <1>0, <2>1 DEF Share, Idle
    <3> QED  BY <3>1, <3>2
  <2>3. ASSUME NEW labels
        PROVE  /\ Underway(job', labels) = Underway(job, labels) - Held(job, c, labels)
                                              + Held(job', c, labels)
               /\ Underway(job, labels) \in Nat
    BY <1>0, <2>1, UnderwayMoves
  <2>4. /\ Held(job, c, {"signed"}) = 0 /\ Held(job', c, {"signed"}) = 0
        /\ Held(job, c, {"agreed", "signed"}) = job[c].amount
        /\ Held(job', c, {"agreed", "signed"}) = 0
    BY <1>0, <2>1 DEF Held, Idle
  <2>5. Underway(job', {"signed"}) = Underway(job, {"signed"})
        /\ Underway(job', {"agreed", "signed"})
             = Underway(job, {"agreed", "signed"}) - job[c].amount
    BY <1>0, <2>3, <2>4
  <2>6. Excess \in Int /\ agreedSpace \in Int
    <3>1. agreedSpace \in Capacities /\ Capacities \subseteq Int
      BY ProviderAssumption DEF ContractInv, CountersTypeOK
    <3> QED  BY <3>1, SpacesBounded
  <2>7. LedgerCounted' /\ AgreedBounded'
    BY <1>0, <1>1, <1>3, <2>3, <2>5, <2>6
       DEF ContractInv, LedgerCounted, AgreedBounded, CountersTypeOK
  <2>8. Asked'
    BY <2>1 DEF ContractInv, Asked, OthersWait, Waits, Idle
  <2>9. CountersTypeOK' /\ ReservedAccountsForContracts'
    BY <1>1, <1>3, <2>2 DEF ContractInv, CountersTypeOK, ReservedAccountsForContracts
  <2>10. SnapshotsLate'
    BY <1>1 DEF ContractInv, SnapshotsLate, Late
  <2> QED
    BY <2>7, <2>8, <2>9, <2>10 DEF ContractInv
<1> QED
    BY <1>2, <1>3 DEF InsertContract

\* The contract leaves the contracts under way for the counters.
LEMMA CountStep ==
    ASSUME ContractInv, DiskInv', NEW c \in Clients, NegotiateCount(c)
    PROVE  ContractInv'
<1> USE DEF disk, memory, config, meta
<1>0. JobType /\ job[c].pc = "signed" /\ job[c].renter \in Renters /\ job[c].amount \in Nat
    BY SpacesBounded DEF NegotiateCount, At, pc, ContractInv, DiskInv, DiskTypeOK, JobType,
       JobsCarry, Carries, NegotiatePC, Asked
<1>1. /\ UNCHANGED <<ledger, used, spaceAvail, savedSpace, workload, agreedSpace, snap,
                     advertised>>
      /\ reserved' = [reserved EXCEPT ![job[c].renter] = @ + job[c].amount]
      /\ totalReserved' = totalReserved + job[c].amount
    BY DEF NegotiateCount
<1>2. JobType' /\ OthersWait(c) /\ SameRequest(c) /\ job'[c].pc = "counted"
    BY <1>0, GotoMoves DEF Labels, NegotiatePC, NegotiateCount
<1>3. job'[c].renter = job[c].renter /\ job'[c].amount = job[c].amount
    BY <1>2 DEF SameRequest
<1>4. reserved \in [Renters -> Nat] /\ totalReserved \in Nat
    BY DEF ContractInv, CountersTypeOK
<1>5. ASSUME NEW r \in Renters
      PROVE  reserved'[r] + Pending(r, "signed")' = ledger'[r]
  <2>1. /\ Pending(r, "signed")' = Pending(r, "signed") - Share(job, c, r, "signed")
                                      + Share(job', c, r, "signed")
        /\ Pending(r, "signed") \in Nat
    BY <1>0, <1>2, PendingMoves
  <2>2. Share(job', c, r, "signed") = 0
        /\ Share(job, c, r, "signed") = IF r = job[c].renter THEN job[c].amount ELSE 0
    BY <1>0, <1>2, <1>3 DEF Share
  <2>3. reserved[r] + Pending(r, "signed") = ledger[r] /\ reserved[r] \in Nat
    BY <1>4 DEF ContractInv, ReservedAccountsForContracts
  <2>4. reserved'[r] = reserved[r] + (IF r = job[c].renter THEN job[c].amount ELSE 0)
    BY <1>0, <1>1, <1>4
  <2> QED  BY <1>0, <1>1, <2>1, <2>2, <2>3, <2>4
<1>6. totalReserved' = SumFunctionOnSet(reserved', Renters)
  <2>1. IsFiniteSet(Renters) /\ \A r \in Renters : reserved[r] \in Int /\ reserved'[r] \in Int
    BY <1>0, <1>1, <1>4, ProviderAssumption
  <2>2. \A r \in Renters \ {job[c].renter} : reserved'[r] = reserved[r]
    BY <1>1, <1>4
  <2>3. reserved'[job[c].renter] = reserved[job[c].renter] + job[c].amount
    BY <1>0, <1>1, <1>4
  <2>4. SumFunctionOnSet(reserved', Renters) = SumFunctionOnSet(reserved, Renters)
          - reserved[job[c].renter] + reserved'[job[c].renter]
    BY <1>0, <2>1, <2>2, SumChanges
  <2>5. totalReserved = SumFunctionOnSet(reserved, Renters)
    BY DEF ContractInv, ReservedAccountsForContracts
  <2> QED  BY <1>0, <1>1, <1>4, <2>1, <2>3, <2>4, <2>5
<1>7. ASSUME NEW labels
      PROVE  /\ Underway(job', labels) = Underway(job, labels) - Held(job, c, labels)
                                            + Held(job', c, labels)
             /\ Underway(job, labels) \in Nat
    BY <1>0, <1>2, UnderwayMoves
<1>8. ASSUME NEW labels \in {{"signed"}, {"agreed", "signed"}}
      PROVE  totalReserved' + Underway(job', labels) = totalReserved + Underway(job, labels)
  <2>1. Held(job, c, labels) = job[c].amount /\ Held(job', c, labels) = 0
    BY <1>0, <1>2 DEF Held
  <2> QED  BY <1>0, <1>1, <1>4, <1>7, <2>1
<1>9. CountersTypeOK' /\ ReservedAccountsForContracts'
  <2>1. reserved' \in [Renters -> Nat] /\ totalReserved' \in Nat
    BY <1>0, <1>1, <1>4
  <2> QED  BY <1>1, <1>5, <1>6, <2>1 DEF ContractInv, CountersTypeOK, ReservedAccountsForContracts
<1>10. LedgerCounted' /\ AgreedBounded'
    BY <1>1, <1>8 DEF ContractInv, LedgerCounted, AgreedBounded
<1>11. Asked'
    BY <1>2, <1>3 DEF ContractInv, Asked, OthersWait, Waits
<1>12. SnapshotsLate'
  <2>1. totalReserved' \in Nat /\ totalReserved <= totalReserved'
    BY <1>0, <1>1, <1>4
  <2>2. ASSUME NEW s \in Snapshot, Late(s)  PROVE  Late(s)'
    BY <1>4, <2>1, <2>2 DEF Snapshot, Late
  <2>3. /\ Late(advertised) /\ advertised \in Snapshot
        /\ \A d \in Clients : snap[d] # NoSnap => Late(snap[d]) /\ snap[d] \in Snapshot
    BY DEF ContractInv, SnapshotsLate, CountersTypeOK
  <2>4. \A d \in Clients : snap'[d] # NoSnap => Late(snap[d])'
    BY <1>1, <2>2, <2>3
  <2> QED  BY <1>1, <2>2, <2>3, <2>4 DEF SnapshotsLate, Late
<1> QED
    BY <1>9, <1>10, <1>11, <1>12 DEF ContractInv

\* A step past no check moves no reservation: the sums stay.
LEMMA AsideKeepsSums ==
    ASSUME ContractInv, JobType, JobType', NEW c \in Clients, OthersWait(c),
           job[c].pc \notin InTheMiddle, job'[c].pc \notin InTheMiddle,
           UNCHANGED <<ledger, reserved, totalReserved, agreedSpace>>
    PROVE  ReservedAccountsForContracts' /\ LedgerCounted' /\ AgreedBounded' /\ Asked'
<1> USE DEF InTheMiddle
<1>1. \A r \in Renters : Pending(r, "signed")' = Pending(r, "signed")
  <2> TAKE r \in Renters
  <2>1. /\ Pending(r, "signed")' = Pending(r, "signed") - Share(job, c, r, "signed")
                                      + Share(job', c, r, "signed")
        /\ Pending(r, "signed") \in Nat
    BY PendingMoves
  <2>2. Share(job, c, r, "signed") = 0 /\ Share(job', c, r, "signed") = 0
    BY DEF Share
  <2> QED  BY <2>1, <2>2
<1>2. ASSUME NEW labels \in {{"signed"}, {"agreed", "signed"}}
      PROVE  Underway(job', labels) = Underway(job, labels)
  <2>1. /\ Underway(job', labels) = Underway(job, labels) - Held(job, c, labels)
                                       + Held(job', c, labels)
        /\ Underway(job, labels) \in Nat
    BY UnderwayMoves
  <2>2. Held(job, c, labels) = 0 /\ Held(job', c, labels) = 0
    BY DEF Held
  <2> QED  BY <2>1, <2>2
<1>3. ReservedAccountsForContracts'
    BY <1>1 DEF ContractInv, ReservedAccountsForContracts
<1>4. LedgerCounted' /\ AgreedBounded'
    BY <1>2 DEF ContractInv, LedgerCounted, AgreedBounded
<1>5. Asked'
    BY DEF ContractInv, Asked, OthersWait, Waits
<1> QED
    BY <1>3, <1>4, <1>5

\* What UpdateMeta takes is of the counters as they are, and what it sends
\* is what it took; SpaceAvail may have changed since, and what is free of the
\* one it saw is no more than it was.
LEMMA AsideStep ==
    ASSUME ContractInv, DiskInv', NEW c \in Clients, Aside(c)
    PROVE  ContractInv'
<1> USE DEF disk, memory, config, meta
<1>0. JobType /\ JobType' /\ Unseen /\ OthersWait(c)
      /\ job[c].pc \notin InTheMiddle /\ job'[c].pc \notin InTheMiddle
  <2>1. /\ JobType' /\ Unseen /\ \A d \in Clients \ {c} : Same(d)
        /\ job[c].pc \in OffPC /\ job'[c].pc \in OffPC
    BY AsideMoves DEF ContractInv
  <2>2. OffPC \cap InTheMiddle = {}
    BY DEF OffPC, ConfigPC, InTheMiddle
  <2> QED
    BY <2>1, <2>2 DEF ContractInv, DiskInv, DiskTypeOK, JobType, OthersWait, Waits, Same
<1>1. ReservedAccountsForContracts' /\ LedgerCounted' /\ AgreedBounded' /\ Asked'
    BY <1>0, AsideKeepsSums DEF Unseen
<1>2. /\ spaceAvail \in Capacities /\ savedSpace \in Capacities /\ spaceAvail \in Int
      /\ totalReserved \in Nat /\ snap \in [Clients -> Snapshot \cup {NoSnap}]
      /\ advertised \in Snapshot /\ workload \in [ids : SUBSET Blocks, updates : Nat]
    BY ProviderAssumption DEF ContractInv, CountersTypeOK
<1> DEFINE now == [free |-> spaceAvail - totalReserved, space |-> spaceAvail]
<1>3. now \in Snapshot /\ now.free = now.space - totalReserved
      /\ now.free \in Int /\ Late(now)
    BY <1>2 DEF Snapshot, Late
<1>4. /\ snap' = snap \/ snap' = [snap EXCEPT ![c] = now] \/ snap' = [snap EXCEPT ![c] = NoSnap]
      /\ advertised' = advertised \/ (advertised' = snap[c] /\ snap[c] # NoSnap)
    BY DEF Aside, UpdateMeta, UpdateConfig, MetaSnapshot, MetaSkip, MetaPublish, ConfigSet,
       ConfigSave, PricingTick
<1>5. /\ spaceAvail' \in Capacities /\ savedSpace' \in Capacities
      /\ workload' \in [ids : SUBSET Blocks, updates : Nat]
  <2>1. spaceAvail' \in Capacities /\ savedSpace' \in Capacities
    BY <1>2 DEF Aside, UpdateMeta, UpdateConfig, MetaSnapshot, MetaSkip, MetaPublish,
       ConfigSet, ConfigSave, PricingTick
  <2>2. \/ workload' = workload
        \/ workload.updates > 0 /\ workload' = [workload EXCEPT !.updates = @ - 1]
    BY DEF Aside, UpdateMeta, UpdateConfig, MetaSnapshot, MetaSkip, MetaPublish,
       ConfigSet, ConfigSave, PricingTick
  <2> QED  BY <1>2, <2>1, <2>2
<1> HIDE DEF now
<1>6. CountersTypeOK'
    BY <1>0, <1>2, <1>3, <1>4, <1>5 DEF ContractInv, CountersTypeOK, Unseen
<1>7. totalReserved' = totalReserved /\ \A s : Late(s)' <=> Late(s)
    BY <1>0 DEF Unseen, Late
<1>8. SnapshotsLate'
    BY <1>2, <1>3, <1>4, <1>7 DEF ContractInv, SnapshotsLate, Late
<1> QED
    BY <1>1, <1>6, <1>8 DEF ContractInv

\* Nothing is under way while every handler is idle.
LEMMA NothingUnderway ==
    ASSUME JobType', \A c \in Clients : job'[c] = Idle, NEW r, NEW label, label # "idle",
           NEW labels, "idle" \notin labels
    PROVE  Pending(r, label)' = 0 /\ Underway(job', labels) = 0
<1>1. IsFiniteSet(Clients)
    BY ProviderAssumption
<1>2. /\ \A c \in Clients : [d \in Clients |-> Share(job', d, r, label)][c] = 0
      /\ \A c \in Clients : [d \in Clients |-> Held(job', d, labels)][c] = 0
    BY DEF Share, Held, Idle
<1>3. Pending(r, label)' = Shares(job', r, label)
    BY PendingIsShares DEF Pending, JobType
<1> QED
    BY <1>1, <1>2, <1>3, SumOfZeros DEF Shares, Underway

\* The contracts that are signed are some of those that are agreed.
LEMMA SignedAreAgreed ==
    ASSUME JobType
    PROVE  /\ Underway(job, {"signed"}) \in Nat
           /\ Underway(job, {"agreed", "signed"}) \in Nat
           /\ Underway(job, {"signed"}) <= Underway(job, {"agreed", "signed"})
<1> DEFINE f == [c \in Clients |-> Held(job, c, {"signed"})]
           g == [c \in Clients |-> Held(job, c, {"agreed", "signed"})]
<1>1. \A c \in Clients : f[c] \in Nat /\ g[c] \in Nat /\ f[c] <= g[c]
    BY DEF Held, JobType, Job
<1>2. /\ IsFiniteSet(Clients)
      /\ Underway(job, {"signed"}) = SumFunctionOnSet(f, Clients)
      /\ Underway(job, {"agreed", "signed"}) = SumFunctionOnSet(g, Clients)
    BY ProviderAssumption DEF Underway
<1> HIDE DEF f, g
<1>3. SumFunctionOnSet(f, Clients) <= SumFunctionOnSet(g, Clients)
    BY <1>1, <1>2, SumGrows
<1>4. SumFunctionOnSet(f, Clients) \in Nat /\ SumFunctionOnSet(g, Clients) \in Nat
    BY <1>1, <1>2, SumType
<1> QED
    BY <1>2, <1>3, <1>4

\* The bytes of a sum over listed blocks.
LEMMA RowBytesType ==
    ASSUME rows \in [Blocks -> Nat], NEW r, NEW listed, listed \subseteq Blocks
    PROVE  RowBytes(r, listed) \in Nat
<1> DEFINE f == [b \in Blocks |-> rows[b] * Size[b]]
           T == {b \in listed : Owner[b] = r}
<1>1. T \subseteq Blocks /\ IsFiniteSet(T)
    BY ProviderAssumption, FS_Subset
<1>2. \A b \in T : f[b] \in Nat
  <2>1. \A b \in T : rows[b] \in Nat /\ Size[b] \in Nat
    BY <1>1, ProviderAssumption
  <2>2. \A m, n \in Nat : m * n \in Nat
    OBVIOUS
  <2> QED  BY <1>1, <2>1, <2>2
<1> HIDE DEF f, T
<1>3. SumFunctionOnSet(f, T) \in Nat
    BY <1>1, <1>2, SumType
<1> QED
    BY <1>3 DEF f, T, RowBytes

\* A restart counts the contracts that were signed and not counted yet.
LEMMA RestartContracts ==
    ASSUME ContractInv, DiskInv', Restart
    PROVE  ContractInv'
<1>0. /\ JobType /\ ledger \in [Renters -> Nat] /\ rows \in [Blocks -> Nat]
      /\ totalReserved \in Nat /\ agreedSpace \in Int
      /\ IsFiniteSet(Renters)
    BY ProviderAssumption DEF ContractInv, DiskInv, DiskTypeOK, JobType, CountersTypeOK
<1>1. /\ \A c \in Clients : job'[c] = Idle
      /\ snap' = [c \in Clients |-> NoSnap]
      /\ spaceAvail' = savedSpace /\ UNCHANGED <<savedSpace, workload, agreedSpace>>
      /\ reserved' = ledger /\ ledger' = ledger /\ rows' = rows
      /\ totalReserved' = SumFunctionOnSet(ledger, Renters)
      /\ advertised' = advertised
    BY DEF Restart
<1>j. JobType'
    BY DEF DiskInv, DiskTypeOK, JobType
<1>2. SumFunctionOnSet(ledger, Renters) \in Nat
    BY <1>0, SumType
<1>3. used' \in [Renters -> Int]
  <2>1. PICK listed \in SUBSET Blocks : used' = [r \in Renters |-> RowBytes(r, listed)]
    BY DEF Restart
  <2>2. \A r \in Renters : RowBytes(r, listed) \in Int
    BY <1>0, <2>1, RowBytesType
  <2> QED  BY <2>1, <2>2
<1>4. CountersTypeOK'
    BY <1>0, <1>1, <1>2, <1>3 DEF CountersTypeOK, ContractInv
<1>5. ReservedAccountsForContracts'
  <2>1. \A r \in Renters : Pending(r, "signed")' = 0
    <3>1. "signed" # "idle" /\ "idle" \notin {"signed"}
      OBVIOUS
    <3> QED  BY <1>1, <1>j, <3>1, NothingUnderway
  <2> QED  BY <1>0, <1>1, <2>1 DEF ReservedAccountsForContracts
<1>6. LedgerCounted'
  <2>1. Underway(job', {"signed"}) = 0
    BY <1>1, <1>j, NothingUnderway
  <2> QED  BY <1>1, <1>2, <2>1 DEF LedgerCounted
<1>7. AgreedBounded'
  <2>1. Underway(job', {"agreed", "signed"}) = 0
    BY <1>1, <1>j, NothingUnderway
  <2>2. /\ SumFunctionOnSet(ledger, Renters) = totalReserved + Underway(job, {"signed"})
        /\ totalReserved + Underway(job, {"agreed", "signed"}) > 0 =>
              totalReserved + Underway(job, {"agreed", "signed"}) <= agreedSpace + Excess
    BY DEF ContractInv, LedgerCounted, AgreedBounded
  <2>3. Excess \in Int
    BY SpacesBounded
  <2>4. totalReserved' + Underway(job', {"agreed", "signed"}) > 0 =>
          totalReserved' + Underway(job', {"agreed", "signed"}) <= agreedSpace' + Excess
    <3> DEFINE x == Underway(job, {"signed"})
               y == Underway(job, {"agreed", "signed"})
    <3>1. x \in Nat /\ y \in Nat /\ x <= y
      BY <1>0, SignedAreAgreed
    <3>a. SumFunctionOnSet(ledger, Renters) = totalReserved + x
      BY <2>2
    <3>b. totalReserved + y > 0 => totalReserved + y <= agreedSpace + Excess
      BY <2>2
    <3> HIDE DEF x, y
    <3>2. totalReserved' = totalReserved + x
      BY <1>1, <3>a
    <3>3. totalReserved + x > 0 => totalReserved + x <= agreedSpace + Excess
      BY <1>0, <2>3, <3>1, <3>b
    <3> QED  BY <1>0, <1>1, <2>1, <3>1, <3>2, <3>3
  <2> QED  BY <2>4 DEF AgreedBounded
<1>8. Asked'
    BY <1>1 DEF Asked, Idle
<1>9. SnapshotsLate'
  <2>1. /\ advertised \in Snapshot /\ Late(advertised)
        /\ totalReserved' = totalReserved + Underway(job, {"signed"})
    BY <1>1 DEF ContractInv, CountersTypeOK, SnapshotsLate, LedgerCounted
  <2>2. Late(advertised)'
    BY <1>0, <1>1, <2>1, SignedAreAgreed DEF Late, Snapshot
  <2> QED  BY <1>1, <2>2 DEF SnapshotsLate
<1> QED
    BY <1>4, <1>5, <1>6, <1>7, <1>8, <1>9 DEF ContractInv

\* Every step of every handler keeps the accounts of the reservations, and so
\* does a restart.
LEMMA ContractInvStep == ContractInv /\ [Next]_vars => ContractInv'
<1> SUFFICES ASSUME ContractInv, [Next]_vars
             PROVE  ContractInv'
    OBVIOUS
<1> USE DEF disk, memory, config, meta
<1>0. DiskInv' /\ JobType /\ used \in [Renters -> Int]
      /\ \A c \in Clients : job[c].amount \in Nat
    BY DiskInvStep DEF ContractInv, DiskInv, DiskTypeOK, JobType, Job, CountersTypeOK
<1>l. /\ {"checked", "copying", "copied", "inserted"} \subseteq Labels
      /\ {"statted", "removed", "unlisted"} \subseteq Labels
    BY DEF Labels, StorePC, DeletePC
<1>1. ASSUME NEW c \in Clients, NEW label \in {"copying", "copied", "inserted", "removed", "unlisted"},
             Goto(c, label), job[c].pc \notin InTheMiddle, CountersKept,
             used' \in [Renters -> Int]
      PROVE  ContractInv'
    BY <1>0, <1>l, <1>1, GotoMoves, AwayFromContracts DEF InTheMiddle
<1>2. ASSUME NEW c \in Clients, Return(c), job[c].pc \notin InTheMiddle, CountersKept,
             used' \in [Renters -> Int]
      PROVE  ContractInv'
    BY <1>0, <1>2, ReturnMoves, AwayFromContracts DEF InTheMiddle, Idle
<1>3. ASSUME NEW c \in Clients, StoreCreate(c) \/ StoreCopy(c) \/ InsertBlock(c)
                                  \/ DeleteRemove(c) \/ DeleteBlockById(c)
      PROVE  ContractInv'
  <2>1. job[c].pc \notin InTheMiddle /\ CountersKept /\ used' = used
    BY <1>3 DEF StoreCreate, StoreCopy, InsertBlock, DeleteRemove, DeleteBlockById, At,
       InTheMiddle, CountersKept
  <2>2. Return(c) \/ \E label \in {"copying", "copied", "inserted", "removed", "unlisted"} :
                        Goto(c, label)
    BY <1>3 DEF StoreCreate, StoreCopy, InsertBlock, DeleteRemove, DeleteBlockById
  <2> QED  BY <1>0, <1>1, <1>2, <2>1, <2>2
<1>4. ASSUME NEW c \in Clients, StoreCount(c) \/ DeleteCount(c)
      PROVE  ContractInv'
  <2>1. job[c].pc \notin InTheMiddle /\ CountersKept /\ Return(c)
    BY <1>4 DEF StoreCount, DeleteCount, Acknowledge, At, InTheMiddle, CountersKept
  <2>2. used' \in [Renters -> Int]
    BY <1>0, <1>4 DEF StoreCount, DeleteCount
  <2> QED  BY <1>2, <2>1, <2>2
<1>5. ASSUME NEW c \in Clients, NEW b \in Blocks, StoreCheck(c, b) \/ DeleteStat(c, b)
      PROVE  ContractInv'
  <2>1. job[c].pc \notin InTheMiddle /\ CountersKept /\ used' = used
    BY <1>5 DEF StoreCheck, DeleteStat, At, InTheMiddle, CountersKept
  <2>2. PICK n \in Nat, label \in {"checked", "statted"} : StartBlockJob(c, b, label, n)
    <3>1. Size[b] \in Nat /\ \A n \in 0..Size[b] : n \in Nat
      BY ProviderAssumption
    <3> QED  BY <1>5, <3>1 DEF StoreCheck, DeleteStat
  <2>3. label \in Labels
    BY <1>l
  <2>4. OthersWait(c) /\ job'[c].pc = label /\ JobType'
    BY <1>0, <2>2, <2>3, StartMoves
  <2> QED  BY <1>0, <2>1, <2>4, AwayFromContracts DEF InTheMiddle
<1>6. ASSUME NEW c \in Clients, NegotiateContract(c)
      PROVE  ContractInv'
    BY <1>0, <1>6, AgreeStep, InsertStep, CountStep DEF NegotiateContract
<1>9. ASSUME NEW c \in Clients, Aside(c)
      PROVE  ContractInv'
    BY <1>0, <1>9, AsideStep
<1>7. CASE Restart
    BY <1>0, <1>7, RestartContracts
<1>8. CASE UNCHANGED vars
  <2>1. \A r \in Renters : Pending(r, "signed")' = Pending(r, "signed")
    BY <1>8 DEF vars, Pending
  <2> QED
    BY <1>0, <1>8, <2>1 DEF vars, ContractInv, CountersTypeOK, ReservedAccountsForContracts,
       LedgerCounted, AgreedBounded, Asked, SnapshotsLate, Late
<1> QED
    BY <1>3, <1>4, <1>5, <1>6, <1>7, <1>8, <1>9 DEF Next, StoreBlock, DeleteBlock, Aside

\* A provider that starts with nothing accounts for it.
LEMMA ContractInvInit == Init => ContractInv
<1> SUFFICES ASSUME Init PROVE ContractInv
    OBVIOUS
<1>1. DiskInv
    BY IdleJob DEF Init, DiskInv, DiskTypeOK, FileState, JobsCarry, Carries,
       Idle, pc, StorePC, DeletePC, NegotiatePC
<1>2. JobType /\ \A c \in Clients : job[c] = Idle
    BY <1>1 DEF Init, DiskInv, DiskTypeOK, JobType
<1>3. IsFiniteSet(Clients) /\ IsFiniteSet(Renters) /\ Capacities \subseteq Int
    BY ProviderAssumption
<1>4. \A r \in Renters : Pending(r, "signed") = 0
  <2> TAKE r \in Renters
  <2>1. \A c \in Clients : [d \in Clients |-> Share(job, d, r, "signed")][c] = 0
    BY <1>2 DEF Share, Idle
  <2>2. Pending(r, "signed") = Shares(job, r, "signed")
    BY <1>2, PendingIsShares DEF Pending, JobType
  <2> QED  BY <1>3, <2>1, <2>2, SumOfZeros DEF Shares
<1>5. ASSUME NEW labels, "idle" \notin labels  PROVE  Underway(job, labels) = 0
  <2>1. \A c \in Clients : [d \in Clients |-> Held(job, d, labels)][c] = 0
    BY <1>2, <1>5 DEF Held, Idle
  <2> QED  BY <1>3, <2>1, SumOfZeros DEF Underway
<1>6. SumFunctionOnSet(ledger, Renters) = 0 /\ SumFunctionOnSet(reserved, Renters) = 0
  <2>1. \A r \in Renters : ledger[r] = 0 /\ reserved[r] = 0
    BY DEF Init
  <2> QED  BY <1>3, <2>1, SumOfZeros
<1>7. CountersTypeOK /\ SnapshotsLate /\ Asked
  <2>1. spaceAvail \in Capacities /\ spaceAvail \in Int /\ workload \in Workloads
    BY <1>3 DEF Init
  <2>2. advertised \in Snapshot /\ advertised.free = advertised.space - 0
        /\ totalReserved = 0
    BY <2>1 DEF Init, Snapshot
  <2>3. Late(advertised)
    BY <2>2 DEF Late, Snapshot
  <2>4. CountersTypeOK
    BY <2>1, <2>2, ProviderAssumption DEF Init, CountersTypeOK
  <2> QED
    BY <1>2, <2>3, <2>4 DEF Init, SnapshotsLate, Asked, Idle
<1>8. ReservedAccountsForContracts
    BY <1>4, <1>6 DEF Init, ReservedAccountsForContracts
<1>9. LedgerCounted
    BY <1>5, <1>6 DEF Init, LedgerCounted
<1>10. AgreedBounded
  <2>1. Underway(job, {"agreed", "signed"}) = 0
    BY <1>5
  <2> QED  BY <2>1 DEF Init, AgreedBounded
<1> QED
    BY <1>1, <1>7, <1>8, <1>9, <1>10 DEF ContractInv

\* The state of the provider has its type: the counters of reservations never
\* fall below zero, whatever the order of the handlers and wherever the
\* process dies.
THEOREM TypeCorrect == Spec => []TypeOK
<1>1. ContractInv => TypeOK
    BY DEF ContractInv, DiskInv, TypeOK, CountersTypeOK
<1> QED
    BY <1>1, ContractInvInit, ContractInvStep, PTL DEF Spec

\* StorageReserved of each renter and of the provider is what the contracts
\* table holds, up to the negotiations between InsertContract and the counter.
THEOREM ReservationsAccounted == Spec => []ReservedAccountsForContracts
<1>1. ContractInv => ReservedAccountsForContracts
    BY DEF ContractInv
<1> QED
    BY <1>1, ContractInvInit, ContractInvStep, PTL DEF Spec

\* Negotiations that overlap between the check of SpaceAvail and the counter
\* promise too much, but at most one contract for each other handler beyond
\* the SpaceAvail the last of them was agreed for, however the owner raises
\* and lowers it.
THEOREM OvercommitIsBounded == Spec => []OvercommitBounded
<1>1. ASSUME ContractInv  PROVE  OvercommitBounded
  <2>1. JobType /\ totalReserved \in Nat /\ agreedSpace \in Int
    BY <1>1, ProviderAssumption DEF ContractInv, DiskInv, DiskTypeOK, JobType, CountersTypeOK
  <2>2. /\ SumFunctionOnSet(ledger, Renters) = totalReserved + Underway(job, {"signed"})
        /\ totalReserved + Underway(job, {"agreed", "signed"}) > 0 =>
              totalReserved + Underway(job, {"agreed", "signed"}) <= agreedSpace + Excess
    BY <1>1 DEF ContractInv, LedgerCounted, AgreedBounded
  <2>3. Excess \in Int
    BY SpacesBounded
  <2>4. SumFunctionOnSet(ledger, Renters) > 0 =>
          SumFunctionOnSet(ledger, Renters) <= agreedSpace + Excess
    BY <2>1, <2>2, <2>3, SignedAreAgreed
  <2> QED  BY <2>4 DEF OvercommitBounded, Excess
<1> QED
    BY <1>1, ContractInvInit, ContractInvStep, PTL DEF Spec

\* UpdateMeta publishes late and out of order, and never less than is free,
\* unless SpaceAvail was raised and the raise is not at the metaserver; then
\* no less than was free of what the metaserver was told of.
THEOREM AdvertisedSafely == Spec => []AdvertisedNeverBelowFree
<1>1. ASSUME ContractInv  PROVE  AdvertisedNeverBelowFree
  <2>1. /\ totalReserved \in Nat /\ spaceAvail \in Int
        /\ advertised.free \in Int /\ advertised.space \in Int
        /\ advertised.free >= advertised.space - totalReserved
    BY <1>1, ProviderAssumption DEF ContractInv, CountersTypeOK, Snapshot, SnapshotsLate, Late
  <2> QED  BY <2>1 DEF AdvertisedNeverBelowFree
<1> QED
    BY <1>1, ContractInvInit, ContractInvStep, PTL DEF Spec

-----------------------------------------------------------------------------
(***************************************************************************)
(* StorageUsed and the rows of the blocks that are sent once.              *)
(***************************************************************************)
\* A step of the handler of a block that leaves the other blocks alone.
LEMMA TrackWork ==
    ASSUME TrackInv, DiskInv, DiskInv', NEW c \in Clients, job[c].block \in Blocks,
           DiskElsewhere(job[c].block), OthersWait(c),
           job'[c] = Idle \/ SameRequest(c),
           Tracks(c)',
           \A b \in Blocks \ Shared : b = job[c].block =>
               rows'[b] \in {0, 1} /\ (rows'[b] = 1 => file'[b] \in {"whole", "nofile"})
    PROVE  TrackInv'
<1>0. NoBlock \notin Blocks /\ Idle.block = NoBlock
    BY ProviderAssumption DEF Idle
<1>1. \A d \in Clients : job'[d].block \in Blocks => job'[d].block = job[d].block
    BY <1>0 DEF OthersWait, Waits, SameRequest
<1>2. OneHandler'
    BY <1>1 DEF TrackInv, OneHandler
<1>3. ASSUME NEW d \in Clients \ {c}  PROVE  Tracks(d)'
  <2>1. SUFFICES ASSUME job[d].block \in Blocks \ Shared  PROVE  Tracks(d)'
    BY DEF Tracks, OthersWait, Waits
  <2>2. job[d].block # job[c].block
    BY <2>1 DEF TrackInv, OneHandler
  <2>3. Tracks(d)
    BY DEF TrackInv
  <2> QED  BY <2>1, <2>2, <2>3 DEF Tracks, OthersWait, Waits, DiskElsewhere, pc
<1>4. RowOfFile'
    BY DEF TrackInv, RowOfFile, DiskElsewhere
<1> QED
    BY <1>2, <1>3, <1>4 DEF TrackInv

\* A step of a handler that holds no block.
LEMMA TrackQuiet ==
    ASSUME TrackInv, DiskInv', NEW c \in Clients, job'[c].block = NoBlock, OthersWait(c),
           UNCHANGED <<file, rows>>
    PROVE  TrackInv'
<1>0. NoBlock \notin Blocks
    BY ProviderAssumption
<1>1. \A d \in Clients : job'[d].block \in Blocks => Waits(d)
    BY <1>0 DEF OthersWait
<1>2. OneHandler' /\ RowOfFile'
    BY <1>1 DEF TrackInv, OneHandler, RowOfFile, Waits
<1>3. ASSUME NEW d \in Clients  PROVE  Tracks(d)'
    BY <1>1 DEF TrackInv, Tracks, Waits, pc
<1> QED
    BY <1>2, <1>3 DEF TrackInv

\* A request begins for a block that no handler holds, unless it is in Shared.
LEMMA TrackStart ==
    ASSUME TrackInv, JobType, NEW c \in Clients, NEW b \in Blocks,
           NEW label \in {"checked", "statted"}, NEW n \in Nat,
           StartBlockJob(c, b, label, n), UNCHANGED <<file, rows>>,
           b \notin Shared => /\ InFlight(b) = {} /\ n = Size[b]
                              /\ label = "checked" => rows[b] = 0
                              /\ label = "statted" => rows[b] = 1 /\ file[b] = "whole"
    PROVE  TrackInv'
<1>0. /\ OthersWait(c) /\ job'[c].pc = label /\ job'[c].block = b /\ job'[c].amount = n
    BY StartMoves DEF Labels, StorePC, DeletePC
<1>1. b \notin Shared => \A d \in Clients : job[d].block # b
    BY DEF InFlight
<1>2. OneHandler'
  <2> SUFFICES ASSUME NEW d \in Clients, NEW e \in Clients, d # e,
                      job'[d].block \in Blocks \ Shared
               PROVE  job'[e].block # job'[d].block
    BY DEF OneHandler
  <2>1. CASE d # c /\ e # c
    <3>1. job'[d].block = job[d].block /\ job'[e].block = job[e].block
      BY <1>0, <2>1 DEF OthersWait, Waits
    <3> QED  BY <3>1 DEF TrackInv, OneHandler
  <2>2. CASE d = c
    BY <1>0, <1>1, <2>2 DEF OthersWait, Waits
  <2>3. CASE e = c
    BY <1>0, <1>1, <2>3 DEF OthersWait, Waits
  <2> QED  BY <2>1, <2>2, <2>3
<1>3. ASSUME NEW d \in Clients \ {c}  PROVE  Tracks(d)'
    BY <1>0 DEF TrackInv, Tracks, OthersWait, Waits, pc
<1>4. Tracks(c)'
    BY <1>0 DEF Tracks, pc
<1> QED
    BY <1>2, <1>3, <1>4 DEF TrackInv, RowOfFile

\* A step of a store or a delete past its check.
LEMMA TrackOn ==
    ASSUME TrackInv, DiskInv, DiskInv', NEW c \in Clients,
           \/ StoreCreate(c) \/ StoreCopy(c) \/ InsertBlock(c) \/ StoreCount(c)
           \/ DeleteRemove(c) \/ DeleteBlockById(c) \/ DeleteCount(c)
    PROVE  TrackInv'
<1> USE DEF disk, memory, config, meta
<1> DEFINE B == job[c].block
<1>1. JobType /\ rows \in [Blocks -> Nat] /\ file \in [Blocks -> FileState]
    BY DEF DiskInv, DiskTypeOK, JobType
<1>2. B \in Blocks
    BY DEF StoreCreate, StoreCopy, InsertBlock, StoreCount, DeleteRemove, DeleteBlockById,
       DeleteCount, At, pc, StorePC, DeletePC, DiskInv, JobsCarry, Carries
<1>3. DiskElsewhere(B)
    BY <1>1 DEF StoreCreate, StoreCopy, InsertBlock, StoreCount, DeleteRemove, DeleteBlockById,
       DeleteCount, DiskElsewhere
<1>4. Return(c) \/ \E label \in {"copying", "copied", "inserted", "removed", "unlisted"} :
                      Goto(c, label)
    BY DEF StoreCreate, StoreCopy, InsertBlock, StoreCount, DeleteRemove, DeleteBlockById,
       DeleteCount, Acknowledge
<1>5. {"copying", "copied", "inserted", "removed", "unlisted"} \subseteq Labels
    BY DEF Labels, StorePC, DeletePC
<1>6. OthersWait(c) /\ (job'[c] = Idle \/ SameRequest(c))
    BY <1>1, <1>4, <1>5, GotoMoves, ReturnMoves
<1>7. NoBlock \notin Blocks /\ Idle.block = NoBlock
    BY ProviderAssumption DEF Idle
<1>8. Clients \cap {"nofile", "torn", "whole"} = {}
    BY ProviderAssumption
<1>9. B \notin Shared =>
        /\ pc(c) \in {"checked", "copying", "copied", "unlisted"} => rows[B] = 0
        /\ pc(c) \in {"inserted", "statted", "removed"} => rows[B] = 1
        /\ pc(c) = "copying" => file[B] = c
        /\ pc(c) \in {"copied", "inserted", "statted"} => file[B] = "whole"
        /\ job[c].amount = Size[B]
        /\ rows[B] = 1 => file[B] \in {"whole", "nofile"}
  <2>1. Tracks(c)
    BY DEF TrackInv
  <2> QED  BY <1>2, <2>1 DEF Tracks, TrackInv, RowOfFile
<1>10. CASE Return(c)
  <2>1. job'[c] = Idle
    BY <1>1, <1>10, ReturnMoves
  <2>2. Tracks(c)'
    BY <1>7, <2>1 DEF Tracks
  <2>a. \A d \in Clients : ~(\E label \in Labels \ {"idle"} : job'[c].pc = label)
    BY <2>1 DEF Idle
  <2>b. ~Goto(c, "copying") /\ ~Goto(c, "copied") /\ ~Goto(c, "inserted")
        /\ ~Goto(c, "removed") /\ ~Goto(c, "unlisted")
    BY <1>1, <1>5, <2>1, GotoMoves DEF Idle
  <2>3. B \notin Shared =>
          rows'[B] \in {0, 1} /\ (rows'[B] = 1 => file'[B] \in {"whole", "nofile"})
    BY <1>1, <1>2, <1>9, <1>10, <2>b DEF StoreCreate, StoreCopy, InsertBlock, StoreCount, DeleteRemove,
       DeleteBlockById, DeleteCount, At, pc
  <2> QED
    BY <1>2, <1>3, <1>6, <2>2, <2>3, TrackWork
<1>11. CASE \E label \in {"copying", "copied", "inserted", "removed", "unlisted"} :
              Goto(c, label)
  <2>1. job'[c] # Idle /\ ~Return(c) /\ SameRequest(c)
    BY <1>1, <1>5, <1>6, <1>11, GotoMoves, ReturnMoves DEF Idle
  <2>2. \/ StoreCreate(c) /\ Goto(c, "copying") /\ job'[c].pc = "copying"
        \/ StoreCopy(c) /\ Goto(c, "copied") /\ job'[c].pc = "copied"
        \/ InsertBlock(c) /\ Goto(c, "inserted") /\ job'[c].pc = "inserted"
        \/ DeleteRemove(c) /\ Goto(c, "removed") /\ job'[c].pc = "removed"
        \/ DeleteBlockById(c) /\ Goto(c, "unlisted") /\ job'[c].pc = "unlisted"
    BY <1>1, <1>5, <2>1, GotoMoves DEF StoreCreate, StoreCopy, InsertBlock, StoreCount,
       DeleteRemove, DeleteBlockById, DeleteCount, Acknowledge
  <2>3. B \notin Shared =>
          /\ job'[c].pc \in {"checked", "copying", "copied", "unlisted"} => rows'[B] = 0
          /\ job'[c].pc \in {"inserted", "statted", "removed"} => rows'[B] = 1
          /\ job'[c].pc = "copying" => file'[B] = c
          /\ job'[c].pc \in {"copied", "inserted", "statted"} => file'[B] = "whole"
          /\ rows'[B] \in {0, 1} /\ (rows'[B] = 1 => file'[B] \in {"whole", "nofile"})
    BY <1>1, <1>2, <1>9, <2>1, <2>2 DEF StoreCreate, StoreCopy, InsertBlock,
       DeleteRemove, DeleteBlockById, At, pc
  <2>4. Tracks(c)'
    BY <1>9, <2>1, <2>3 DEF Tracks, SameRequest, pc
  <2> QED
    BY <1>2, <1>3, <1>6, <2>3, <2>4, TrackWork
<1> QED
    BY <1>4, <1>10, <1>11

\* Every step keeps what a handler's label says of its block.
LEMMA TrackStep == LedgerInv /\ TrackInv /\ [Next]_vars => TrackInv'
<1> SUFFICES ASSUME LedgerInv, TrackInv, [Next]_vars
             PROVE  TrackInv'
    OBVIOUS
<1> USE DEF disk, memory, config, meta
<1>0. DiskInv /\ DiskInv' /\ JobType
    BY DiskInvStep DEF LedgerInv, DiskInv, DiskTypeOK, JobType
<1>1. ASSUME NEW c \in Clients, NEW b \in Blocks, StoreCheck(c, b)  PROVE  TrackInv'
  <2>1. Size[b] \in Nat /\ StartBlockJob(c, b, "checked", Size[b])
    BY <1>1, ProviderAssumption DEF StoreCheck
  <2> QED  BY <1>0, <1>1, <2>1, TrackStart DEF StoreCheck
<1>2. ASSUME NEW c \in Clients, NEW b \in Blocks, DeleteStat(c, b)  PROVE  TrackInv'
  <2>1. PICK n \in 0..Size[b] : /\ file[b] = "whole" => n = Size[b]
                                /\ StartBlockJob(c, b, "statted", n)
    BY <1>2 DEF DeleteStat
  <2>2. n \in Nat
    BY <2>1, ProviderAssumption
  <2>3. b \notin Shared => rows[b] = 1 /\ file[b] = "whole" /\ InFlight(b) = {}
    BY <1>2 DEF DeleteStat, TrackInv, RowOfFile
  <2>4. UNCHANGED <<file, rows>>
    BY <1>2 DEF DeleteStat
  <2> QED  BY <1>0, <2>1, <2>2, <2>3, <2>4, TrackStart
<1>3. ASSUME NEW c \in Clients, NegotiateContract(c)  PROVE  TrackInv'
  <2>1. UNCHANGED <<file, rows>>
    BY <1>3 DEF NegotiateContract, NegotiateCheck, InsertContract, NegotiateCount
  <2>2. job[c].block = NoBlock
    BY <1>0, <1>3 DEF NegotiateContract, NegotiateCheck, InsertContract, NegotiateCount,
       At, pc, DiskInv, JobsCarry, Carries, StorePC, DeletePC
  <2>3. ASSUME NEW r \in Renters, NEW space \in Spaces, NegotiateCheck(c, r, space)
        PROVE  TrackInv'
    <3>1. /\ OthersWait(c)
          /\ job'[c] = [pc |-> "agreed", block |-> NoBlock, renter |-> r,
                        amount |-> space, alone |-> FALSE]
      BY <1>0, <2>3, AgreeMoves
    <3> QED  BY <1>0, <2>1, <3>1, TrackQuiet
  <2>4. CASE Return(c)
    BY <1>0, <2>1, <2>4, ReturnMoves, TrackQuiet DEF Idle
  <2>5. CASE \E label \in {"signed", "counted"} : Goto(c, label)
    <3>1. {"signed", "counted"} \subseteq Labels
      BY DEF Labels, NegotiatePC
    <3> QED  BY <1>0, <2>1, <2>2, <2>5, <3>1, GotoMoves, TrackQuiet DEF SameRequest
  <2> QED
    BY <1>3, <2>3, <2>4, <2>5 DEF NegotiateContract, InsertContract, NegotiateCount
<1>6. ASSUME NEW c \in Clients, Aside(c)  PROVE  TrackInv'
  <2>1. job'[c].block = NoBlock /\ OthersWait(c) /\ UNCHANGED <<file, rows>>
    BY <1>0, <1>6, AsideMoves DEF Unseen, OthersWait, Waits, Same
  <2> QED  BY <1>0, <2>1, TrackQuiet
<1>4. CASE Restart
  <2>1. \A d \in Clients : job'[d].block \notin Blocks
    BY <1>4, ProviderAssumption DEF Restart, Idle
  <2>2. rows' = rows /\ \A b \in Blocks : file[b] \in {"whole", "nofile"} => file'[b] = file[b]
    BY <1>4, ProviderAssumption DEF Restart
  <2>3. RowOfFile'
    BY <2>2 DEF TrackInv, RowOfFile
  <2> QED
    BY <2>1, <2>3 DEF TrackInv, Tracks, OneHandler
<1>5. CASE UNCHANGED vars
    BY <1>5 DEF vars, TrackInv, Tracks, OneHandler, RowOfFile, pc
<1> QED
    BY <1>0, <1>1, <1>2, <1>3, <1>4, <1>5, <1>6, TrackOn DEF Next, StoreBlock, DeleteBlock, Aside

(***************************************************************************)
(* The balance of a renter: what its counter will be once the requests     *)
(* that stand between the database and the counter are through.            *)
(***************************************************************************)
Balanced(r) ==
    used[r] + Pending(r, "inserted") - Pending(r, "unlisted") = RowBytes(r, Blocks)

\* What block b adds to the row bytes of r.
Listed(table, b, r) == IF Owner[b] = r THEN table[b] * Size[b] ELSE 0

\* When the rows of one block change, the row bytes change by its own.
LEMMA RowBytesMoves ==
    ASSUME rows \in [Blocks -> Nat], rows' \in [Blocks -> Nat], NEW b \in Blocks,
           DiskElsewhere(b), NEW r
    PROVE  /\ RowBytes(r, Blocks)' = RowBytes(r, Blocks) - Listed(rows, b, r)
                                                         + Listed(rows', b, r)
           /\ RowBytes(r, Blocks) \in Nat /\ RowBytes(r, Blocks)' \in Nat
<1> DEFINE f == [x \in Blocks |-> rows[x] * Size[x]]
           g == [x \in Blocks |-> rows'[x] * Size[x]]
           T == {x \in Blocks : Owner[x] = r}
<1>1. IsFiniteSet(T) /\ T \subseteq Blocks
    BY ProviderAssumption, FS_Subset
<1>2. \A x \in Blocks : f[x] \in Nat /\ g[x] \in Nat
  <2>1. \A x \in Blocks : rows[x] \in Nat /\ rows'[x] \in Nat /\ Size[x] \in Nat
    BY ProviderAssumption
  <2>2. \A m, n \in Nat : m * n \in Nat
    OBVIOUS
  <2> QED  BY <2>1, <2>2
<1>3. \A x \in T \ {b} : g[x] = f[x]
    BY <1>1 DEF DiskElsewhere
<1>4. RowBytes(r, Blocks) = SumFunctionOnSet(f, T) /\ RowBytes(r, Blocks)' = SumFunctionOnSet(g, T)
    BY DEF RowBytes
<1>5. f[b] = rows[b] * Size[b] /\ g[b] = rows'[b] * Size[b] /\ (b \in T <=> Owner[b] = r)
    OBVIOUS
<1> HIDE DEF f, g, T
<1>6. SumFunctionOnSet(f, T) \in Nat /\ SumFunctionOnSet(g, T) \in Nat
    BY <1>1, <1>2, SumType
<1>7. CASE b \in T
  <2>1. SumFunctionOnSet(g, T) = SumFunctionOnSet(f, T) - f[b] + g[b]
    BY <1>1, <1>2, <1>3, <1>7, SumChanges
  <2>2. Listed(rows, b, r) = f[b] /\ Listed(rows', b, r) = g[b]
    BY <1>5, <1>7 DEF Listed
  <2> QED  BY <1>4, <1>6, <2>1, <2>2
<1>8. CASE b \notin T
  <2>1. \A x \in T : g[x] = f[x]
    BY <1>3, <1>8
  <2>2. SumFunctionOnSet(g, T) = SumFunctionOnSet(f, T)
    BY <1>1, <2>1, SumAgrees
  <2>3. Listed(rows, b, r) = 0 /\ Listed(rows', b, r) = 0
    BY <1>5, <1>8 DEF Listed
  <2> QED  BY <1>4, <1>6, <2>2, <2>3
<1> QED
    BY <1>7, <1>8

\* What one handler adds to the balance before and after its step decides.
LEMMA BalanceMoves ==
    ASSUME JobType, JobType', NEW c \in Clients, OthersWait(c), NEW r \in Renters,
           used[r] \in Int, used'[r] \in Int,
           RowBytes(r, Blocks) \in Nat, RowBytes(r, Blocks)' \in Nat,
           used'[r] + Share(job', c, r, "inserted") - Share(job', c, r, "unlisted")
               - RowBytes(r, Blocks)'
             = used[r] + Share(job, c, r, "inserted") - Share(job, c, r, "unlisted")
               - RowBytes(r, Blocks),
           Balanced(r)
    PROVE  Balanced(r)'
<1>1. /\ Pending(r, "inserted")' = Pending(r, "inserted") - Share(job, c, r, "inserted")
                                      + Share(job', c, r, "inserted")
      /\ Pending(r, "inserted") \in Nat
    BY PendingMoves
<1>2. /\ Pending(r, "unlisted")' = Pending(r, "unlisted") - Share(job, c, r, "unlisted")
                                      + Share(job', c, r, "unlisted")
      /\ Pending(r, "unlisted") \in Nat
    BY PendingMoves
<1>3. /\ Share(job, c, r, "inserted") \in Nat /\ Share(job', c, r, "inserted") \in Nat
      /\ Share(job, c, r, "unlisted") \in Nat /\ Share(job', c, r, "unlisted") \in Nat
    BY DEF Share, JobType, Job
<1>4. used[r] + Pending(r, "inserted") - Pending(r, "unlisted") = RowBytes(r, Blocks)
    BY DEF Balanced
<1> HIDE DEF Share
<1>5. used'[r] + Pending(r, "inserted")' - Pending(r, "unlisted")' = RowBytes(r, Blocks)'
    BY <1>1, <1>2, <1>3, <1>4
<1> QED
    BY <1>5 DEF Balanced

\* A step of a store or a delete past its check keeps the balance of a renter
\* whose blocks are sent once.
LEMMA BalanceOn ==
    ASSUME TrackInv, DiskInv, DiskInv', used \in [Renters -> Int], NEW c \in Clients,
           \/ StoreCreate(c) \/ StoreCopy(c) \/ InsertBlock(c) \/ StoreCount(c)
           \/ DeleteRemove(c) \/ DeleteBlockById(c) \/ DeleteCount(c),
           NEW r \in Renters, \A b \in Shared : Owner[b] # r, Balanced(r)
    PROVE  Balanced(r)' /\ used' \in [Renters -> Int]
<1> USE DEF disk, memory, config, meta
<1> DEFINE B == job[c].block
<1>1. /\ JobType /\ JobType' /\ rows \in [Blocks -> Nat] /\ rows' \in [Blocks -> Nat]
      /\ job[c].amount \in Nat
    BY DEF DiskInv, DiskTypeOK, JobType, Job
<1>2. B \in Blocks /\ job[c].renter = Owner[B] /\ Owner[B] \in Renters
    BY ProviderAssumption DEF StoreCreate, StoreCopy, InsertBlock, StoreCount, DeleteRemove,
       DeleteBlockById, DeleteCount, At, pc, StorePC, DeletePC, DiskInv, JobsCarry, Carries
<1>3. DiskElsewhere(B)
    BY <1>1, <1>2 DEF StoreCreate, StoreCopy, InsertBlock, StoreCount, DeleteRemove, DeleteBlockById,
       DeleteCount, DiskElsewhere, DiskInv, DiskTypeOK
<1>4. /\ RowBytes(r, Blocks)' = RowBytes(r, Blocks) - Listed(rows, B, r) + Listed(rows', B, r)
      /\ RowBytes(r, Blocks) \in Nat /\ RowBytes(r, Blocks)' \in Nat
    BY <1>1, <1>2, <1>3, RowBytesMoves
<1>5. Size[B] \in Nat /\ Size[B] * 1 = Size[B] /\ 1 * Size[B] = Size[B] /\ 0 * Size[B] = 0
    BY <1>2, ProviderAssumption
<1>6. ASSUME Owner[B] = r
      PROVE  /\ pc(c) \in {"checked", "copying", "copied", "unlisted"} => rows[B] = 0
             /\ pc(c) \in {"inserted", "statted", "removed"} => rows[B] = 1
             /\ job[c].amount = Size[B]
  <2>1. Tracks(c) /\ B \notin Shared
    BY <1>6 DEF TrackInv
  <2> QED  BY <1>2, <2>1 DEF Tracks
<1>7. used' \in [Renters -> Int]
    BY <1>1 DEF StoreCreate, StoreCopy, InsertBlock, StoreCount, DeleteRemove, DeleteBlockById,
       DeleteCount
<1>m. Listed(rows, B, r) \in Nat /\ Listed(rows', B, r) \in Nat
  <2>1. \A m, n \in Nat : m * n \in Nat
    OBVIOUS
  <2> QED  BY <1>1, <1>2, <1>5, <2>1 DEF Listed
<1>8. ASSUME OthersWait(c),
             used'[r] + Share(job', c, r, "inserted") - Share(job', c, r, "unlisted")
                 - Listed(rows', B, r)
               = used[r] + Share(job, c, r, "inserted") - Share(job, c, r, "unlisted")
                 - Listed(rows, B, r)
      PROVE  Balanced(r)'
  <2>1. used[r] \in Int /\ used'[r] \in Int
    BY <1>7
  <2>2. /\ Share(job, c, r, "inserted") \in Nat /\ Share(job', c, r, "inserted") \in Nat
        /\ Share(job, c, r, "unlisted") \in Nat /\ Share(job', c, r, "unlisted") \in Nat
    BY <1>1 DEF Share, JobType, Job
  <2> DEFINE x == used[r] + Share(job, c, r, "inserted") - Share(job, c, r, "unlisted")
             y == used'[r] + Share(job', c, r, "inserted") - Share(job', c, r, "unlisted")
  <2>3. x \in Int /\ y \in Int /\ y - Listed(rows', B, r) = x - Listed(rows, B, r)
    BY <1>8, <1>m, <2>1, <2>2
  <2> HIDE DEF x, y
  <2>b. y - RowBytes(r, Blocks)' = x - RowBytes(r, Blocks)
    BY <1>4, <1>m, <2>3
  <2>4. used'[r] + Share(job', c, r, "inserted") - Share(job', c, r, "unlisted")
            - RowBytes(r, Blocks)'
          = used[r] + Share(job, c, r, "inserted") - Share(job, c, r, "unlisted")
            - RowBytes(r, Blocks)
    BY <1>4, <2>1, <2>2, <2>b DEF x, y
  <2> QED  BY <1>1, <1>4, <1>8, <2>1, <2>4, BalanceMoves
<1>l. {"copying", "copied", "inserted", "removed", "unlisted"} \subseteq Labels
    BY DEF Labels, StorePC, DeletePC
<1>9. ASSUME Return(c), rows' = rows, used' = used, job[c].pc \notin {"inserted", "unlisted"}
      PROVE  Balanced(r)'
  <2>1. OthersWait(c) /\ job'[c] = Idle
    BY <1>1, <1>9, ReturnMoves
  <2>2. /\ Share(job, c, r, "inserted") = 0 /\ Share(job', c, r, "inserted") = 0
        /\ Share(job, c, r, "unlisted") = 0 /\ Share(job', c, r, "unlisted") = 0
    BY <1>9, <2>1 DEF Share, Idle
  <2> QED  BY <1>8, <1>9, <2>1, <2>2
<1>10. ASSUME NEW label \in {"copying", "copied", "removed"}, Goto(c, label), rows' = rows,
              used' = used, job[c].pc \notin {"inserted", "unlisted"}
       PROVE  Balanced(r)'
  <2>1. OthersWait(c) /\ job'[c].pc = label
    BY <1>1, <1>l, <1>10, GotoMoves
  <2>2. /\ Share(job, c, r, "inserted") = 0 /\ Share(job', c, r, "inserted") = 0
        /\ Share(job, c, r, "unlisted") = 0 /\ Share(job', c, r, "unlisted") = 0
    BY <1>10, <2>1 DEF Share
  <2> QED  BY <1>8, <1>10, <2>1, <2>2
<1>11. CASE StoreCreate(c) \/ StoreCopy(c) \/ DeleteRemove(c)
  <2>1. rows' = rows /\ used' = used /\ job[c].pc \notin {"inserted", "unlisted"}
    BY <1>11 DEF StoreCreate, StoreCopy, DeleteRemove, At
  <2> QED  BY <1>9, <1>10, <1>11, <2>1 DEF StoreCreate, StoreCopy, DeleteRemove
<1>12. CASE InsertBlock(c)
  <2>1. job[c].pc = "copied" /\ used' = used
    BY <1>12 DEF InsertBlock, At
  <2>2. CASE Return(c) /\ rows' = rows
    BY <1>9, <2>1, <2>2
  <2>3. CASE Goto(c, "inserted") /\ rows' = [rows EXCEPT ![B] = @ + 1]
    <3>1. OthersWait(c) /\ job'[c].pc = "inserted" /\ SameRequest(c)
      BY <1>1, <1>l, <2>3, GotoMoves
    <3>2. /\ Share(job, c, r, "inserted") = 0 /\ Share(job, c, r, "unlisted") = 0
          /\ Share(job', c, r, "unlisted") = 0
          /\ Share(job', c, r, "inserted") = IF Owner[B] = r THEN job[c].amount ELSE 0
      BY <1>2, <2>1, <3>1 DEF Share, SameRequest
    <3>3. CASE Owner[B] = r
      <4>1. rows[B] = 0 /\ rows'[B] = 1 /\ job[c].amount = Size[B]
        BY <1>1, <1>2, <1>6, <2>1, <2>3, <3>3 DEF pc
      <4>2. Listed(rows, B, r) = 0 /\ Listed(rows', B, r) = Size[B]
        BY <1>5, <3>3, <4>1 DEF Listed
      <4> QED  BY <1>5, <1>8, <2>1, <3>1, <3>2, <3>3, <4>1, <4>2
    <3>4. CASE Owner[B] # r
      <4>1. Listed(rows, B, r) = 0 /\ Listed(rows', B, r) = 0
        BY <3>4 DEF Listed
      <4> QED  BY <1>8, <2>1, <3>1, <3>2, <3>4, <4>1
    <3> QED  BY <3>3, <3>4
  <2> QED  BY <1>12, <2>2, <2>3 DEF InsertBlock
<1>13. CASE DeleteBlockById(c)
  <2>1. job[c].pc = "removed" /\ used' = used
    BY <1>13 DEF DeleteBlockById, At
  <2>2. CASE Return(c) /\ rows' = rows
    BY <1>9, <2>1, <2>2
  <2>3. CASE Goto(c, "unlisted") /\ rows' = [rows EXCEPT ![B] = 0]
    <3>1. OthersWait(c) /\ job'[c].pc = "unlisted" /\ SameRequest(c)
      BY <1>1, <1>l, <2>3, GotoMoves
    <3>2. /\ Share(job, c, r, "inserted") = 0 /\ Share(job, c, r, "unlisted") = 0
          /\ Share(job', c, r, "inserted") = 0
          /\ Share(job', c, r, "unlisted") = IF Owner[B] = r THEN job[c].amount ELSE 0
      BY <1>2, <2>1, <3>1 DEF Share, SameRequest
    <3>3. CASE Owner[B] = r
      <4>1. rows[B] = 1 /\ rows'[B] = 0 /\ job[c].amount = Size[B]
        BY <1>1, <1>2, <1>6, <2>1, <2>3, <3>3 DEF pc
      <4>2. Listed(rows, B, r) = Size[B] /\ Listed(rows', B, r) = 0
        BY <1>5, <3>3, <4>1 DEF Listed
      <4> QED  BY <1>5, <1>8, <2>1, <3>1, <3>2, <3>3, <4>1, <4>2
    <3>4. CASE Owner[B] # r
      <4>1. Listed(rows, B, r) = 0 /\ Listed(rows', B, r) = 0
        BY <3>4 DEF Listed
      <4> QED  BY <1>8, <2>1, <3>1, <3>2, <3>4, <4>1
    <3> QED  BY <3>3, <3>4
  <2> QED  BY <1>13, <2>2, <2>3 DEF DeleteBlockById
<1>14. CASE StoreCount(c)
  <2>1. /\ job[c].pc = "inserted" /\ Return(c) /\ rows' = rows
        /\ used' = [used EXCEPT ![job[c].renter] = @ + job[c].amount]
    BY <1>14 DEF StoreCount, Acknowledge, At
  <2>2. OthersWait(c) /\ job'[c] = Idle
    BY <1>1, <2>1, ReturnMoves
  <2>3. /\ Share(job', c, r, "inserted") = 0 /\ Share(job', c, r, "unlisted") = 0
        /\ Share(job, c, r, "unlisted") = 0
        /\ Share(job, c, r, "inserted") = IF Owner[B] = r THEN job[c].amount ELSE 0
    BY <1>2, <2>1, <2>2 DEF Share, Idle
  <2>4. used'[r] = used[r] + (IF Owner[B] = r THEN job[c].amount ELSE 0) /\ used[r] \in Int
    BY <1>1, <1>2, <2>1
  <2>5. Listed(rows', B, r) = Listed(rows, B, r)
    BY <2>1
  <2>6. used'[r] + Share(job', c, r, "inserted") - Share(job', c, r, "unlisted")
            - Listed(rows', B, r)
          = used[r] + Share(job, c, r, "inserted") - Share(job, c, r, "unlisted")
            - Listed(rows, B, r)
    <3>1. CASE Owner[B] = r
      BY <1>1, <1>m, <2>3, <2>4, <2>5, <3>1
    <3>2. CASE Owner[B] # r
      BY <1>1, <1>m, <2>3, <2>4, <2>5, <3>2
    <3> QED  BY <3>1, <3>2
  <2> QED  BY <1>7, <1>8, <2>2, <2>6
<1>15. CASE DeleteCount(c)
  <2>1. /\ job[c].pc = "unlisted" /\ Return(c) /\ rows' = rows
        /\ used' = [used EXCEPT ![job[c].renter] = @ - job[c].amount]
    BY <1>15 DEF DeleteCount, Acknowledge, At
  <2>2. OthersWait(c) /\ job'[c] = Idle
    BY <1>1, <2>1, ReturnMoves
  <2>3. /\ Share(job', c, r, "inserted") = 0 /\ Share(job', c, r, "unlisted") = 0
        /\ Share(job, c, r, "inserted") = 0
        /\ Share(job, c, r, "unlisted") = IF Owner[B] = r THEN job[c].amount ELSE 0
    BY <1>2, <2>1, <2>2 DEF Share, Idle
  <2>4. used'[r] = used[r] - (IF Owner[B] = r THEN job[c].amount ELSE 0) /\ used[r] \in Int
    BY <1>1, <1>2, <2>1
  <2>5. Listed(rows', B, r) = Listed(rows, B, r)
    BY <2>1
  <2>6. used'[r] + Share(job', c, r, "inserted") - Share(job', c, r, "unlisted")
            - Listed(rows', B, r)
          = used[r] + Share(job, c, r, "inserted") - Share(job, c, r, "unlisted")
            - Listed(rows, B, r)
    <3>1. CASE Owner[B] = r
      BY <1>1, <1>m, <2>3, <2>4, <2>5, <3>1
    <3>2. CASE Owner[B] # r
      BY <1>1, <1>m, <2>3, <2>4, <2>5, <3>2
    <3> QED  BY <3>1, <3>2
  <2> QED  BY <1>7, <1>8, <2>2, <2>6
<1> QED
    BY <1>7, <1>11, <1>12, <1>13, <1>14, <1>15

\* A step that touches no row, no counter of bytes and no request past its
\* check keeps every balance.
LEMMA BalanceAway ==
    ASSUME DiskInv, DiskInv', NEW c \in Clients, OthersWait(c), rows' = rows,
           used \in [Renters -> Int], used' = used,
           job[c].pc \notin {"inserted", "unlisted"},
           job'[c].pc \notin {"inserted", "unlisted"},
           NEW r \in Renters, Balanced(r)
    PROVE  Balanced(r)'
<1>1. JobType /\ JobType' /\ rows \in [Blocks -> Nat]
    BY DEF DiskInv, DiskTypeOK, JobType
<1>2. /\ Share(job, c, r, "inserted") = 0 /\ Share(job', c, r, "inserted") = 0
      /\ Share(job, c, r, "unlisted") = 0 /\ Share(job', c, r, "unlisted") = 0
    BY DEF Share
<1>3. RowBytes(r, Blocks)' = RowBytes(r, Blocks) /\ RowBytes(r, Blocks) \in Nat
    BY <1>1, RowBytesType DEF RowBytes
<1>4. used[r] \in Int /\ used'[r] = used[r]
    OBVIOUS
<1> QED
    BY <1>1, <1>2, <1>3, <1>4, BalanceMoves

\* UsedInv is inductive: a restart finds a contract for every row, and so
\* counts them all; the requests it ends are not in the counter.
LEMMA UsedInvStep == UsedInv /\ [Next]_vars => UsedInv'
<1> SUFFICES ASSUME UsedInv, [Next]_vars
             PROVE  UsedInv'
    OBVIOUS
<1> USE DEF disk, memory, config, meta
<1>0. /\ DiskInv /\ DiskInv' /\ JobType /\ JobType' /\ LedgerInv' /\ TrackInv /\ TrackInv'
      /\ used \in [Renters -> Int] /\ rows \in [Blocks -> Nat] /\ rows' \in [Blocks -> Nat]
    BY DiskInvStep, LedgerInvStep, TrackStep
       DEF UsedInv, LedgerInv, DiskInv, DiskTypeOK, JobType
<1>1. SUFFICES used' \in [Renters -> Int]
               /\ \A r \in Renters : (\A b \in Shared : Owner[b] # r) => Balanced(r)'
    BY <1>0 DEF UsedInv, UsedAccountsForRows, Balanced
<1>2. \A r \in Renters : (\A b \in Shared : Owner[b] # r) => Balanced(r)
    BY DEF UsedInv, UsedAccountsForRows, Balanced
<1>3. ASSUME NEW c \in Clients,
             \/ StoreCreate(c) \/ StoreCopy(c) \/ InsertBlock(c) \/ StoreCount(c)
             \/ DeleteRemove(c) \/ DeleteBlockById(c) \/ DeleteCount(c)
      PROVE  used' \in [Renters -> Int]
             /\ \A r \in Renters : (\A b \in Shared : Owner[b] # r) => Balanced(r)'
  <2>1. used' \in [Renters -> Int]
    BY <1>0, <1>3 DEF StoreCreate, StoreCopy, InsertBlock, StoreCount, DeleteRemove,
       DeleteBlockById, DeleteCount, JobType, Job
  <2> QED  BY <1>0, <1>2, <1>3, <2>1, BalanceOn
<1>4. ASSUME NEW c \in Clients, OthersWait(c), rows' = rows, used' = used,
             job[c].pc \notin {"inserted", "unlisted"},
             job'[c].pc \notin {"inserted", "unlisted"}
      PROVE  used' \in [Renters -> Int]
             /\ \A r \in Renters : (\A b \in Shared : Owner[b] # r) => Balanced(r)'
    BY <1>0, <1>2, <1>4, BalanceAway
<1>5. ASSUME NEW c \in Clients, NEW b \in Blocks, StoreCheck(c, b) \/ DeleteStat(c, b)
      PROVE  used' \in [Renters -> Int]
             /\ \A r \in Renters : (\A x \in Shared : Owner[x] # r) => Balanced(r)'
  <2>1. rows' = rows /\ used' = used /\ job[c].pc = "idle"
    BY <1>5 DEF StoreCheck, DeleteStat, At
  <2>2. PICK n \in Nat, label \in {"checked", "statted"} : StartBlockJob(c, b, label, n)
    <3>1. Size[b] \in Nat /\ \A n \in 0..Size[b] : n \in Nat
      BY ProviderAssumption
    <3> QED  BY <1>5, <3>1 DEF StoreCheck, DeleteStat
  <2>3. label \in Labels
    BY DEF Labels, StorePC, DeletePC
  <2>4. OthersWait(c) /\ job'[c].pc = label
    BY <1>0, <2>2, <2>3, StartMoves
  <2> QED  BY <1>4, <2>1, <2>4
<1>6. ASSUME NEW c \in Clients, NegotiateContract(c)
      PROVE  used' \in [Renters -> Int]
             /\ \A r \in Renters : (\A b \in Shared : Owner[b] # r) => Balanced(r)'
  <2>1. rows' = rows /\ used' = used /\ job[c].pc \notin {"inserted", "unlisted"}
    BY <1>6 DEF NegotiateContract, NegotiateCheck, InsertContract, NegotiateCount, At
  <2>2. ASSUME NEW r \in Renters, NEW space \in Spaces, NegotiateCheck(c, r, space)
        PROVE  OthersWait(c) /\ job'[c].pc \notin {"inserted", "unlisted"}
    <3>1. /\ OthersWait(c)
          /\ job'[c] = [pc |-> "agreed", block |-> NoBlock, renter |-> r,
                        amount |-> space, alone |-> FALSE]
      BY <1>0, <2>2, AgreeMoves
    <3> QED  BY <3>1
  <2>3. ASSUME Return(c)
        PROVE  OthersWait(c) /\ job'[c].pc \notin {"inserted", "unlisted"}
    BY <1>0, <2>3, ReturnMoves DEF Idle
  <2>4. ASSUME NEW label \in {"signed", "counted"}, Goto(c, label)
        PROVE  OthersWait(c) /\ job'[c].pc \notin {"inserted", "unlisted"}
    <3>1. label \in Labels
      BY DEF Labels, NegotiatePC
    <3> QED  BY <1>0, <2>4, <3>1, GotoMoves
  <2>5. OthersWait(c) /\ job'[c].pc \notin {"inserted", "unlisted"}
    BY <1>6, <2>2, <2>3, <2>4 DEF NegotiateContract, InsertContract, NegotiateCount
  <2> QED  BY <1>4, <2>1, <2>5
<1>9. ASSUME NEW c \in Clients, Aside(c)
      PROVE  used' \in [Renters -> Int]
             /\ \A r \in Renters : (\A b \in Shared : Owner[b] # r) => Balanced(r)'
  <2>1. /\ OthersWait(c) /\ rows' = rows /\ used' = used
        /\ job[c].pc \in OffPC /\ job'[c].pc \in OffPC
    BY <1>0, <1>9, AsideMoves DEF Unseen, OthersWait, Waits, Same
  <2>2. OffPC \cap {"inserted", "unlisted"} = {}
    BY DEF OffPC, ConfigPC
  <2> QED  BY <1>4, <2>1, <2>2
<1>7. CASE Restart
  <2>1. \A c \in Clients : job'[c] = Idle
    BY <1>7 DEF Restart
  <2>2. rows' = rows /\ known' = {r \in Renters : ledger[r] > 0}
    BY <1>7 DEF Restart
  <2>3. {b \in Blocks : rows[b] > 0 /\ Owner[b] \notin known'} = {}
    BY <2>2, ProviderAssumption DEF UsedInv, LedgerInv, NoOrphanRows
  <2>4. used' = [r \in Renters |-> RowBytes(r, Blocks)]
    BY <1>7, <2>3 DEF Restart
  <2>5. \A r \in Renters : RowBytes(r, Blocks) \in Nat
    BY <1>0, RowBytesType
  <2>6. ASSUME NEW r \in Renters  PROVE  Balanced(r)'
    <3>1. Pending(r, "inserted")' = 0 /\ Pending(r, "unlisted")' = 0
      <4>1. "inserted" # "idle" /\ "unlisted" # "idle" /\ "idle" \notin {"signed"}
        OBVIOUS
      <4> QED  BY <1>0, <2>1, <4>1, NothingUnderway
    <3>2. RowBytes(r, Blocks)' = RowBytes(r, Blocks)
      BY <2>2 DEF RowBytes
    <3>3. used'[r] = RowBytes(r, Blocks)
      BY <2>4
    <3> QED  BY <2>5, <3>1, <3>2, <3>3 DEF Balanced
  <2> QED  BY <2>4, <2>5, <2>6
<1>8. CASE UNCHANGED vars
  <2>1. \A r \in Renters : Balanced(r)' <=> Balanced(r)
    BY <1>8 DEF vars, Balanced, Pending, RowBytes
  <2> QED  BY <1>0, <1>2, <1>8, <2>1 DEF vars
<1> QED
    BY <1>3, <1>5, <1>6, <1>7, <1>8, <1>9 DEF Next, StoreBlock, DeleteBlock, Aside

\* A provider that starts with nothing has used nothing.
LEMMA UsedInvInit == Init => UsedInv
<1> SUFFICES ASSUME Init  PROVE  UsedInv
    OBVIOUS
<1>1. DiskInv
  BY IdleJob DEF Init, DiskInv, DiskTypeOK, FileState, JobsCarry, Carries,
     Idle, pc, StorePC, DeletePC, NegotiatePC
<1>2. LedgerInv
  BY <1>1 DEF Init, LedgerInv, ContractFirst, Signed, NoOrphanRows, Idle, pc, StorePC
<1>3. TrackInv
  BY ProviderAssumption DEF Init, TrackInv, Tracks, OneHandler, RowOfFile, Idle, pc
<1>4. JobType /\ \A c \in Clients : job[c] = Idle
  BY <1>1 DEF Init, DiskInv, DiskTypeOK, JobType
<1>5. ASSUME NEW r \in Renters  PROVE  Balanced(r)
  <2>1. ASSUME NEW label, label # "idle"  PROVE  Pending(r, label) = 0
    <3>1. \A c \in Clients : [d \in Clients |-> Share(job, d, r, label)][c] = 0
      BY <1>4, <2>1 DEF Share, Idle
    <3>2. Pending(r, label) = Shares(job, r, label)
      BY <1>4, PendingIsShares DEF Pending, JobType
    <3> QED  BY <3>1, <3>2, ProviderAssumption, SumOfZeros DEF Shares
  <2>2. RowBytes(r, Blocks) = 0
    <3>1. \A b \in Blocks : rows[b] * Size[b] = 0
      BY ProviderAssumption DEF Init
    <3>2. IsFiniteSet({b \in Blocks : Owner[b] = r})
      BY ProviderAssumption, FS_Subset
    <3>3. \A b \in {x \in Blocks : Owner[x] = r} :
             [x \in Blocks |-> rows[x] * Size[x]][b] = 0
      BY <3>1
    <3> QED  BY <3>2, <3>3, SumOfZeros DEF RowBytes
  <2>3. used[r] = 0
    BY  DEF Init
  <2>4. Pending(r, "inserted") = 0 /\ Pending(r, "unlisted") = 0
    BY <2>1
  <2> QED  BY <2>2, <2>3, <2>4 DEF Balanced
<1> QED  BY <1>2, <1>3, <1>5 DEF Init, UsedInv, UsedAccountsForRows, Balanced

\* StorageUsed of a renter whose blocks are sent once is the bytes of its
\* rows, up to the requests between the database and the counter: the order
\* of StoreBlock, DeleteBlock, negotiations and restarts never lets it drift.
THEOREM UsedAccounted == Spec => []UsedAccountsForRows
<1>2. UsedInv => UsedAccountsForRows
    BY DEF UsedInv
<1>3. QED
    BY <1>2, UsedInvInit, UsedInvStep, PTL DEF Spec

-----------------------------------------------------------------------------
(***************************************************************************)
(* What a renter can fill: the bytes counted, with those of the stores     *)
(* past their check, fit what is reserved, up to one block for each other  *)
(* handler.                                                                *)
(***************************************************************************)
\* The renter has blocks, and each is sent once.
SendsOnce(r) ==
    /\ \E b \in Blocks : Owner[b] = r
    /\ \A b \in Shared : Owner[b] # r

\* The bytes of a store of r past its check.
Fill(j, c, r) == IF j[c].renter = r /\ j[c].pc \in StorePC THEN j[c].amount ELSE 0

\* Their sum over the handlers.
Filling(j, r) == SumFunctionOnSet([c \in Clients |-> Fill(j, c, r)], Clients)

\* The largest block, and one of them for each handler but one.
Largest == Max({Size[b] : b \in Blocks})
Overlap == (Cardinality(Clients) - 1) * Largest

Filled(r) == used[r] + Filling(job, r) <= reserved[r] + Overlap

\* The inductive invariant of what a renter can fill.
FillInv == UsedInv /\ ContractInv /\ \A r \in Renters : SendsOnce(r) => Filled(r)

\* No block is larger than the largest, and there is room for one or more.
LEMMA SizesBounded ==
    ASSUME NEW r, SendsOnce(r)
    PROVE  /\ Largest \in Nat /\ Overlap \in Nat
           /\ \A b \in Blocks : Size[b] <= Largest
<1> DEFINE S == {Size[b] : b \in Blocks}
<1>1. IsFiniteSet(S) /\ S \subseteq Nat /\ S \subseteq Int /\ S # {}
  <2>1. Size \in [Blocks -> Nat] /\ IsFiniteSet(Blocks) /\ Blocks # {}
    BY ProviderAssumption DEF SendsOnce
  <2>2. Size \in Surjection(Blocks, S)
    BY <2>1 DEF Surjection
  <2>3. IsFiniteSet(S)
    BY <2>1, <2>2, FS_Surjection
  <2> QED  BY <2>1, <2>3
<1>2. \A b \in Blocks : Size[b] \in S
    OBVIOUS
<1>3. Largest = Max(S)
    BY DEF Largest
<1> HIDE DEF S
<1>4. Max(S) \in S /\ \A y \in S : y <= Max(S)
    BY <1>1, MaxExists
<1>5. Largest \in Nat /\ \A b \in Blocks : Size[b] <= Largest
    BY <1>1, <1>2, <1>3, <1>4
<1>6. Overlap \in Nat
  <2>1. \A m, n \in Nat : m * n \in Nat
    OBVIOUS
  <2> QED  BY <1>5, <2>1, SpacesBounded DEF Overlap
<1> QED
    BY <1>5, <1>6

\* When one handler moves, what is being filled changes by its own.
LEMMA FillMoves ==
    ASSUME JobType, JobType', NEW c \in Clients, OthersWait(c), NEW r
    PROVE  /\ Filling(job', r) = Filling(job, r) - Fill(job, c, r) + Fill(job', c, r)
           /\ Filling(job, r) \in Nat /\ Fill(job, c, r) \in Nat /\ Fill(job', c, r) \in Nat
<1> DEFINE f == [d \in Clients |-> Fill(job, d, r)]
           g == [d \in Clients |-> Fill(job', d, r)]
<1>1. Filling(job, r) = SumFunctionOnSet(f, Clients)
      /\ Filling(job', r) = SumFunctionOnSet(g, Clients)
    BY DEF Filling
<1>2. \A d \in Clients : f[d] \in Nat /\ g[d] \in Nat
    BY DEF Fill, Job, JobType
<1>3. \A d \in Clients \ {c} : g[d] = f[d]
    BY DEF Fill, OthersWait, Waits
<1>4. f[c] = Fill(job, c, r) /\ g[c] = Fill(job', c, r)
    OBVIOUS
<1>5. IsFiniteSet(Clients)
    BY ProviderAssumption
<1> HIDE DEF f, g
<1>6. SumFunctionOnSet(g, Clients) = SumFunctionOnSet(f, Clients) - f[c] + g[c]
    BY <1>2, <1>3, <1>5, SumChanges
<1>7. SumFunctionOnSet(f, Clients) \in Nat
    BY <1>2, <1>5, SumType
<1> QED
    BY <1>1, <1>2, <1>4, <1>6, <1>7

\* A handler past the check of a store fills one block at most.
LEMMA FillsOne ==
    ASSUME DiskInv, TrackInv, NEW d \in Clients, NEW r, SendsOnce(r)
    PROVE  Fill(job, d, r) <= Largest
<1>1. CASE job[d].renter = r /\ job[d].pc \in StorePC
  <2>1. job[d].block \in Blocks \ Shared
    BY <1>1 DEF DiskInv, JobsCarry, Carries, pc, SendsOnce
  <2>2. job[d].amount = Size[job[d].block]
    BY <2>1 DEF TrackInv, Tracks
  <2> QED  BY <1>1, <2>1, <2>2, SizesBounded DEF Fill
<1>2. CASE ~(job[d].renter = r /\ job[d].pc \in StorePC)
    BY <1>2, SizesBounded DEF Fill
<1> QED  BY <1>1, <1>2

\* Beside the handler that moves, each fills one block at most.
LEMMA OthersFill ==
    ASSUME NEW j \in [Clients -> Job], NEW c \in Clients, NEW r, SendsOnce(r),
           \A d \in Clients \ {c} : Fill(j, d, r) <= Largest
    PROVE  Filling(j, r) <= Fill(j, c, r) + Overlap
<1> DEFINE f == [d \in Clients |-> Fill(j, d, r)]
<1>1. IsFiniteSet(Clients) /\ IsFiniteSet(Clients \ {c})
    BY ProviderAssumption, FS_RemoveElement
<1>2. \A d \in Clients : f[d] \in Int
    BY DEF Fill, Job
<1>3. \A d \in Clients \ {c} : f[d] <= Largest
    OBVIOUS
<1>4. Filling(j, r) = SumFunctionOnSet(f, Clients) /\ f[c] = Fill(j, c, r)
    BY DEF Filling
<1> HIDE DEF f
<1>5. SumFunctionOnSet(f, Clients) = f[c] + SumFunctionOnSet(f, Clients \ {c})
    BY <1>1, <1>2, SumTakesOut
<1>6. SumFunctionOnSet(f, Clients \ {c}) <= Cardinality(Clients \ {c}) * Largest
  <2>1. Largest \in Int /\ \A d \in Clients \ {c} : f[d] \in Int /\ f[d] <= Largest
    BY <1>2, <1>3, SizesBounded
  <2> QED  BY <1>1, <2>1, SumBounded
<1>7. Cardinality(Clients \ {c}) = Cardinality(Clients) - 1
    BY <1>1, ProviderAssumption, FS_RemoveElement
<1>8. SumFunctionOnSet(f, Clients \ {c}) \in Int /\ f[c] \in Int
    BY <1>1, <1>2, SumType
<1>9. Overlap \in Int /\ Overlap = Cardinality(Clients \ {c}) * Largest
    BY <1>7, SizesBounded DEF Overlap
<1> QED
    BY <1>4, <1>5, <1>6, <1>8, <1>9

\* The step of one handler keeps what is filled within its bound, if the
\* bytes counted and those of its own store do not grow by more than what is
\* reserved does.
LEMMA FilledMoves ==
    ASSUME JobType, JobType', NEW c \in Clients, OthersWait(c), NEW r \in Renters,
           SendsOnce(r), Filled(r),
           used[r] \in Int, used'[r] \in Int, reserved[r] \in Int, reserved'[r] \in Int,
           used'[r] + Fill(job', c, r) - reserved'[r] <= used[r] + Fill(job, c, r) - reserved[r]
    PROVE  Filled(r)'
<1>1. /\ Filling(job', r) = Filling(job, r) - Fill(job, c, r) + Fill(job', c, r)
      /\ Filling(job, r) \in Nat /\ Fill(job, c, r) \in Nat /\ Fill(job', c, r) \in Nat
    BY FillMoves
<1>2. Overlap \in Nat
    BY SizesBounded
<1> HIDE DEF Fill
<1> QED
    BY <1>1, <1>2 DEF Filled

\* What is being filled is a natural number.
LEMMA FillingType ==
    ASSUME DiskInv, NEW r
    PROVE  Filling(job, r) \in Nat
<1>1. \A c \in Clients : [d \in Clients |-> Fill(job, d, r)][c] \in Nat
    BY DEF Fill, DiskInv, DiskTypeOK, Job
<1> QED
    BY <1>1, ProviderAssumption, SumType DEF Filling

\* The rows of a renter are no more than its contracts, up to the overlap: a
\* row is counted, or its store is past the check.
LEMMA RowsFit ==
    ASSUME FillInv, NEW r \in Renters, SendsOnce(r)
    PROVE  RowBytes(r, Blocks) <= ledger[r] + Overlap /\ ledger[r] \in Nat
<1>1. /\ JobType /\ DiskInv /\ rows \in [Blocks -> Nat] /\ ledger[r] \in Nat
      /\ used[r] \in Int /\ reserved[r] \in Nat /\ IsFiniteSet(Clients)
    BY ProviderAssumption DEF FillInv, UsedInv, ContractInv, CountersTypeOK, DiskInv,
       DiskTypeOK, JobType
<1>2. used[r] + Pending(r, "inserted") - Pending(r, "unlisted") = RowBytes(r, Blocks)
    BY DEF FillInv, UsedInv, UsedAccountsForRows, SendsOnce
<1>3. reserved[r] + Pending(r, "signed") = ledger[r]
    BY DEF FillInv, ContractInv, ReservedAccountsForContracts
<1>4. ASSUME NEW label
      PROVE  Pending(r, label) \in Nat /\ Pending(r, label) = Shares(job, r, label)
  <2>1. Pending(r, label) = Shares(job, r, label)
    BY <1>1, PendingIsShares DEF Pending, JobType
  <2>2. \A c \in Clients : [d \in Clients |-> Share(job, d, r, label)][c] \in Nat
    BY <1>1 DEF Share, JobType, Job
  <2> QED  BY <1>1, <2>1, <2>2, SumType DEF Shares
<1>5. Pending(r, "inserted") <= Filling(job, r)
  <2> DEFINE f == [c \in Clients |-> Share(job, c, r, "inserted")]
             g == [c \in Clients |-> Fill(job, c, r)]
  <2>1. \A c \in Clients : f[c] \in Int /\ g[c] \in Int /\ f[c] <= g[c]
    BY <1>1 DEF Share, Fill, JobType, Job, StorePC
  <2>2. Shares(job, r, "inserted") = SumFunctionOnSet(f, Clients)
        /\ Filling(job, r) = SumFunctionOnSet(g, Clients)
    BY DEF Shares, Filling
  <2> HIDE DEF f, g
  <2>3. SumFunctionOnSet(f, Clients) <= SumFunctionOnSet(g, Clients)
    BY <1>1, <2>1, SumGrows
  <2> QED  BY <1>4, <2>2, <2>3
<1>6. Filling(job, r) \in Nat /\ Overlap \in Nat /\ RowBytes(r, Blocks) \in Nat
    BY <1>1, FillingType, SizesBounded, RowBytesType
<1>7. used[r] + Filling(job, r) <= reserved[r] + Overlap
    BY DEF FillInv, Filled
<1>8. Pending(r, "inserted") \in Nat /\ Pending(r, "unlisted") \in Nat
      /\ Pending(r, "signed") \in Nat
    BY <1>4
<1> QED
    BY <1>1, <1>2, <1>3, <1>5, <1>6, <1>7, <1>8

\* FillInv is inductive: the check finds room for one block in what the
\* counters show, whatever the other handlers have still to count; and a
\* restart counts no more than the rows, which are no more than is filled.
LEMMA FillInvStep == FillInv /\ [Next]_vars => FillInv'
<1> SUFFICES ASSUME FillInv, [Next]_vars
             PROVE  FillInv'
    OBVIOUS
<1> USE DEF disk, memory, config, meta
<1>0. /\ DiskInv /\ DiskInv' /\ JobType /\ JobType' /\ TrackInv /\ TrackInv' /\ LedgerInv
      /\ UsedInv' /\ ContractInv'
      /\ used \in [Renters -> Int] /\ reserved \in [Renters -> Nat]
      /\ used' \in [Renters -> Int] /\ reserved' \in [Renters -> Nat]
  <2>1. UsedInv' /\ ContractInv'
    BY UsedInvStep, ContractInvStep DEF FillInv
  <2> QED
    BY <2>1 DEF FillInv, UsedInv, LedgerInv, ContractInv, CountersTypeOK, DiskInv, DiskTypeOK,
       JobType
<1>1. SUFFICES ASSUME NEW r \in Renters, SendsOnce(r)  PROVE  Filled(r)'
    BY <1>0 DEF FillInv, SendsOnce
<1>2. Filled(r) /\ Overlap \in Nat
    BY <1>1, SizesBounded DEF FillInv
<1>3. /\ used[r] \in Int /\ used'[r] \in Int /\ reserved[r] \in Nat /\ reserved'[r] \in Nat
      /\ \A c \in Clients : job[c].amount \in Nat
    BY <1>0 DEF JobType, Job
<1>4. ASSUME NEW c \in Clients, OthersWait(c), used' = used, reserved' = reserved,
             Fill(job', c, r) = Fill(job, c, r) \/ Fill(job', c, r) = 0
      PROVE  Filled(r)'
  <2>1. Fill(job', c, r) \in Nat /\ Fill(job, c, r) \in Nat
    BY <1>0, <1>4, FillMoves
  <2>2. Fill(job', c, r) <= Fill(job, c, r)
    BY <1>4, <2>1
  <2>3. used'[r] + Fill(job', c, r) - reserved'[r] <= used[r] + Fill(job, c, r) - reserved[r]
    BY <1>3, <1>4, <2>1, <2>2
  <2> QED  BY <1>0, <1>1, <1>2, <1>3, <1>4, <2>3, FilledMoves
<1>5. ASSUME NEW c \in Clients, NEW b \in Blocks, StoreCheck(c, b)
      PROVE  Filled(r)'
  <2>1. /\ StartBlockJob(c, b, "checked", Size[b]) /\ Size[b] \in Nat
        /\ used' = used /\ reserved' = reserved
        /\ Size[b] <= reserved[Owner[b]] - used[Owner[b]]
    BY <1>5, ProviderAssumption DEF StoreCheck
  <2>2. /\ OthersWait(c) /\ job'[c].pc = "checked" /\ job'[c].renter = Owner[b]
        /\ job'[c].amount = Size[b]
    BY <1>0, <2>1, StartMoves DEF Labels, StorePC
  <2>3. CASE Owner[b] # r
    BY <1>4, <2>1, <2>2, <2>3 DEF Fill
  <2>4. CASE Owner[b] = r
    <3>1. Fill(job', c, r) = Size[b]
      BY <2>2, <2>4 DEF Fill, StorePC
    <3>2. Filling(job', r) <= Fill(job', c, r) + Overlap
      <4>1. \A d \in Clients : Fill(job, d, r) <= Largest
        BY <1>0, <1>1, FillsOne
      <4>2. \A d \in Clients \ {c} : Fill(job', d, r) <= Largest
        BY <2>2, <4>1 DEF Fill, OthersWait, Waits
      <4> QED  BY <1>0, <1>1, <4>2, OthersFill DEF JobType
    <3>3. Filling(job', r) \in Int
      BY <1>0, <2>2, FillMoves
    <3> QED  BY <1>2, <1>3, <2>1, <2>4, <3>1, <3>2, <3>3 DEF Filled
  <2> QED  BY <2>3, <2>4
<1>6. ASSUME NEW c \in Clients, NEW b \in Blocks, DeleteStat(c, b)
      PROVE  Filled(r)'
  <2>1. PICK n \in 0..Size[b] : StartBlockJob(c, b, "statted", n)
    BY <1>6 DEF DeleteStat
  <2>2. n \in Nat /\ used' = used /\ reserved' = reserved
    BY <1>6, <2>1, ProviderAssumption DEF DeleteStat
  <2>3. OthersWait(c) /\ job'[c].pc = "statted"
    BY <1>0, <2>1, <2>2, StartMoves DEF Labels, DeletePC
  <2> QED  BY <1>4, <2>2, <2>3 DEF Fill, StorePC
<1>7. ASSUME NEW c \in Clients, NEW label \in Labels, Goto(c, label),
             label \in StorePC => pc(c) \in StorePC, used' = used, reserved' = reserved
      PROVE  Filled(r)'
  <2>1. OthersWait(c) /\ SameRequest(c) /\ job'[c].pc = label
    BY <1>0, <1>7, GotoMoves
  <2>2. Fill(job', c, r) = Fill(job, c, r) \/ Fill(job', c, r) = 0
    BY <1>7, <2>1 DEF Fill, SameRequest, pc
  <2> QED  BY <1>4, <1>7, <2>1, <2>2
<1>8. ASSUME NEW c \in Clients, Return(c), used' = used, reserved' = reserved
      PROVE  Filled(r)'
  <2>1. OthersWait(c) /\ Fill(job', c, r) = 0
    BY <1>0, <1>8, ReturnMoves DEF Fill, Idle, StorePC
  <2> QED  BY <1>4, <1>8, <2>1
<1>9. ASSUME NEW c \in Clients, \/ StoreCreate(c) \/ StoreCopy(c) \/ InsertBlock(c)
                                \/ DeleteRemove(c) \/ DeleteBlockById(c) \/ InsertContract(c)
      PROVE  Filled(r)'
  <2>1. used' = used /\ reserved' = reserved
    BY <1>9 DEF StoreCreate, StoreCopy, InsertBlock, DeleteRemove, DeleteBlockById, InsertContract
  <2>2. Return(c) \/ \E label \in Labels : Goto(c, label) /\ (label \in StorePC => pc(c) \in StorePC)
    BY <1>9 DEF StoreCreate, StoreCopy, InsertBlock, DeleteRemove, DeleteBlockById,
       InsertContract, At, pc, Labels, StorePC, DeletePC, NegotiatePC
  <2> QED  BY <1>7, <1>8, <2>1, <2>2
<1>10. ASSUME NEW c \in Clients, StoreCount(c) \/ DeleteCount(c)
      PROVE  Filled(r)'
  <2>1. Return(c) /\ reserved' = reserved /\ job[c].pc \in {"inserted", "unlisted"}
        /\ (job[c].pc = "inserted" => used' = [used EXCEPT ![job[c].renter] = @ + job[c].amount])
        /\ (job[c].pc = "unlisted" => used' = [used EXCEPT ![job[c].renter] = @ - job[c].amount])
    BY <1>10 DEF StoreCount, DeleteCount, Acknowledge, At
  <2>2. OthersWait(c) /\ Fill(job', c, r) = 0
    BY <1>0, <2>1, ReturnMoves DEF Fill, Idle, StorePC
  <2>3. Fill(job, c, r) =
          IF job[c].renter = r /\ job[c].pc = "inserted" THEN job[c].amount ELSE 0
    BY <2>1 DEF Fill, StorePC
  <2>4. job[c].amount \in Nat
    BY <1>3
  <2>5. used'[r] <= used[r] + Fill(job, c, r)
    <3>1. CASE job[c].renter = r /\ job[c].pc = "inserted"
      BY <1>0, <1>3, <2>1, <2>3, <3>1
    <3>2. CASE job[c].renter = r /\ job[c].pc = "unlisted"
      BY <1>0, <1>3, <2>1, <2>3, <2>4, <3>2
    <3>3. CASE job[c].renter # r
      BY <1>0, <1>3, <2>1, <2>3, <3>3
    <3> QED  BY <2>1, <3>1, <3>2, <3>3
  <2>6. Fill(job, c, r) \in Nat
    BY <2>3, <2>4
  <2>7. used'[r] + Fill(job', c, r) - reserved'[r] <= used[r] + Fill(job, c, r) - reserved[r]
    BY <1>3, <2>1, <2>2, <2>5, <2>6
  <2> QED  BY <1>0, <1>1, <1>2, <1>3, <2>2, <2>7, FilledMoves
<1>11. ASSUME NEW c \in Clients, NEW p \in Renters, NEW space \in Spaces,
              NegotiateCheck(c, p, space)
      PROVE  Filled(r)'
  <2>1. used' = used /\ reserved' = reserved
    BY <1>11 DEF NegotiateCheck
  <2>2. job'[c] = [pc |-> "agreed", block |-> NoBlock, renter |-> p,
                   amount |-> space, alone |-> FALSE] /\ OthersWait(c)
    BY <1>0, <1>11, AgreeMoves
  <2>3. Fill(job', c, r) = 0
    BY <2>2 DEF Fill, StorePC
  <2> QED  BY <1>4, <2>1, <2>2, <2>3
<1>12. ASSUME NEW c \in Clients, NegotiateCount(c)
      PROVE  Filled(r)'
  <2>1. /\ Goto(c, "counted") /\ used' = used /\ job[c].pc = "signed"
        /\ reserved' = [reserved EXCEPT ![job[c].renter] = @ + job[c].amount]
    BY <1>12 DEF NegotiateCount, At
  <2>2. OthersWait(c) /\ job'[c].pc = "counted"
    BY <1>0, <2>1, GotoMoves DEF Labels, NegotiatePC
  <2>3. Fill(job', c, r) = 0 /\ Fill(job, c, r) = 0
    BY <2>1, <2>2 DEF Fill, StorePC
  <2>4. reserved'[r] >= reserved[r]
    BY <1>0, <1>3, <2>1
  <2>5. used'[r] + Fill(job', c, r) - reserved'[r] <= used[r] + Fill(job, c, r) - reserved[r]
    BY <1>3, <2>1, <2>3, <2>4
  <2> QED  BY <1>0, <1>1, <1>2, <1>3, <2>2, <2>5, FilledMoves
<1>13. ASSUME NEW c \in Clients, Aside(c)
      PROVE  Filled(r)'
  <2>1. /\ OthersWait(c) /\ used' = used /\ reserved' = reserved /\ job'[c].pc \in OffPC
    BY <1>0, <1>13, AsideMoves DEF Unseen, OthersWait, Waits, Same
  <2>2. OffPC \cap StorePC = {}
    BY DEF OffPC, ConfigPC, StorePC
  <2>3. Fill(job', c, r) = 0
    BY <2>1, <2>2 DEF Fill
  <2> QED  BY <1>4, <2>1, <2>3
<1>14. CASE Restart
  <2>1. /\ rows' = rows /\ reserved' = ledger /\ \A c \in Clients : job'[c] = Idle
    BY <1>14 DEF Restart
  <2>2. Filling(job', r) = 0
    <3>1. \A c \in Clients : [d \in Clients |-> Fill(job', d, r)][c] = 0
      BY <2>1 DEF Fill, Idle, StorePC
    <3> QED  BY <3>1, ProviderAssumption, SumOfZeros DEF Filling
  <2>3. Balanced(r)' /\ Pending(r, "inserted")' = 0 /\ Pending(r, "unlisted")' = 0
    <3>1. Balanced(r)'
      BY <1>0, <1>1 DEF UsedInv, UsedAccountsForRows, Balanced, SendsOnce
    <3>2. "inserted" # "idle" /\ "unlisted" # "idle" /\ "idle" \notin {"signed"}
      OBVIOUS
    <3> QED  BY <1>0, <2>1, <3>1, <3>2, NothingUnderway
  <2>4. used'[r] = RowBytes(r, Blocks)
    <3>1. RowBytes(r, Blocks)' = RowBytes(r, Blocks)
      BY <2>1 DEF RowBytes
    <3> QED  BY <1>3, <2>3, <3>1 DEF Balanced
  <2>5. RowBytes(r, Blocks) <= ledger[r] + Overlap /\ ledger[r] \in Nat
    BY <1>1, RowsFit DEF FillInv
  <2> QED  BY <2>1, <2>2, <2>4, <2>5, <1>3, <1>2 DEF Filled
<1>15. CASE UNCHANGED vars
    BY <1>2, <1>15 DEF vars, Filled
<1> QED
    BY <1>5, <1>6, <1>9, <1>10, <1>11, <1>12, <1>13, <1>14, <1>15
       DEF Next, StoreBlock, DeleteBlock, NegotiateContract, Aside

\* StorageUsed, and the rows of the blocks table, of a renter whose blocks are
\* sent once are within what its contracts reserve, up to one block for each
\* other handler that stands past the check of StoreBlock.
THEOREM OverfillIsBounded == Spec => []OverfillBounded
<1>1. ASSUME Init  PROVE  FillInv
  <2>1. UsedInv /\ ContractInv
    BY <1>1, UsedInvInit, ContractInvInit
  <2>2. ASSUME NEW r \in Renters, SendsOnce(r)  PROVE  Filled(r)
    <3>1. \A c \in Clients : [d \in Clients |-> Fill(job, d, r)][c] = 0
      BY <1>1 DEF Init, Fill, Idle, StorePC
    <3>2. Filling(job, r) = 0
      BY <3>1, ProviderAssumption, SumOfZeros DEF Filling
    <3> QED  BY <1>1, <2>2, <3>2, SizesBounded DEF Init, Filled
  <2> QED  BY <2>1, <2>2 DEF FillInv
<1>2. ASSUME FillInv  PROVE  OverfillBounded
  <2>1. SUFFICES ASSUME NEW r \in Renters, SendsOnce(r)
                 PROVE  /\ RowBytes(r, Blocks) <= ledger[r] + Overlap
                        /\ used[r] <= reserved[r] + Overlap
    BY DEF OverfillBounded, SendsOnce, Overlap, Largest
  <2>2. RowBytes(r, Blocks) <= ledger[r] + Overlap
    BY <1>2, <2>1, RowsFit
  <2>3. Filling(job, r) \in Nat
    BY <1>2, FillingType DEF FillInv, ContractInv
  <2>4. used[r] \in Int /\ reserved[r] \in Nat /\ Filled(r) /\ Overlap \in Nat
    BY <1>2, <2>1, SizesBounded DEF FillInv, UsedInv, ContractInv, CountersTypeOK
  <2>5. used[r] <= reserved[r] + Overlap
    BY <2>3, <2>4 DEF Filled
  <2> QED  BY <2>2, <2>5
<1>3. QED
    BY <1>1, <1>2, FillInvStep, PTL DEF Spec

=============================================================================


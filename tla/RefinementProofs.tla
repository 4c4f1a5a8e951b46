--------------------------- MODULE RefinementProofs ---------------------------
(***************************************************************************)
(* The proof that the calls of MetaWallet, however they interleave and     *)
(* whatever objects they share, implement the operation of DidOperation.   *)
(***************************************************************************)
EXTENDS MetaWalletProofs

(* What a step of the wallets may do to a call, seen from outside: ...     *)
Unseen(c) ==
    /\ pc'[c] = "idle" <=> pc[c] = "idle"
    /\ pc'[c] = "done" <=> pc[c] = "done"
    /\ result'[c] = result[c]

(* ... it begins ... *)
Begins(c) == pc[c] = "idle" /\ pc'[c] \notin {"idle", "done"} /\ result'[c] = result[c]

(* ... or ends with one report. *)
Ends(c) ==
    /\ pc[c] # "done" /\ pc'[c] = "done"
    /\ \E r : /\ result'[c] = {r}
              /\ pc[c] = "idle" => r.cause \in {"conflictingKeyMode", "signerError"}

(* The two completions end a call. *)
LEMMA FailEnds ==
  ASSUME CallTypeOK, NEW c \in Calls, NEW why, Fail(c, why),
         pc[c] # "done", pc[c] = "idle" => why \in {"conflictingKeyMode", "signerError"}
  PROVE  Ends(c)
<1>1. pc'[c] = "done"
  BY DEF Fail, Goto, CallTypeOK
<1>2. \E n, e : result'[c] = {[cause |-> why, step |-> n, did |-> e]}
  BY DEF Fail, CallTypeOK
<1> QED
  <2>1. PICK n, e : result'[c] = {[cause |-> why, step |-> n, did |-> e]}
    BY <1>2
  <2> DEFINE q == [cause |-> why, step |-> n, did |-> e]
  <2>2. result'[c] = {q} /\ q.cause = why
    BY <2>1
  <2> HIDE DEF q
  <2> QED
    BY <1>1, <2>2 DEF Ends

(* A call that goes to another place does not end. *)
LEMMA MoveUnseen ==
  ASSUME CallTypeOK, NEW c \in Calls, NEW l, l \notin {"idle", "done"}, Goto(c, l),
         pc[c] \notin {"idle", "done"}, UNCHANGED result
  PROVE  Unseen(c)
  BY DEF Goto, CallTypeOK, Unseen

(* A step of a call begins it, ends it, or is not seen from outside. *)
LEMMA OwnStep ==
  ASSUME TypeOK, NEW c \in Calls, Start(c) \/ Proceed(c)
  PROVE  Unseen(c) \/ Begins(c) \/ Ends(c)
<1>0. CallTypeOK
  BY DEF TypeOK
<1>1. ASSUME CreateDID(c) \/ CreateDIDWithSigner(c) \/ DeleteDID(c) PROVE Begins(c)
  BY <1>0, <1>1 DEF CreateDID, CreateDIDWithSigner, DeleteDID, StartCreate, MayCall, Goto,
                    CallTypeOK, Begins
<1>2. CASE RefuseSigner(c)
  BY <1>0, <1>2, FailEnds DEF RefuseSigner, MayCall
<1>3. CASE CheckDid(c)
  <2>1. CASE Goto(c, "reading") /\ UNCHANGED result
    BY <1>0, <1>3, <2>1, MoveUnseen DEF CheckDid
  <2>2. CASE /\ Goto(c, "done")
             /\ \E why : result' = [result EXCEPT ![c] = {[cause |-> why, step |-> 1, did |-> NoDid]}]
    BY <1>0, <1>3, <2>2 DEF CheckDid, Goto, CallTypeOK, Ends
  <2> QED
    BY <1>3, <2>1, <2>2 DEF CheckDid
<1>4. CASE ReadEin(c)
  BY <1>0, <1>4, FailEnds, MoveUnseen DEF ReadEin
<1>5. CASE Prepare(c)
  BY <1>0, <1>5, FailEnds, MoveUnseen DEF Prepare
<1>6. CASE BlockFetched(c)
  <2>1. CASE UNCHANGED <<pc, result>>
    BY <2>1 DEF Unseen
  <2>2. CASE pc[c] = "fetching" /\ Goto(c, "signing") /\ UNCHANGED result
    BY <1>0, <2>2, MoveUnseen
  <2> QED
    BY <1>6, <2>1, <2>2 DEF BlockFetched
<1>7. CASE BlockMissing(c)
  <2>1. CASE UNCHANGED <<pc, result>>
    BY <2>1 DEF Unseen
  <2>2. CASE pc[c] = "fetching" /\ Fail(c, "notReady")
    BY <1>0, <2>2, FailEnds
  <2> QED
    BY <1>7, <2>1, <2>2 DEF BlockMissing
<1>8. CASE FetchTimesOut(c)
  BY <1>0, <1>8, FailEnds DEF FetchTimesOut
<1>9. CASE Sign(c)
  BY <1>0, <1>9, MoveUnseen DEF Sign
<1>10. CASE SignerFails(c)
  BY <1>0, <1>10, FailEnds DEF SignerFails
<1>11. CASE Send(c)
  BY <1>0, <1>11, MoveUnseen DEF Send
<1>12. CASE ReplyTxId(c)
  BY <1>0, <1>12, MoveUnseen DEF ReplyTxId
<1>13. CASE ReplyError(c)
  BY <1>0, <1>13, FailEnds DEF ReplyError
<1>14. CASE ReplyWithoutTxId(c)
  BY <1>0, <1>14, FailEnds, MoveUnseen DEF ReplyWithoutTxId
<1>15. CASE GiveUpReceipt(c)
  BY <1>0, <1>15, FailEnds DEF GiveUpReceipt
<1>16. CASE NoReceipt(c)
  BY <1>0, <1>16, MoveUnseen DEF NoReceipt, MayPoll
<1>17. CASE ReceiptFailed(c)
  BY <1>0, <1>17, FailEnds DEF ReceiptFailed, HasReceipt, MayPoll
<1>18. CASE IdentityMined(c)
  BY <1>0, <1>18 DEF IdentityMined, HasReceipt, MayPoll, Goto, CallTypeOK, Unseen, Ends
<1>19. CASE PublicKeyRemoved(c)
  BY <1>0, <1>19, MoveUnseen DEF PublicKeyRemoved, HasReceipt, MayPoll
<1>20. CASE SecondMined(c)
  BY <1>0, <1>20 DEF SecondMined, HasReceipt, MayPoll, Succeed, Goto, CallTypeOK, Ends
<1>21. CASE ReadCount(c)
  BY <1>0, <1>21, MoveUnseen DEF ReadCount
<1>22. CASE WriteCount(c)
  BY <1>0, <1>22, MoveUnseen DEF WriteCount
<1> QED
  BY <1>1, <1>2, <1>3, <1>4, <1>5, <1>6, <1>7, <1>8, <1>9, <1>10, <1>11, <1>12, <1>13, <1>14,
     <1>15, <1>16, <1>17, <1>18, <1>19, <1>20, <1>21, <1>22
     DEF Start, Proceed, Fetching, Signing, Reply, Receipt

(* No step of a call makes one of its transactions take effect. *)
LEMMA OwnTransactions ==
  ASSUME TypeOK, NEW c \in Calls, Start(c) \/ Proceed(c)
  PROVE  \A d \in Calls, s \in Steps : tx'[d][s] = "ok" <=> tx[d][s] = "ok"
<1>1. CASE ReplyWithoutTxId(c)
  <2>1. \/ tx[c][step[c]] = "none" /\ tx' = [tx EXCEPT ![c][step[c]] = "refused"]
        \/ UNCHANGED tx
    BY <1>1 DEF ReplyWithoutTxId
  <2>2. step[c] \in Steps /\ tx \in [Calls -> [Steps -> TxStates]]
    BY DEF TypeOK, ChainTypeOK, CallTypeOK
  <2>3. CASE tx[c][step[c]] = "none" /\ tx' = [tx EXCEPT ![c][step[c]] = "refused"]
    <3>1. /\ tx'[c] = [tx[c] EXCEPT ![step[c]] = "refused"]
          /\ \A d \in Calls \ {c} : tx'[d] = tx[d]
      BY <2>2, <2>3
    <3>2. /\ tx'[c][step[c]] = "refused"
          /\ \A s \in Steps \ {step[c]} : tx'[c][s] = tx[c][s]
      BY <2>2, <3>1
    <3> QED
      BY <2>3, <3>1, <3>2
  <2>4. CASE UNCHANGED tx
    BY <2>4
  <2> QED
    BY <2>1, <2>3, <2>4
<1>2. CASE ~ReplyWithoutTxId(c)
  <2>1. UNCHANGED tx
    BY <1>2 DEF Start, Proceed, Fetching, Signing, Reply, Receipt, CreateDID, CreateDIDWithSigner,
                RefuseSigner, DeleteDID, CheckDid, ReadEin, Prepare, BlockFetched, BlockMissing,
                FetchTimesOut, Sign, SignerFails, Send, ReplyTxId, ReplyError, GiveUpReceipt,
                NoReceipt, ReceiptFailed, IdentityMined, PublicKeyRemoved, SecondMined,
                ReadCount, WriteCount, chainVars
  <2> QED
    BY <2>1
<1> QED
  BY <1>1, <1>2

-----------------------------------------------------------------------------
(* What has taken effect when a call reports, and after. *)

(* How many transactions of a call took effect depends on those only. *)
LEMMA EffectsKept ==
  ASSUME NEW d \in Calls, \A s \in Steps : tx'[d][s] = "ok" <=> tx[d][s] = "ok"
  PROVE  Effects(d)' = Effects(d)
  BY DEF Effects, Steps

(* A report as DidOperation sees it. *)
Shown(r) == [cause |-> r.cause, step |-> r.step]

(* The effects a call has are among those its report admits. *)
Bounded == \A c \in Calls : \A r \in result[c] : Effects(c) \in Promise!AtReport(Shown(r))

(* The inductive invariant of the wallets implies it. *)
LEMMA ReportsBound == IInv => Bounded
<1> SUFFICES ASSUME IInv, NEW c \in Calls, NEW r \in result[c]
             PROVE  Effects(c) \in Promise!AtReport(Shown(r))
  BY DEF Bounded
<1>1. StepInv(c) /\ ReportInv(c) /\ step[c] \in {1, 2}
  BY DEF IInv, CallInv, TypeOK, CallTypeOK, Steps
<1>2. /\ r.step = step[c] /\ Truthful(c, r)
      /\ step[c] = 1 => tx[c][2] # "ok"
      /\ step[c] = 2 => tx[c][1] = "ok"
      /\ r.cause \in Refusals => tx[c][step[c]] # "ok" \/ (r.cause = "notReady" /\ r.step = 2)
      /\ r.cause = "eventNotFound" => step[c] = 1
      /\ r.cause = "success" => step[c] = 2
  BY <1>1 DEF StepInv, ReportInv, Steps
<1>3. Shown(r).cause = r.cause /\ Shown(r).step = r.step
  BY DEF Shown
<1>4. r.cause \in Outcomes
  BY DEF IInv, TypeOK, CallTypeOK, Results
<1>5. CASE r.cause = "success"
  BY <1>2, <1>3, <1>5 DEF Promise!AtReport, Effects, Truthful, Steps
<1>6. CASE r.cause = "eventNotFound"
  BY <1>2, <1>3, <1>6 DEF Promise!AtReport, Effects, Truthful
<1>7. CASE r.cause \in {"delegatorError", "transactionUnconfirmed"} \/ (r.cause = "notReady" /\ r.step = 2)
  BY <1>1, <1>2, <1>3, <1>7 DEF Promise!AtReport, Promise!LeavesOpen, Effects
<1>8. CASE /\ r.cause \in Refusals \cup {"transactionFailed"}
           /\ ~(r.cause = "notReady" /\ r.step = 2)
  <2>1. tx[c][step[c]] # "ok"
    BY <1>2, <1>8 DEF Truthful
  <2>2. Effects(c) = r.step - 1
    BY <1>1, <1>2, <2>1 DEF Effects
  <2>3. Promise!AtReport(Shown(r)) = {r.step - 1}
    BY <1>3, <1>8 DEF Promise!AtReport, Promise!LeavesOpen, Refusals
  <2> QED
    BY <2>2, <2>3
<1> QED
  BY <1>4, <1>5, <1>6, <1>7, <1>8 DEF Outcomes, Refusals

(* A transaction that is still pending is one the report leaves open. *)
LEMMA PendingIsOpen ==
  ASSUME IInv, NEW c \in Calls, NEW s \in Steps, tx[c][s] = "pending"
  PROVE  /\ pc[c] # "idle" /\ Effects(c) < 2
         /\ \A r \in result[c] : Effects(c) < Promise!AtMost(Shown(r))
<1>1. /\ StepInv(c) /\ ReportInv(c) /\ step[c] \in {1, 2} /\ s \in {1, 2}
      /\ \A r \in result[c] : r.cause \in Outcomes
  BY DEF IInv, CallInv, TypeOK, CallTypeOK, Steps, Results
<1>2. /\ body[c][s] # {} /\ Effects(c) < 2
      /\ step[c] = 1 => s = 1 /\ tx[c][2] # "ok" /\ Effects(c) = 0
      /\ step[c] = 2 => tx[c][1] = "ok" /\ s = 2 /\ Effects(c) = 1
  BY <1>1 DEF StepInv, Effects, Steps
<1>3. pc[c] # "idle"
  BY <1>1, <1>2 DEF StepInv
<1>4. ASSUME NEW r \in result[c] PROVE Effects(c) < Promise!AtMost(Shown(r))
  <2>1. Shown(r).cause = r.cause /\ Shown(r).step = r.step /\ r.step = step[c] /\ Truthful(c, r)
    BY <1>1 DEF Shown, ReportInv
  <2>2. r.cause \notin {"success", "eventNotFound", "transactionFailed"}
    BY <1>1, <1>2, <2>1 DEF Truthful, ReportInv, Steps
  <2>3. r.cause \in Refusals => r.cause = "notReady" /\ r.step = 2
    BY <1>1, <1>2, <2>1 DEF ReportInv
  <2>4. Promise!LeavesOpen(Shown(r))
    BY <1>1, <2>1, <2>2, <2>3 DEF Promise!LeavesOpen, Outcomes, Refusals
  <2>5. Promise!AtMost(Shown(r)) = step[c]
    BY <2>1, <2>2, <2>4 DEF Promise!AtMost
  <2> QED
    BY <1>1, <1>2, <2>5
<1> QED
  BY <1>2, <1>3, <1>4

-----------------------------------------------------------------------------
(* Steps map to steps. *)

(* The initial states of the wallets are initial states of DidOperation. *)
LEMMA InitRefines == Init => Promise!OpInit
<1> SUFFICES ASSUME Init PROVE Promise!OpInit
  OBVIOUS
<1>1. \A c \in Calls : pc[c] = "idle" /\ result[c] = {} /\ \A s \in Steps : tx[c][s] = "none"
  BY DEF Init, ChainInit
<1>2. \A c \in Calls : Phase(c) = "idle"
  BY <1>1 DEF Phase
<1>3. \A c \in Calls : tx[c][1] # "ok" /\ tx[c][2] # "ok"
  BY <1>1 DEF Steps
<1>4. ASSUME NEW c \in Calls PROVE Effects(c) = 0
  BY <1>3 DEF Effects
<1>5. \A c \in Calls : {[cause |-> r.cause, step |-> r.step] : r \in result[c]} = {}
  BY <1>1
<1> QED
  BY <1>2, <1>4, <1>5 DEF Promise!OpInit

(* A step that leaves phases, effects and reports alone is a stutter. *)
LEMMA Stutters ==
  ASSUME \A c \in Calls : Phase(c)' = Phase(c) /\ Effects(c)' = Effects(c) /\ result'[c] = result[c]
  PROVE  UNCHANGED Promise!opVars
<1>1. [c \in Calls |-> Phase(c)]' = [c \in Calls |-> Phase(c)]
  OBVIOUS
<1>2. [c \in Calls |-> Effects(c)]' = [c \in Calls |-> Effects(c)]
  OBVIOUS
<1>3. [c \in Calls |-> {[cause |-> r.cause, step |-> r.step] : r \in result[c]}]'
        = [c \in Calls |-> {[cause |-> r.cause, step |-> r.step] : r \in result[c]}]
  OBVIOUS
<1> QED
  BY <1>1, <1>2, <1>3 DEF Promise!opVars

(* The step in which a call begins. *)
LEMMA BeginRefines ==
  ASSUME NEW c \in Calls, Begins(c),
         \A d \in Calls : Effects(d)' = Effects(d) /\ result'[d] = result[d],
         \A d \in Calls \ {c} : pc'[d] = pc[d]
  PROVE  Promise!Begin(c)
<1>1. [d \in Calls |-> Phase(d)]' = [[d \in Calls |-> Phase(d)] EXCEPT ![c] = "running"]
  BY DEF Phase, Begins
<1>2. [d \in Calls |-> Phase(d)][c] = "idle"
  BY DEF Phase, Begins
<1>3. [d \in Calls |-> Effects(d)]' = [d \in Calls |-> Effects(d)]
  OBVIOUS
<1>4. [d \in Calls |-> {[cause |-> r.cause, step |-> r.step] : r \in result[d]}]'
        = [d \in Calls |-> {[cause |-> r.cause, step |-> r.step] : r \in result[d]}]
  OBVIOUS
<1> QED
  BY <1>1, <1>2, <1>3, <1>4 DEF Promise!Begin

(* The step in which it ends. *)
LEMMA EndRefines ==
  ASSUME NEW c \in Calls, Ends(c), result'[c] \subseteq Results,
         \A d \in Calls : Effects(d)' = Effects(d),
         \A d \in Calls \ {c} : pc'[d] = pc[d] /\ result'[d] = result[d],
         \A r \in result'[c] : Effects(c)' \in Promise!AtReport(Shown(r))
  PROVE  Promise!End(c)
<1>1. PICK r : /\ result'[c] = {r} /\ r \in Results
               /\ pc[c] = "idle" => r.cause \in {"conflictingKeyMode", "signerError"}
  BY DEF Ends
<1>2. Shown(r).cause = r.cause /\ Shown(r) \in Promise!Reports
  BY <1>1 DEF Shown, Results, Outcomes, Steps, Promise!Reports, Promise!Causes, Promise!Refusals
<1>3. [d \in Calls |-> Phase(d)]' = [[d \in Calls |-> Phase(d)] EXCEPT ![c] = "ended"]
  BY DEF Phase, Ends
<1>4. /\ [d \in Calls |-> Phase(d)][c] # "ended"
      /\ [d \in Calls |-> Phase(d)][c] = "idle" => pc[c] = "idle"
  BY DEF Phase, Ends
<1>5. [d \in Calls |-> Effects(d)]' = [d \in Calls |-> Effects(d)]
  OBVIOUS
<1>6. {[cause |-> q.cause, step |-> q.step] : q \in result'[c]} = {Shown(r)}
  BY <1>1 DEF Shown
<1>7. [d \in Calls |-> {[cause |-> q.cause, step |-> q.step] : q \in result[d]}]'
        = [[d \in Calls |-> {[cause |-> q.cause, step |-> q.step] : q \in result[d]}]
              EXCEPT ![c] = {Shown(r)}]
  BY <1>6
<1>8. [d \in Calls |-> Effects(d)][c] \in Promise!AtReport(Shown(r))
  BY <1>1
<1> QED
  BY <1>1, <1>2, <1>3, <1>4, <1>5, <1>7, <1>8 DEF Promise!End

(* The step in which a transaction of a call takes effect. *)
LEMMA EffectRefines ==
  ASSUME NEW c \in Calls, pc[c] # "idle", Effects(c) < 2, Effects(c)' = Effects(c) + 1,
         \A r \in result[c] : Effects(c) < Promise!AtMost(Shown(r)),
         \A d \in Calls \ {c} : Effects(d)' = Effects(d), UNCHANGED <<pc, result>>
  PROVE  Promise!TakeEffect(c)
<1>1. [d \in Calls |-> Phase(d)]' = [d \in Calls |-> Phase(d)]
  BY DEF Phase
<1>2. [d \in Calls |-> Phase(d)][c] # "idle"
  BY DEF Phase
<1>3. [d \in Calls |-> Effects(d)]'
        = [[d \in Calls |-> Effects(d)] EXCEPT ![c] = Effects(c) + 1]
  OBVIOUS
<1>4. [d \in Calls |-> {[cause |-> q.cause, step |-> q.step] : q \in result[d]}]'
        = [d \in Calls |-> {[cause |-> q.cause, step |-> q.step] : q \in result[d]}]
  OBVIOUS
<1>5. \A q \in {[cause |-> r.cause, step |-> r.step] : r \in result[c]} :
        Effects(c) < Promise!AtMost(q)
  BY DEF Shown
<1> QED
  BY <1>1, <1>2, <1>3, <1>4, <1>5 DEF Promise!TakeEffect

(* Every step of the wallets is a step of DidOperation or a stutter. *)
LEMMA StepRefines ==
  ASSUME IInv, IInv', Bounded', [Next]_vars
  PROVE  [Promise!OpNext]_(Promise!opVars)
<1>0. /\ TypeOK /\ CallTypeOK /\ ChainTypeOK /\ CallTypeOK'
      /\ \A d \in Calls : result'[d] \subseteq Results
  BY DEF IInv, TypeOK, CallTypeOK
<1>1. ASSUME UNCHANGED <<pc, result, tx>> PROVE UNCHANGED Promise!opVars
  <2>1. \A d \in Calls : Phase(d)' = Phase(d) /\ Effects(d)' = Effects(d) /\ result'[d] = result[d]
    BY <1>1 DEF Phase, Effects
  <2> QED
    BY <2>1, Stutters
<1>2. ASSUME NEW w \in Wallets, Open(w) PROVE UNCHANGED <<pc, result, tx>>
  BY <1>2 DEF Open, OpenStored, OpenExternal, Configure, chainVars, callVars
<1>3. ASSUME NEW c \in Calls, Start(c) \/ Proceed(c) PROVE [Promise!OpNext]_(Promise!opVars)
  <2>1. \A d \in Calls : Effects(d)' = Effects(d)
    BY <1>0, <1>3, OwnTransactions, EffectsKept
  <2>2. \A d \in Calls \ {c} : pc'[d] = pc[d] /\ result'[d] = result[d]
    BY <1>0, <1>3, OthersSame
  <2>3. CASE Unseen(c)
    <3>1. \A d \in Calls : Phase(d)' = Phase(d)
      BY <2>2, <2>3 DEF Phase, Unseen
    <3>2. \A d \in Calls : result'[d] = result[d]
      BY <2>2, <2>3 DEF Unseen
    <3> QED
      BY <2>1, <3>1, <3>2, Stutters
  <2>4. CASE Begins(c)
    <3>1. Promise!Begin(c)
      BY <2>1, <2>2, <2>4, BeginRefines DEF Begins
    <3> QED
      BY <3>1 DEF Promise!OpNext
  <2>5. CASE Ends(c)
    <3>1. \A r \in result'[c] : Effects(c)' \in Promise!AtReport(Shown(r))
      BY DEF Bounded
    <3>2. Promise!End(c)
      BY <1>0, <2>1, <2>2, <2>5, <3>1, EndRefines
    <3> QED
      BY <3>2 DEF Promise!OpNext
  <2> QED
    BY <1>0, <1>3, <2>3, <2>4, <2>5, OwnStep
<1>4. ASSUME Chain PROVE [Promise!OpNext]_(Promise!opVars)
  <2>1. UNCHANGED <<pc, result>>
    BY <1>4 DEF Chain, OffChain, callVars
  <2>2. CASE NextBlock
    BY <1>1, <2>1, <2>2 DEF NextBlock
  <2>3. ASSUME NEW c \in Calls, NEW s \in Steps, Submit(c, s) \/ MineReverted(c, s)
        PROVE  UNCHANGED Promise!opVars
    <3>1. /\ tx[c][s] # "ok"
          /\ \E to \in {"pending", "reverted"} : tx' = [tx EXCEPT ![c][s] = to]
      BY <2>3 DEF Submit, MineReverted
    <3>2. \A d \in Calls, q \in Steps : tx'[d][q] = "ok" <=> tx[d][q] = "ok"
      BY <1>0, <3>1 DEF ChainTypeOK
    <3>3. \A d \in Calls : Effects(d)' = Effects(d)
      BY <3>2, EffectsKept
    <3>4. \A d \in Calls : Phase(d)' = Phase(d) /\ result'[d] = result[d]
      BY <2>1 DEF Phase
    <3> QED
      BY <3>3, <3>4, Stutters
  <2>4. ASSUME NEW c \in Calls, NEW s \in Steps, MineOk(c, s)
        PROVE  Promise!OpNext
    <3>1. tx[c][s] = "pending" /\ tx' = [tx EXCEPT ![c][s] = "ok"]
      BY <2>4 DEF MineOk
    <3>2. /\ pc[c] # "idle" /\ Effects(c) < 2
          /\ \A r \in result[c] : Effects(c) < Promise!AtMost(Shown(r))
      BY <3>1, PendingIsOpen
    <3>3. /\ tx'[c][s] = "ok"
          /\ \A q \in Steps \ {s} : tx'[c][q] = tx[c][q]
          /\ \A d \in Calls \ {c} : tx'[d] = tx[d]
      BY <1>0, <3>1 DEF ChainTypeOK
    <3>4. Effects(c)' = Effects(c) + 1
      BY <3>1, <3>3 DEF Effects, Steps
    <3>5. \A d \in Calls \ {c} : Effects(d)' = Effects(d)
      BY <3>3 DEF Effects
    <3>6. Promise!TakeEffect(c)
      BY <2>1, <3>2, <3>4, <3>5, EffectRefines
    <3> QED
      BY <3>6 DEF Promise!OpNext
  <2> QED
    BY <1>4, <2>2, <2>3, <2>4 DEF Chain
<1>5. CASE UNCHANGED vars
  BY <1>1, <1>5 DEF vars, chainVars, callVars
<1> QED
  BY <1>1, <1>2, <1>3, <1>4, <1>5 DEF Next

(* Seen from outside, every call keeps the promise of DidOperation: the    *)
(* wallets implement it, however many share a delegator object and         *)
(* however their calls interleave.                                         *)
THEOREM PromiseKept == Spec => KeepsPromise
<1>1. IInv /\ IInv' /\ Bounded' /\ [Next]_vars => [Promise!OpNext]_(Promise!opVars)
  BY StepRefines
<1> QED
  BY <1>1, InitRefines, ReportsBound, Inductive, PTL DEF Spec, KeepsPromise, Promise!OpSpec

===============================================================================

------------------------- MODULE PasteInjectorProofs -------------------------
(***************************************************************************)
(* Proofs about PasteInjector, for any number of insertions, key presses   *)
(* and things the user copies.                                             *)
(***************************************************************************)
EXTENDS PasteInjector, TLAPS

\* As long as the permission has never been there no insertion gets past its
\* preflight and the broker posts nothing.
PermissionInv ==
    /\ trusted => permitted
    /\ ~permitted =>
        /\ clipboard = lastCopy
        /\ keys = {}
        /\ \A j \in Jobs : pc[j] \in {"idle", "failed", "denied"}
        /\ \A j \in Calls : broker[j] \in {"none", "asked", "refused"}

\* Whoever replaces a job's text on the clipboard is noticed.
HoldingInv ==
    \A j \in Jobs : pc[j] \in Holding /\ j \notin tampered => clipboard = j

\* One insertion at a time, until two have overlapped.
OneActiveInv ==
    ~overlapped => \A j, k \in Jobs : Active(j) /\ Active(k) => j = k

\* No insertion has failed, overlapped another, or raced with the user.
Clean ==
    /\ ~overlapped
    /\ ~raced
    /\ \A j \in Jobs : pc[j] \notin {"failed", "denied", "unrestored"}

\* What the user copied last is on the clipboard, or with the one insertion
\* that has its own text there.
Borrowed(j) == clipboard = j /\ orig[j] = lastCopy
Loan ==
    /\ (\A j \in Jobs : ~Active(j)) => clipboard = lastCopy
    /\ \A j \in Jobs :
        /\ pc[j] = "read" => clipboard = lastCopy
        /\ pc[j] = "write" => clipboard = lastCopy /\ orig[j] = lastCopy
        /\ pc[j] \in {"paste", "pasting", "wait", "check"} =>
              clipboard = lastCopy \/ Borrowed(j)
        /\ pc[j] = "restore" => Borrowed(j)
LoanInv == Clean => Loan

\* The inductive invariant.
IInv == TypeOK /\ PermissionInv /\ HoldingInv /\ OneActiveInv /\ LoanInv

-----------------------------------------------------------------------------
\* What Goto does to the table of positions.
LEMMA GotoMoves ==
    ASSUME TypeOK, NEW j \in Calls, NEW stage, Goto(j, stage)
    PROVE  pc'[j] = stage /\ \A k \in Calls : k # j => pc'[k] = pc[k]
BY DEF TypeOK, Goto

LEMMA GotoTyped ==
    ASSUME TypeOK, NEW j \in Calls, NEW stage \in Stages, Goto(j, stage)
    PROVE  pc' \in [Calls -> Stages]
BY DEF TypeOK, Goto

LEMMA InitIInv == Init => IInv
<1>. SUFFICES ASSUME Init PROVE IInv
  OBVIOUS
<1>. USE InjectorAssumption DEF Init
<1>1. TypeOK
  BY DEF TypeOK, Stages
<1>2. PermissionInv /\ HoldingInv /\ OneActiveInv
  BY DEF PermissionInv, HoldingInv, OneActiveInv, Active, Calls, Holding
<1>3. LoanInv
  BY DEF LoanInv, Loan, Calls
<1>. QED
  BY <1>1, <1>2, <1>3 DEF IInv

LEMMA PreflightKeeps == ASSUME IInv, NEW j \in Jobs, Preflight(j) PROVE IInv'
<1>. USE InjectorAssumption DEF IInv, Preflight, PreflightPasses, brokerVars
<1>. PICK s \in {"read", "denied", "failed"} : Goto(j, s) /\ (s = "read" => trusted)
  OBVIOUS
<1>1. /\ pc[j] = "idle" /\ pc'[j] = s
      /\ \A k \in Calls : k # j => pc'[k] = pc[k]
      /\ j \in Calls
  BY GotoMoves DEF Calls
<1>2. TypeOK'
  BY <1>1, GotoTyped DEF TypeOK, Stages, Over
<1>3. PermissionInv'
  BY <1>1 DEF PermissionInv, Calls
<1>4. HoldingInv'
  BY <1>1 DEF HoldingInv, Holding, Calls
<1>5. OneActiveInv'
  BY <1>1 DEF OneActiveInv, Active, Calls
<1>6. LoanInv'
  <2>. SUFFICES ASSUME Clean' PROVE Loan'
    BY DEF LoanInv
  <2>1. s = "read" /\ Clean /\ \A k \in Jobs : ~Active(k)
    BY <1>1 DEF Clean, Active, Calls, Over
  <2>2. clipboard = lastCopy
    BY <2>1 DEF LoanInv, Loan
  <2>. QED
    BY <1>1, <2>1, <2>2 DEF LoanInv, Loan, Active, Calls, Over
<1>. QED
  BY <1>2, <1>3, <1>4, <1>5, <1>6

\* Reading the clipboard: what the job keeps is what the user copied last.
LEMMA ReadKeeps == ASSUME IInv, NEW j \in Jobs, ReadOriginal(j) PROVE IInv'
<1>. USE InjectorAssumption DEF IInv, ReadOriginal, brokerVars, history
<1>. PICK s \in {"write", "failed"} :
        Goto(j, s) /\ (s = "write" => orig' = [orig EXCEPT ![j] = clipboard])
  OBVIOUS
<1>1. /\ pc[j] = "read" /\ pc'[j] = s
      /\ \A k \in Calls : k # j => pc'[k] = pc[k]
      /\ j \in Calls
  BY GotoMoves DEF Calls
<1>2. TypeOK'
  BY <1>1, GotoTyped DEF TypeOK, Stages, Over
<1>3. PermissionInv'
  BY <1>1 DEF PermissionInv, Calls
<1>4. HoldingInv'
  BY <1>1 DEF HoldingInv, Holding, Calls
<1>5. OneActiveInv'
  BY <1>1 DEF OneActiveInv, Active, Calls, Over
<1>6. LoanInv'
  <2>. SUFFICES ASSUME Clean' PROVE Loan'
    BY DEF LoanInv
  <2>1. s = "write" /\ Clean
    BY <1>1 DEF Clean, Calls
  <2>2. clipboard = lastCopy /\ orig'[j] = lastCopy
    BY <1>1, <2>1 DEF LoanInv, Loan, TypeOK
  <2>3. \A k \in Jobs : k # j => ~Active(k)
    BY <1>1, <2>1 DEF OneActiveInv, Active, Clean, Over
  <2>. QED
    BY <1>1, <2>1, <2>2, <2>3 DEF Loan, Active, Calls, Over
<1>. QED
  BY <1>2, <1>3, <1>4, <1>5, <1>6

\* Writing the text tampers with every other insertion that has its own there.
LEMMA WriteKeeps ==
    ASSUME IInv, NEW j \in Jobs, WriteText(j) \/ WriteTextFails(j)
    PROVE  IInv'
<1>. USE InjectorAssumption
     DEF IInv, WriteText, WriteTextFails, WriteError, Put, brokerVars, history
<1>. PICK s \in {"paste", "failed"} :
        Goto(j, s) /\ (s = "paste" => WriteText(j))
  OBVIOUS
<1>1. /\ pc[j] = "write" /\ pc'[j] = s
      /\ \A k \in Calls : k # j => pc'[k] = pc[k]
      /\ j \in Calls
  BY GotoMoves DEF Calls
<1>2. TypeOK'
  BY <1>1, GotoTyped DEF TypeOK, Stages, Over
<1>3. PermissionInv'
  BY <1>1 DEF PermissionInv, Calls
<1>4. HoldingInv'
  BY <1>1 DEF HoldingInv, Holding, Calls
<1>5. OneActiveInv'
  BY <1>1 DEF OneActiveInv, Active, Calls, Over
<1>6. LoanInv'
  <2>. SUFFICES ASSUME Clean' PROVE Loan'
    BY DEF LoanInv
  <2>1. s = "paste" /\ Clean
    BY <1>1 DEF Clean, Calls
  <2>2. clipboard' = j /\ orig'[j] = lastCopy
    BY <1>1, <2>1 DEF LoanInv, Loan
  <2>3. \A k \in Jobs : k # j => ~Active(k)
    BY <1>1, <2>1 DEF OneActiveInv, Active, Clean, Over
  <2>. QED
    BY <1>1, <2>1, <2>2, <2>3 DEF Loan, Active, Calls, Over, Borrowed
<1>. QED
  BY <1>2, <1>3, <1>4, <1>5, <1>6

\* A key press, which touches no job's position and not the clipboard.
LEMMA PressesKeep ==
    ASSUME IInv, TypeOK', PermissionInv',
           \A j \in Jobs : pc'[j] = pc[j],
           UNCHANGED <<clipboard, orig, lastCopy, tampered, overlapped, raced>>
    PROVE  IInv'
<1>. USE DEF IInv
<1>1. HoldingInv' /\ OneActiveInv'
  BY DEF HoldingInv, OneActiveInv, Active
<1>2. LoanInv'
  BY DEF LoanInv, Loan, Clean, Active, Borrowed
<1>. QED
  BY <1>1, <1>2

\* An insertion moves on between its write and its check, or gives up.
LEMMA PastingKeeps ==
    ASSUME IInv, TypeOK', PermissionInv', NEW j \in Jobs,
           pc[j] \in {"paste", "pasting", "wait"},
           NEW s \in {"pasting", "wait", "check"} \union Over, Goto(j, s),
           s \notin {"restored", "skipped", "pressed"},
           UNCHANGED <<clipboard, orig, lastCopy, tampered, overlapped, raced>>
    PROVE  IInv'
<1>. USE DEF IInv
<1>1. /\ pc'[j] = s
      /\ \A k \in Jobs : k # j => pc'[k] = pc[k]
  BY GotoMoves DEF Calls
<1>2. HoldingInv' /\ OneActiveInv'
  BY <1>1 DEF HoldingInv, OneActiveInv, Active, Holding, Over
<1>3. LoanInv'
  <2>. SUFFICES ASSUME Clean' PROVE Loan'
    BY DEF LoanInv
  <2>1. Clean /\ s \in {"pasting", "wait", "check"}
    BY <1>1 DEF Clean, Over
  <2>. QED
    BY <1>1, <2>1 DEF LoanInv, Loan, Active, Borrowed, Over
<1>. QED
  BY <1>2, <1>3

LEMMA AskKeeps ==
    ASSUME IInv, NEW j \in Calls, Ask(j),
           IF j \in Jobs THEN pc[j] = "paste" ELSE pc[j] = "idle"
    PROVE  IInv'
<1>. USE InjectorAssumption DEF IInv, Ask, history
<1>1. TypeOK'
  BY GotoTyped DEF TypeOK, Stages
<1>2. pc'[j] = "pasting" /\ \A k \in Calls : k # j => pc'[k] = pc[k]
  BY GotoMoves
<1>3. PermissionInv'
  BY <1>2 DEF PermissionInv, Calls, TypeOK
<1>4. CASE j \in Jobs
  BY <1>1, <1>3, <1>4, PastingKeeps
<1>5. CASE j \notin Jobs
  BY <1>1, <1>2, <1>3, <1>5, PressesKeep DEF Calls
<1>. QED
  BY <1>4, <1>5

LEMMA AnsweredKeeps ==
    ASSUME IInv, NEW j \in Calls, Answered(j)
    PROVE  IInv'
<1>. USE InjectorAssumption
     DEF IInv, Answered, PasteAnswered, PasteTimesOut, DeadlinePasses, Posted,
         brokerVars, history
<1>. PICK s \in {Posted(j), "denied", "failed"} :
        Goto(j, s) /\ (s = Posted(j) => broker[j] = "posted")
  OBVIOUS
<1>0. pc[j] = "pasting" /\ s \in Stages
  BY DEF Stages, Over
<1>1. TypeOK'
  BY <1>0, GotoTyped DEF TypeOK
<1>2. pc'[j] = s /\ \A k \in Calls : k # j => pc'[k] = pc[k]
  BY GotoMoves
<1>3. PermissionInv'
  BY <1>2 DEF PermissionInv, Calls
<1>4. CASE j \in Jobs
  <2>1. s \in {"wait", "denied", "failed"}
    BY <1>4
  <2>. QED
    BY <1>0, <1>1, <1>3, <1>4, <2>1, PastingKeeps DEF Over
<1>5. CASE j \notin Jobs
  BY <1>1, <1>2, <1>3, <1>5, PressesKeep DEF Calls
<1>. QED
  BY <1>4, <1>5

LEMMA PostKeeps ==
    ASSUME IInv, NEW j \in Calls, PostDirectly(j),
           IF j \in Jobs THEN pc[j] = "paste" ELSE pc[j] = "idle"
    PROVE  IInv'
<1>. USE InjectorAssumption DEF IInv, PostDirectly, Posted, history
<1>. PICK s \in {Posted(j), "denied", "failed"} :
        /\ Goto(j, s)
        /\ keys' = keys \/ (trusted /\ keys' = keys \union {j})
        /\ s = Posted(j) => trusted
  OBVIOUS
<1>0. s \in Stages
  BY DEF Stages, Over
<1>1. TypeOK'
  BY <1>0, GotoTyped DEF TypeOK
<1>2. pc'[j] = s /\ \A k \in Calls : k # j => pc'[k] = pc[k]
  BY GotoMoves
<1>3. PermissionInv'
  BY <1>2 DEF PermissionInv, Calls
<1>4. CASE j \in Jobs
  <2>1. s \in {"wait", "denied", "failed"}
    BY <1>4
  <2>. QED
    BY <1>1, <1>3, <1>4, <2>1, PastingKeeps DEF Over
<1>5. CASE j \notin Jobs
  BY <1>1, <1>2, <1>3, <1>5, PressesKeep DEF Calls
<1>. QED
  BY <1>4, <1>5

LEMMA WaitKeeps == ASSUME IInv, NEW j \in Jobs, Wait(j) PROVE IInv'
<1>. USE DEF IInv, Wait, brokerVars, history
<1>. PICK s \in {"check", "unrestored"} : Goto(j, s)
  OBVIOUS
<1>1. TypeOK'
  BY GotoTyped DEF TypeOK, Stages, Over, Calls
<1>2. PermissionInv'
  BY DEF PermissionInv
<1>. QED
  BY <1>1, <1>2, PastingKeeps DEF Over

\* The comparison tells whose text is on the clipboard.
LEMMA CheckKeeps == ASSUME IInv, NEW j \in Jobs, Check(j) PROVE IInv'
<1>. USE InjectorAssumption DEF IInv, Check, StillInserted, brokerVars, history
<1>. PICK s \in {"restore", "skipped", "unrestored"} :
        /\ Goto(j, s)
        /\ s = "restore" => clipboard = j
        /\ s = "skipped" => clipboard # j
  OBVIOUS
<1>1. /\ pc[j] = "check" /\ pc'[j] = s
      /\ \A k \in Jobs : k # j => pc'[k] = pc[k]
  BY GotoMoves DEF Calls
<1>2. TypeOK'
  BY GotoTyped DEF TypeOK, Stages, Over, Calls
<1>3. PermissionInv'
  BY <1>1 DEF PermissionInv
<1>4. HoldingInv' /\ OneActiveInv'
  BY <1>1 DEF HoldingInv, OneActiveInv, Active, Holding, Over
<1>5. LoanInv'
  <2>. SUFFICES ASSUME Clean' PROVE Loan'
    BY DEF LoanInv
  <2>1. Clean /\ s \in {"restore", "skipped"}
    BY <1>1 DEF Clean
  <2>2. (s = "restore" => Borrowed(j)) /\ (s = "skipped" => clipboard = lastCopy)
    BY <1>1, <2>1 DEF LoanInv, Loan, Borrowed, TypeOK
  <2>3. \A k \in Jobs : k # j => ~Active(k)
    BY <1>1, <2>1 DEF OneActiveInv, Active, Clean, Over
  <2>. QED
    BY <1>1, <2>1, <2>2, <2>3 DEF Loan, Active, Borrowed, Over
<1>. QED
  BY <1>2, <1>3, <1>4, <1>5

LEMMA RestoreKeeps ==
    ASSUME IInv, NEW j \in Jobs, Restore(j) \/ RestoreFails(j)
    PROVE  IInv'
<1>. USE InjectorAssumption DEF IInv, Restore, RestoreFails, Put, brokerVars, history
<1>. PICK s \in {"restored", "unrestored"} :
        Goto(j, s) /\ (s = "restored" => clipboard' = orig[j])
  OBVIOUS
<1>1. /\ pc[j] = "restore" /\ pc'[j] = s
      /\ \A k \in Jobs : k # j => pc'[k] = pc[k]
  BY GotoMoves DEF Calls
<1>2. TypeOK'
  BY GotoTyped DEF TypeOK, Stages, Over, Calls
<1>3. PermissionInv'
  BY <1>1 DEF PermissionInv
<1>4. HoldingInv' /\ OneActiveInv'
  BY <1>1 DEF HoldingInv, OneActiveInv, Active, Holding, Over
<1>5. LoanInv'
  <2>. SUFFICES ASSUME Clean' PROVE Loan'
    BY DEF LoanInv
  <2>1. Clean /\ s = "restored"
    BY <1>1 DEF Clean
  <2>2. clipboard' = lastCopy
    BY <1>1, <2>1 DEF LoanInv, Loan, Borrowed
  <2>3. \A k \in Jobs : k # j => ~Active(k)
    BY <1>1, <2>1 DEF OneActiveInv, Active, Clean, Over
  <2>. QED
    BY <1>1, <2>1, <2>2, <2>3 DEF Loan, Active, Over
<1>. QED
  BY <1>2, <1>3, <1>4, <1>5

LEMMA BrokerKeeps ==
    ASSUME IInv, NEW j \in Calls,
           BrokerChecks(j) \/ BrokerPosts(j) \/ AppPastes(j)
    PROVE  IInv'
<1>. USE DEF IInv, BrokerChecks, BrokerPosts, AppPastes, Verdict, jobVars, history
<1>1. TypeOK'
  BY DEF TypeOK
<1>2. PermissionInv'
  BY DEF PermissionInv, TypeOK
<1>. QED
  BY <1>1, <1>2, PressesKeep

\* A copy by the user tampers with every insertion that has its text there.
LEMMA CopyKeeps == ASSUME IInv, NEW c \in Clips, UserCopies(c) PROVE IInv'
<1>. USE DEF IInv, UserCopies, Put, jobVars, brokerVars
<1>1. TypeOK'
  BY DEF TypeOK
<1>2. PermissionInv'
  BY DEF PermissionInv
<1>3. HoldingInv' /\ OneActiveInv'
  BY DEF HoldingInv, OneActiveInv, Active
<1>4. LoanInv'
  <2>. SUFFICES ASSUME Clean' PROVE Loan'
    BY DEF LoanInv
  <2>1. \A j \in Jobs : pc[j] \notin {"write", "restore"}
    BY DEF Clean
  <2>2. Clean
    BY DEF Clean
  <2>. QED
    BY <2>1, <2>2 DEF LoanInv, Loan, Active
<1>. QED
  BY <1>1, <1>2, <1>3, <1>4

LEMMA SwitchKeeps == ASSUME IInv, SwitchPermission PROVE IInv'
<1>. USE DEF IInv, SwitchPermission, jobVars, brokerVars
<1>1. TypeOK'
  BY DEF TypeOK
<1>2. PermissionInv'
  BY DEF PermissionInv, TypeOK
<1>. QED
  BY <1>1, <1>2, PressesKeep

LEMMA NextIInv == IInv /\ [Next]_vars => IInv'
<1>. SUFFICES ASSUME IInv, [Next]_vars PROVE IInv'
  OBVIOUS
<1>1. CASE \E j \in Jobs : Preflight(j)
  BY <1>1, PreflightKeeps
<1>2. CASE \E j \in Jobs : ReadOriginal(j)
  BY <1>2, ReadKeeps
<1>3. CASE \E j \in Jobs : WriteText(j) \/ WriteTextFails(j)
  BY <1>3, WriteKeeps
<1>4. CASE \E j \in Jobs : AskPaste(j) \/ PasteDirectly(j)
  BY <1>4, AskKeeps, PostKeeps DEF AskPaste, PasteDirectly, Calls
<1>5. CASE \E k \in Presses : AskPress(k) \/ PressDirectly(k)
  BY <1>5, AskKeeps, PostKeeps, InjectorAssumption DEF AskPress, PressDirectly, Calls
<1>6. CASE \E j \in Calls : Answered(j)
  BY <1>6, AnsweredKeeps
<1>7. CASE \E j \in Jobs : Wait(j)
  BY <1>7, WaitKeeps
<1>8. CASE \E j \in Jobs : Check(j)
  BY <1>8, CheckKeeps
<1>9. CASE \E j \in Jobs : Restore(j) \/ RestoreFails(j)
  BY <1>9, RestoreKeeps
<1>10. CASE \E j \in Calls : BrokerChecks(j) \/ BrokerPosts(j) \/ AppPastes(j)
  BY <1>10, BrokerKeeps
<1>11. CASE \E c \in Clips : UserCopies(c)
  BY <1>11, CopyKeeps
<1>12. CASE SwitchPermission
  BY <1>12, SwitchKeeps
<1>13. CASE UNCHANGED vars
  <2>. USE <1>13 DEF IInv, vars, jobVars, brokerVars, history
  <2>1. TypeOK' /\ PermissionInv'
    BY DEF TypeOK, PermissionInv
  <2>. QED
    BY <2>1, PressesKeep
<1>14. CASE \E j \in Jobs : Step(j)
  BY <1>2, <1>3, <1>4, <1>6, <1>7, <1>8, <1>9, <1>14 DEF Step, Calls
<1>15. CASE \E k \in Presses : AskPress(k) \/ PressDirectly(k) \/ Answered(k)
  BY <1>5, <1>6, <1>15 DEF Calls
<1>. QED
  BY <1>1, <1>10, <1>11, <1>12, <1>13, <1>14, <1>15 DEF Next

\* The inductive invariant holds in every reachable state.
THEOREM Invariant == Spec => []IInv
BY InitIInv, NextIInv, PTL DEF Spec

-----------------------------------------------------------------------------
\* The variables have their types.
THEOREM TypeOKHolds == Spec => []TypeOK
BY Invariant, PTL DEF IInv

\* Without the permission nothing is written to the clipboard and no key event
\* is posted, by the broker or without it (Insert's preflight, the drivers).
THEOREM MissingPermissionUntouchedHolds == Spec => []MissingPermissionUntouched
<1>1. IInv => MissingPermissionUntouched
  BY DEF IInv, PermissionInv, MissingPermissionUntouched
<1>. QED
  BY <1>1, Invariant, PTL

\* A Cmd+V handled before its job restores pastes the job's text, unless somebody
\* has written the clipboard since (the order of Insert's steps).
THEOREM PastesItsTextHolds == Spec => []PastesItsText
<1>1. IInv => PastesItsText
  BY DEF IInv, HoldingInv, PastesItsText, Holding
<1>. QED
  BY <1>1, Invariant, PTL

\* Insertions that ended well, did not overlap and did not race with the user
\* leave what the user copied last on the clipboard (Insert's restore).
THEOREM ClipboardGivenBackHolds == Spec => []ClipboardGivenBack
<1>1. IInv => ClipboardGivenBack
  BY DEF IInv, LoanInv, Loan, Clean, Active, Over, ClipboardGivenBack
<1>. QED
  BY <1>1, Invariant, PTL
==============================================================================

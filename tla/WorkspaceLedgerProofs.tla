------------------------ MODULE WorkspaceLedgerProofs ------------------------
(***************************************************************************)
(* Proofs about WorkspaceLedger, for any goals, recommendations, report    *)
(* ids, clock readings, scans and number of reports: goals resolve, the    *)
(* report history is complete and never emptied, the first-report mark is  *)
(* recorded once, and verified actions are supported.                      *)
(***************************************************************************)
EXTENDS WorkspaceLedger, TLAPS

Recording == {"scorecard", "saved", "compare"}

(* What an operation that records a report knows while it holds the lock.  *)
OpKnows ==
    /\ op.at = "complete" => count < MaxReports /\ (op.first => reports = {})
    /\ op.at \in Recording => (op.first => firstMarks = 0)
    /\ op.at \in Recording \cup {"verify"} =>
         \E n \in reports : n.event = count /\ n.supported = op.supported

(* No first-report mark before the first report. *)
MarksStart == count = 0 => firstMarks = 0

IInv ==
    /\ TypeOK /\ GoalsResolve /\ HistoryComplete /\ IdResolvesToNewest
    /\ NeverEmptied /\ FirstMarkOnce /\ MarksStart /\ OpKnows

-----------------------------------------------------------------------------
(* The kinds of operation, by their label. *)
ReportOp ==
    [at : {"complete", "scorecard", "saved", "compare"}, id : ReportId, time : Time,
     goals : SUBSET Version, supported : SUBSET Version, noted : SUBSET Rec,
     recs : SUBSET [id : Rec, goals : SUBSET Version], first : BOOLEAN]
VerifyOp == [at : {"verify"}, supported : SUBSET Version, noted : SUBSET Rec, todo : SUBSET Rec]
GoalOp == [at : {"propose", "approve", "reapprove"}, version : Version]
ReplaceOp == [at : {"replace"}, goals : {S \in SUBSET Version : OnePerGoal(S)}]
ReadyOp == [at : {"ready"}, rec : Rec]

(* The record of an operation has the fields its place calls for.           *)
LEMMA OperationKinds ==
    ASSUME op \in Operation
    PROVE  /\ op.at \in {"complete"} \cup Recording => op \in ReportOp
           /\ op.at = "verify" => op \in VerifyOp
           /\ op.at \in {"propose", "approve", "reapprove"} => op \in GoalOp
           /\ op.at = "replace" => op \in ReplaceOp
           /\ op.at = "ready" => op \in ReadyOp
           /\ op.at = "idle" <=> op = Idle
BY DEF Operation, ReportOp, VerifyOp, GoalOp, ReplaceOp, ReadyOp, Idle, Recording

(* Each kind of record is one of an operation.                              *)
LEMMA KindsAreOperations ==
    ASSUME NEW o, o \in ReportOp \/ o \in VerifyOp \/ o \in GoalOp \/ o \in ReplaceOp
                  \/ o \in ReadyOp \/ o = Idle \/ o = [at |-> "product"]
    PROVE  o \in Operation
BY DEF Operation, ReportOp, VerifyOp, GoalOp, ReplaceOp, ReadyOp

(* The inductive invariant holds at the start.                              *)
LEMMA InitIInv == Init => IInv
<1> SUFFICES ASSUME Init PROVE IInv
  OBVIOUS
<1> USE LedgerAssumption
<1>1. op = Idle /\ op.at = "idle"
  BY DEF Init, Idle
<1>2. TypeOK
  BY KindsAreOperations DEF Init, TypeOK, Status, Scan
<1>3. HistoryComplete
  BY DEF Init, HistoryComplete
<1>4. GoalsResolve /\ IdResolvesToNewest /\ NeverEmptied /\ FirstMarkOnce /\ MarksStart
  BY DEF Init, GoalsResolve, OnePerGoal, IdResolvesToNewest, NeverEmptied, FirstMarkOnce, MarksStart
<1>5. OpKnows
  BY <1>1 DEF OpKnows, Recording
<1> QED BY <1>2, <1>3, <1>4, <1>5 DEF IInv

(* Steps that leave the history alone. *)
LEMMA HistoryFrame ==
    ASSUME IInv, UNCHANGED historyVars
    PROVE  HistoryComplete' /\ IdResolvesToNewest' /\ NeverEmptied'
BY DEF IInv, historyVars, HistoryComplete, IdResolvesToNewest, NeverEmptied

(* The first-report mark depends on its counters alone.                     *)
LEMMA MarksFrame ==
    ASSUME IInv, UNCHANGED <<count, firstMarks>>
    PROVE  FirstMarkOnce' /\ MarksStart'
BY DEF IInv, FirstMarkOnce, MarksStart

(* Steps to an operation that records nothing. *)
LEMMA OpFree ==
    ASSUME NEW o, op' = o, o.at \notin {"complete", "verify"} \cup Recording
    PROVE  OpKnows'
BY DEF OpKnows, Recording

(* The record that stands for no operation says so.                         *)
LEMMA IdleLabel == Idle.at = "idle"
BY DEF Idle

-----------------------------------------------------------------------------
(* Operations on goals. *)
LEMMA GoalSteps ==
    ASSUME IInv,
           \/ \E v \in Version : ApproveGoal(v)
           \/ \E S \in SUBSET Version : ReplaceGoals(S)
           \/ GoalVersionProposed \/ GoalVersionApproved
           \/ GoalSetReplaced \/ GoalApprovalCounted
    PROVE  IInv'
<1> USE LedgerAssumption
<1>h. UNCHANGED <<historyVars, status, firstMarks, scan>>
  BY DEF ApproveGoal, ReplaceGoals, GoalVersionProposed, GoalVersionApproved,
         GoalSetReplaced, GoalApprovalCounted
<1>t. TypeOK /\ GoalsResolve
  BY DEF IInv
<1>1. /\ op' \in Operation
      /\ op'.at \in {"idle", "propose", "approve", "reapprove", "replace", "product"}
      /\ versions' \subseteq Version /\ approved' \subseteq Version
      /\ GoalsResolve'
  <2>1. ASSUME NEW v \in Version, ApproveGoal(v) PROVE <1>1!:
    <3>1. op' \in GoalOp /\ op'.at \in {"propose", "reapprove"}
      BY <2>1 DEF ApproveGoal, GoalOp
    <3> QED BY <1>t, <2>1, <3>1, KindsAreOperations DEF ApproveGoal, goalVars, GoalsResolve, TypeOK
  <2>2. ASSUME NEW S \in SUBSET Version, ReplaceGoals(S) PROVE <1>1!:
    <3>1. op' \in ReplaceOp /\ op'.at = "replace"
      BY <2>2 DEF ReplaceGoals, ReplaceOp
    <3> QED BY <1>t, <2>2, <3>1, KindsAreOperations DEF ReplaceGoals, goalVars, GoalsResolve, TypeOK
  <2>3. CASE GoalVersionProposed
    <3>1. op \in GoalOp
      BY <1>t, <2>3, OperationKinds DEF GoalVersionProposed, TypeOK
    <3>2. op' \in GoalOp /\ op'.at = "approve" /\ op.version \in Version
      BY <2>3, <3>1 DEF GoalVersionProposed, GoalOp
    <3> QED BY <1>t, <2>3, <3>2, KindsAreOperations DEF GoalVersionProposed, GoalsResolve, TypeOK
  <2>4. CASE GoalVersionApproved
    <3>1. op \in GoalOp
      BY <1>t, <2>4, OperationKinds DEF GoalVersionApproved, TypeOK
    <3>2. op.version \in Version /\ op.version \in versions /\ approved' = WithApproved(op.version)
          /\ versions' = versions
      BY <2>4, <3>1 DEF GoalVersionApproved, GoalOp
    <3>3. op' \in Operation /\ op'.at \in {"idle", "product"}
      BY <2>4, KindsAreOperations, IdleLabel DEF GoalVersionApproved
    <3>4. approved' \subseteq Version /\ GoalsResolve'
      BY <1>t, <3>2 DEF WithApproved, GoalsResolve, OnePerGoal, TypeOK
    <3> QED BY <1>t, <3>2, <3>3, <3>4 DEF TypeOK
  <2>5. CASE GoalSetReplaced
    <3>1. op \in ReplaceOp
      BY <1>t, <2>5, OperationKinds DEF GoalSetReplaced, TypeOK
    <3>2. op.goals \subseteq Version /\ OnePerGoal(op.goals)
      BY <3>1 DEF ReplaceOp
    <3>3. op' \in Operation /\ op'.at = "product"
      BY <2>5, KindsAreOperations DEF GoalSetReplaced
    <3>4. versions' = versions \cup op.goals /\ approved' = op.goals
      BY <2>5 DEF GoalSetReplaced
    <3>5. GoalsResolve'
      BY <3>2, <3>4 DEF GoalsResolve, OnePerGoal
    <3> QED BY <1>t, <3>2, <3>3, <3>4, <3>5 DEF TypeOK
  <2>6. CASE GoalApprovalCounted
    BY <1>t, <2>6, KindsAreOperations, IdleLabel DEF GoalApprovalCounted, goalVars, GoalsResolve,
        TypeOK
  <2> QED BY <2>1, <2>2, <2>3, <2>4, <2>5, <2>6
<1>2. TypeOK'
  BY <1>1, <1>h, <1>t DEF TypeOK, historyVars
<1>3. OpKnows'
  BY <1>1 DEF OpKnows, Recording
<1>4. HistoryComplete' /\ IdResolvesToNewest' /\ NeverEmptied' /\ FirstMarkOnce' /\ MarksStart'
  BY <1>h, HistoryFrame, MarksFrame DEF historyVars
<1> QED BY <1>1, <1>2, <1>3, <1>4 DEF IInv

(* Steps of scans, of ready_action, and the end of an operation. *)
LEMMA OtherSteps ==
    ASSUME IInv,
           \/ \E s \in Scanner : StartScan(s) \/ ScanFails(s)
           \/ \E a \in Rec : ReadyAction(a)
           \/ ActionCreated \/ ActionTransitioned \/ ActionReady
           \/ ReportRecorded \/ Abort
    PROVE  IInv'
<1> USE LedgerAssumption
<1>h. UNCHANGED <<goalVars, historyVars, firstMarks>>
  BY DEF StartScan, ScanFails, ReadyAction, ActionCreated, ActionTransitioned, ActionReady,
         ReportRecorded, Abort
<1>t. TypeOK
  BY DEF IInv
<1>1. /\ op' \in Operation
      /\ UNCHANGED op \/ op'.at \in {"idle", "ready"}
      /\ scan' \in [Scanner -> Scan]
      /\ status' \in [Rec -> Status]
  <2>1. ASSUME NEW s \in Scanner, StartScan(s) PROVE <1>1!:
    <3> DEFINE r == [at |-> "scanning", goals |-> approved,
                     noted |-> {a \in Rec : status[a] = "ReadyForVerification"}]
    <3>1. r \in Scan
      BY <1>t DEF TypeOK, Scan
    <3>2. scan' = [scan EXCEPT ![s] = r] /\ UNCHANGED <<op, status>>
      BY <2>1 DEF StartScan
    <3> HIDE DEF r
    <3> QED BY <1>t, <3>1, <3>2 DEF TypeOK
  <2>2. ASSUME NEW s \in Scanner, ScanFails(s) PROVE <1>1!:
    BY <1>t, <2>2 DEF ScanFails, TypeOK, Scan
  <2>3. ASSUME NEW a \in Rec, ReadyAction(a) PROVE <1>1!:
    <3>1. op' \in ReadyOp /\ op'.at = "ready"
      BY <2>3 DEF ReadyAction, ReadyOp
    <3> QED BY <1>t, <2>3, <3>1, KindsAreOperations DEF ReadyAction, TypeOK
  <2>4. CASE ActionCreated
    BY <1>t, <2>4 DEF ActionCreated, TypeOK, Status
  <2>5. CASE ActionTransitioned
    <3> DEFINE to == NextStatus(status[op.rec])
    <3>1. <<status[op.rec], to>> \in MayTransition /\ status' = [status EXCEPT ![op.rec] = to]
          /\ op' = op
      BY <2>5 DEF ActionTransitioned
    <3>2. scan' = scan \/ scan' = [s \in Scanner |-> IF scan[s] = Idle THEN Idle
                                          ELSE [scan[s] EXCEPT !.noted = @ \ {op.rec}]]
      BY <2>5 DEF ActionTransitioned
    <3> HIDE DEF to
    <3>3. to \in Status
      BY <3>1 DEF MayTransition, Status
    <3>4. \A s \in Scanner : scan[s] # Idle => [scan[s] EXCEPT !.noted = @ \ {op.rec}] \in Scan
      <4> SUFFICES ASSUME NEW s \in Scanner, scan[s] # Idle
                   PROVE  [scan[s] EXCEPT !.noted = @ \ {op.rec}] \in Scan
        OBVIOUS
      <4>1. scan[s] \in [at : {"scanning"}, goals : SUBSET Version, noted : SUBSET Rec]
        BY <1>t DEF TypeOK, Scan
      <4> QED BY <4>1 DEF Scan
    <3>5. scan' \in [Scanner -> Scan]
      BY <1>t, <3>2, <3>4 DEF TypeOK, Scan
    <3> QED BY <1>t, <3>1, <3>3, <3>5 DEF TypeOK
  <2>6. CASE ActionReady \/ ReportRecorded \/ Abort
    BY <1>t, <2>6, KindsAreOperations, IdleLabel DEF ActionReady, ReportRecorded, Abort, TypeOK
  <2> QED BY <2>1, <2>2, <2>3, <2>4, <2>5, <2>6
<1>2. TypeOK' /\ GoalsResolve'
  BY <1>1, <1>h, <1>t DEF TypeOK, historyVars, goalVars, IInv, GoalsResolve
<1>3. OpKnows'
  BY <1>1, <1>h DEF OpKnows, Recording, IInv, historyVars
<1>4. HistoryComplete' /\ IdResolvesToNewest' /\ NeverEmptied' /\ FirstMarkOnce' /\ MarksStart'
  BY <1>h, HistoryFrame, MarksFrame DEF historyVars
<1> QED BY <1>2, <1>3, <1>4 DEF IInv

-----------------------------------------------------------------------------
(* record_report, up to its first event and after it. *)
LEMMA RecordSteps ==
    ASSUME IInv,
           \/ \E s \in Scanner, id \in ReportId, t \in Time :
                \E supported \in SUBSET approved, recs \in Recommendations(approved) :
                    RecordReport(s, id, t, supported, recs)
           \/ ReportCounted \/ ReportCompared \/ \E a \in Rec : VerifyAction(a)
    PROVE  IInv'
<1> USE LedgerAssumption
<1>h. UNCHANGED <<goalVars, historyVars>>
  BY DEF RecordReport, ReportCounted, ReportCompared, VerifyAction
<1>t. TypeOK /\ FirstMarkOnce /\ MarksStart /\ NeverEmptied /\ OpKnows
  BY DEF IInv
<1>1. /\ op' \in Operation
      /\ scan' \in [Scanner -> Scan]
      /\ status' \in [Rec -> Status]
      /\ firstMarks' \in Nat /\ FirstMarkOnce' /\ MarksStart'
      /\ OpKnows'
  <2>1. ASSUME NEW s \in Scanner, NEW id \in ReportId, NEW t \in Time,
               NEW supported \in SUBSET approved, NEW recs \in Recommendations(approved),
               RecordReport(s, id, t, supported, recs)
        PROVE  <1>1!:
    <3> DEFINE o == [at |-> "complete", id |-> id, time |-> t, supported |-> supported,
                     recs |-> recs, goals |-> approved, noted |-> scan[s].noted,
                     first |-> reports = {}]
    <3>1. scan[s].noted \in SUBSET Rec
      BY <1>t, <2>1 DEF TypeOK, Scan, RecordReport
    <3>2. recs \subseteq [id : Rec, goals : SUBSET Version]
      BY <1>t DEF Recommendations, TypeOK
    <3>3. o \in ReportOp /\ o.at = "complete" /\ o.first = (reports = {})
      BY <1>t, <3>1, <3>2 DEF ReportOp, TypeOK
    <3>4. (op' = o \/ op' = Idle) /\ count < MaxReports
          /\ scan' = [scan EXCEPT ![s] = Idle] /\ UNCHANGED <<status, firstMarks>>
      BY <2>1 DEF RecordReport
    <3> HIDE DEF o
    <3>5. op' \in Operation /\ op'.at \in {"complete", "idle"}
      BY <3>3, <3>4, KindsAreOperations, IdleLabel
    <3>6. OpKnows'
      BY <1>h, <3>3, <3>4, IdleLabel DEF OpKnows, Recording, historyVars
    <3> QED BY <1>h, <1>t, <3>4, <3>5, <3>6 DEF TypeOK, Scan, FirstMarkOnce, MarksStart, historyVars
  <2>2. CASE ReportCounted
    <3>1. op \in ReportOp
      BY <1>t, <2>2, OperationKinds DEF ReportCounted, TypeOK, Recording
    <3>2. op' \in ReportOp /\ op'.at \in Recording /\ op'.first = op.first
          /\ op'.supported = op.supported
      BY <2>2, <3>1 DEF ReportCounted, ReportOp, Recording
    <3>3. UNCHANGED <<status, firstMarks, scan>> /\ op.at \in Recording
      BY <2>2 DEF ReportCounted, Recording
    <3>4. OpKnows'
      BY <1>h, <1>t, <3>2, <3>3 DEF OpKnows, Recording, historyVars
    <3> QED BY <1>h, <1>t, <3>2, <3>3, <3>4, KindsAreOperations
            DEF TypeOK, FirstMarkOnce, MarksStart, historyVars
  <2>3. CASE ReportCompared
    <3>1. op \in ReportOp /\ op.at = "compare"
      BY <1>t, <2>3, OperationKinds DEF ReportCompared, TypeOK, Recording
    <3>2. op' \in VerifyOp /\ op'.at = "verify" /\ op'.supported = op.supported
      BY <2>3, <3>1 DEF ReportCompared, ReportOp, VerifyOp
    <3>3. UNCHANGED <<status, scan>>
      BY <2>3 DEF ReportCompared
    <3>4. \E n \in reports : n.event = count /\ n.supported = op.supported
      BY <1>t, <3>1 DEF OpKnows, Recording
    <3>5. OpKnows'
      BY <1>h, <3>2, <3>4 DEF OpKnows, Recording, historyVars
    <3>6. count # 0
      BY <1>t, <3>4 DEF TypeOK, Report
    <3>7. firstMarks' \in Nat /\ firstMarks' <= 1
      BY <1>t, <2>3, <3>1 DEF ReportCompared, OpKnows, Recording, TypeOK, FirstMarkOnce
    <3> QED BY <1>h, <1>t, <3>2, <3>3, <3>5, <3>6, <3>7, KindsAreOperations
            DEF TypeOK, FirstMarkOnce, MarksStart, historyVars
  <2>4. ASSUME NEW a \in Rec, VerifyAction(a) PROVE <1>1!:
    <3>1. op \in VerifyOp
      BY <1>t, <2>4, OperationKinds DEF VerifyAction, TypeOK
    <3>2. op' \in VerifyOp /\ op'.at = "verify" /\ op'.supported = op.supported
      BY <2>4, <3>1 DEF VerifyAction, VerifyOp
    <3>3. UNCHANGED <<firstMarks, scan>> /\ op.at = "verify"
      BY <2>4 DEF VerifyAction
    <3>4. status' \in [Rec -> Status]
      BY <1>t, <2>4 DEF VerifyAction, TypeOK, Status
    <3>5. OpKnows'
      BY <1>h, <1>t, <3>2, <3>3 DEF OpKnows, Recording, historyVars
    <3> QED BY <1>h, <1>t, <3>2, <3>3, <3>4, <3>5, KindsAreOperations
            DEF TypeOK, FirstMarkOnce, MarksStart, historyVars
  <2> QED BY <2>1, <2>2, <2>3, <2>4
<1>2. TypeOK' /\ GoalsResolve'
  BY <1>1, <1>h, <1>t DEF TypeOK, historyVars, goalVars, IInv, GoalsResolve
<1>3. HistoryComplete' /\ IdResolvesToNewest' /\ NeverEmptied'
  BY <1>h, HistoryFrame
<1> QED BY <1>1, <1>2, <1>3 DEF IInv

(* A completed report: the history grows by one and keeps the rest. *)
LEMMA CompletedStep == ASSUME IInv, ReportCompleted PROVE IInv'
<1> USE LedgerAssumption
<1>t. TypeOK /\ OpKnows /\ HistoryComplete /\ IdResolvesToNewest /\ op.at = "complete"
  BY DEF IInv, ReportCompleted
<1>o. op \in ReportOp
  BY <1>t, OperationKinds DEF TypeOK
<1> DEFINE new == Completed(0)
           moved(r) == IF r.superseded = 0 /\ r.id = op.id
                       THEN [r EXCEPT !.superseded = count + 1] ELSE r
<1>1. count \in Nat /\ count < MaxReports /\ count' = count + 1
  BY <1>t DEF TypeOK, OpKnows, ReportCompleted
<1>2. new \in Report /\ new.event = count + 1 /\ new.id = op.id /\ new.superseded = 0
      /\ new.supported = op.supported
  BY <1>o, <1>1 DEF Completed, ReportOp, Report
<1>3. ASSUME NEW r \in reports
      PROVE  /\ moved(r) \in Report
             /\ moved(r).event = r.event /\ moved(r).id = r.id
             /\ moved(r).superseded = 0 => r.superseded = 0 /\ r.id # op.id
             /\ r.event \in 1..count /\ r.superseded \in 0..MaxReports
  BY <1>t, <1>1 DEF TypeOK, Report, HistoryComplete
<1>4. reports' = {moved(r) : r \in reports} \cup {new}
  BY DEF ReportCompleted
<1>5. op' \in ReportOp /\ op'.at = "scorecard" /\ op'.first = op.first
      /\ op'.supported = op.supported
  BY <1>o DEF ReportCompleted, ReportOp
<1>6. UNCHANGED <<versions, approved, deleted, status, firstMarks, scan>>
  BY DEF ReportCompleted, goalVars
<1> HIDE DEF new, moved
<1>7. TypeOK'
  <2>1. reports' \subseteq Report
    BY <1>2, <1>3, <1>4
  <2> QED BY <1>t, <1>1, <1>5, <1>6, <2>1, KindsAreOperations DEF TypeOK
<1>8. {r.event : r \in reports'} = {r.event : r \in reports} \cup {count + 1}
  BY <1>2, <1>3, <1>4
<1>9. HistoryComplete'
  <2>1. \A r, s \in reports' : r.event = s.event => r = s
    <3>1. \A r \in reports, s \in reports : moved(r).event = moved(s).event => moved(r) = moved(s)
      BY <1>t, <1>3 DEF HistoryComplete
    <3>2. \A r \in reports : moved(r).event # new.event
      BY <1>1, <1>2, <1>3
    <3> QED BY <1>4, <3>1, <3>2
  <2>2. deleted \subseteq 1..count
    BY <1>t DEF HistoryComplete
  <2>3. {r.event : r \in reports'} \cup deleted = 1..(count + 1)
    BY <1>t, <1>1, <1>8 DEF HistoryComplete
  <2>4. {r.event : r \in reports'} \cap deleted = {}
    BY <1>t, <1>1, <1>8, <2>2 DEF HistoryComplete
  <2> QED BY <1>1, <1>6, <2>1, <2>3, <2>4 DEF HistoryComplete
<1>10. IdResolvesToNewest'
  <2> SUFFICES ASSUME NEW r \in reports', NEW s \in reports',
                      r.id = s.id, r.superseded = 0, r # s
               PROVE  s.superseded > 0 /\ s.event < r.event
    BY DEF IdResolvesToNewest
  <2>1. CASE r = new
    <3>1. PICK q \in reports : s = moved(q)
      BY <1>4, <2>1
    <3>2. s.superseded # 0 /\ s.event < r.event
      BY <1>1, <1>2, <1>3, <2>1, <3>1
    <3> QED BY <1>7, <3>2 DEF TypeOK, Report
  <2>2. CASE r # new
    <3>1. PICK p \in reports : r = moved(p)
      BY <1>4, <2>2
    <3>2. p.superseded = 0 /\ p.id # op.id /\ p.id = r.id /\ p.event = r.event
      BY <1>3, <3>1
    <3>3. s # new
      BY <1>2, <3>2
    <3>4. PICK q \in reports : s = moved(q)
      BY <1>4, <3>3
    <3>5. q.id # op.id /\ q.id = p.id
      BY <1>3, <3>2, <3>4
    <3>6. s = q /\ r = p
      BY <3>1, <3>2, <3>4, <3>5 DEF moved
    <3> QED BY <1>t, <3>6 DEF IdResolvesToNewest
  <2> QED BY <2>1, <2>2
<1>11. NeverEmptied' /\ FirstMarkOnce'
  BY <1>4, <1>6 DEF NeverEmptied, FirstMarkOnce, IInv
<1>12. MarksStart'
  BY <1>1 DEF MarksStart
<1>13. OpKnows'
  <2>1. op.first => firstMarks = 0
    <3>1. op.first => count = 0
      BY <1>t, <1>1 DEF OpKnows, IInv, NeverEmptied
    <3> QED BY <3>1 DEF IInv, MarksStart
  <2>2. new \in reports' /\ new.event = count' /\ new.supported = op'.supported
    BY <1>1, <1>2, <1>4, <1>5
  <2> QED BY <1>5, <1>6, <2>1, <2>2 DEF OpKnows, Recording
<1>14. GoalsResolve'
  BY <1>6 DEF IInv, GoalsResolve
<1> QED BY <1>7, <1>9, <1>10, <1>11, <1>12, <1>13, <1>14 DEF IInv

(* A deletion: the report that beats the deleted one stays. *)
LEMMA DeleteStep == ASSUME IInv, NEW r \in reports, DeleteReport(r) PROVE IInv'
<1> USE LedgerAssumption
<1>t. TypeOK /\ HistoryComplete /\ IdResolvesToNewest /\ op = Idle
  BY DEF IInv, DeleteReport
<1>1. reports' = reports \ {r} /\ deleted' = deleted \cup {r.event}
      /\ UNCHANGED <<versions, approved, count, status, firstMarks, op, scan>>
  BY DEF DeleteReport, goalVars
<1>2. PICK s \in reports : s # r
  <2>1. PICK s \in reports : ~(s.time < r.time \/ (s.time = r.time /\ s.event <= r.event))
    BY DEF DeleteReport, Latest
  <2>2. r.event \in Nat
    BY <1>t DEF TypeOK, Report
  <2> QED BY <2>1, <2>2
<1>3. TypeOK'
  BY <1>t, <1>1 DEF TypeOK, Report
<1>4. {q.event : q \in reports'} = {q.event : q \in reports} \ {r.event}
  BY <1>t, <1>1 DEF HistoryComplete
<1>5. HistoryComplete'
  BY <1>t, <1>1, <1>4 DEF HistoryComplete
<1>6. IdResolvesToNewest' /\ NeverEmptied'
  BY <1>t, <1>1, <1>2 DEF IdResolvesToNewest, NeverEmptied
<1>7. GoalsResolve' /\ FirstMarkOnce' /\ MarksStart' /\ OpKnows'
  BY <1>t, <1>1, IdleLabel DEF IInv, GoalsResolve, FirstMarkOnce, MarksStart, OpKnows, Recording
<1> QED BY <1>3, <1>5, <1>6, <1>7 DEF IInv

(* Every step keeps the inductive invariant.                                *)
LEMMA NextIInv == IInv /\ [Next]_vars => IInv'
<1> SUFFICES ASSUME IInv, [Next]_vars PROVE IInv'
  OBVIOUS
<1>1. CASE UNCHANGED vars
  BY <1>1 DEF vars, IInv, TypeOK, GoalsResolve, HistoryComplete, IdResolvesToNewest, NeverEmptied,
              FirstMarkOnce, MarksStart, OpKnows
<1>2. CASE Next
  BY <1>2, GoalSteps, OtherSteps, RecordSteps, CompletedStep, DeleteStep DEF Next, Step
<1> QED BY <1>1, <1>2

(* The inductive invariant of the ledger.  An operation that is recording  *)
(* a report knows that its report is the newest; the first-report flag it  *)
(* captured stays right because no deletion empties the history.           *)
THEOREM Invariance == Spec => []IInv
BY InitIInv, NextIInv, PTL DEF Spec

(* Type correctness of the projection and of the operation in progress.    *)
THEOREM TypeCorrect == Spec => []TypeOK
<1>1. IInv => TypeOK
  BY DEF IInv
<1> QED BY Invariance, <1>1, PTL

(* Approved goals always resolve, whichever operations on goals are cut    *)
(* short between two events.                                               *)
THEOREM GoalsAlwaysResolve == Spec => []GoalsResolve
<1>1. IInv => GoalsResolve
  BY DEF IInv
<1> QED BY Invariance, <1>1, PTL

(* Every completed report is in the history or deleted, exactly once.      *)
THEOREM HistoryIsComplete == Spec => []HistoryComplete
<1>1. IInv => HistoryComplete
  BY DEF IInv
<1> QED BY Invariance, <1>1, PTL

(* A report id resolves to the newest active report that used it.          *)
THEOREM IdsResolve == Spec => []IdResolvesToNewest
<1>1. IInv => IdResolvesToNewest
  BY DEF IInv
<1> QED BY Invariance, <1>1, PTL

(* No sequence of deletions empties the history.                           *)
THEOREM HistoryNeverEmptied == Spec => []NeverEmptied
<1>1. IInv => NeverEmptied
  BY DEF IInv
<1> QED BY Invariance, <1>1, PTL

(* The first-report mark is recorded at most once.                         *)
THEOREM FirstReportMarkedOnce == Spec => []FirstMarkOnce
<1>1. IInv => FirstMarkOnce
  BY DEF IInv
<1> QED BY Invariance, <1>1, PTL

(* What VerifyAction compares the new report with: a recommendation of the *)
(* action's id in an active report, all of whose goals are affected.       *)
LEMMA AffectedSource ==
    ASSUME NEW a, NEW goals \in AffectedGoals(a), goals # {}
    PROVE  \E r \in reports : \E c \in r.recs :
               c.id = a /\ c.goals # {} /\ c.goals \subseteq goals
<1>1. PICK r \in FirstRecommending(a) : goals = UNION {c.goals : c \in {c \in r.recs : c.id = a}}
  BY DEF AffectedGoals
<1>2. r \in reports
  BY DEF FirstRecommending
<1> QED BY <1>1, <1>2

(* An action becomes Verified only when an active report recommends it and *)
(* the report just recorded supports every goal the recommendation names.  *)
THEOREM VerifiedActionsSupported == Spec => VerifiedIsSupported
<1>1. ASSUME IInv, [Next]_vars, NEW a \in Rec, status'[a] = "Verified", status[a] # "Verified"
      PROVE  \E r \in reports, n \in reports : \E c \in r.recs :
                /\ c.id = a /\ c.goals # {} /\ n.event = count
                /\ c.goals \subseteq n.supported
  <2>t. status \in [Rec -> Status]
    BY <1>1 DEF IInv, TypeOK
  <2>1. VerifyAction(a)
    <3>1. CASE UNCHANGED status
      BY <1>1, <3>1
    <3>2. CASE ActionCreated \/ ActionTransitioned
      <4>1. CASE ActionCreated
        BY <1>1, <2>t, <4>1 DEF ActionCreated
      <4>2. CASE ActionTransitioned
        <5> DEFINE to == NextStatus(status[op.rec])
        <5>1. status' = [status EXCEPT ![op.rec] = to]
          BY <4>2 DEF ActionTransitioned
        <5>2. to # "Verified"
          BY <4>2 DEF ActionTransitioned, MayTransition, NextStatus
        <5> HIDE DEF to
        <5> QED BY <1>1, <2>t, <5>1, <5>2
      <4> QED BY <3>2, <4>1, <4>2
    <3>3. ASSUME NEW b \in Rec, VerifyAction(b) PROVE VerifyAction(a)
      BY <1>1, <2>t, <3>3 DEF VerifyAction
    <3> QED BY <1>1, <3>1, <3>2, <3>3 DEF Next, Step, vars, ApproveGoal, ReplaceGoals, StartScan,
          ScanFails, RecordReport, ReadyAction, DeleteReport, Abort, GoalVersionProposed,
          GoalVersionApproved, GoalSetReplaced, GoalApprovalCounted, ReportCompleted, ReportCounted,
          ReportCompared, ReportRecorded, ActionReady
  <2>2. PICK goals \in AffectedGoals(a) :
          op.at = "verify" /\ goals # {} /\ goals \subseteq op.supported
    BY <1>1, <2>t, <2>1 DEF VerifyAction
  <2>3. PICK n \in reports : n.event = count /\ n.supported = op.supported
    BY <1>1, <2>2 DEF IInv, OpKnows
  <2> QED BY <2>2, <2>3, AffectedSource
<1>2. IInv /\ [Next]_vars => VerifiedIsSupported!1
  BY <1>1
<1> QED BY Invariance, <1>2, PTL DEF Spec, VerifiedIsSupported
=============================================================================

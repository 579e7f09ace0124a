------------------------- MODULE AgentSessionsProofs -------------------------
(***************************************************************************)
(* Proofs about AgentSessions for any number of servers, commands,         *)
(* sessions, workspaces, failures and crashes.                             *)
(***************************************************************************)
EXTENDS AgentSessions, FiniteSetTheorems, TLAPS

-----------------------------------------------------------------------------
(* The inductive invariant, in parts.                                       *)

Labels == {"idle", "begin", "mark", "read", "claim", "check", "record", "rest", "map"}
\* Between the rename of the session file and the end of the submission.
Holding == {"check", "record", "rest"}
\* Working on a session that an agent named.
Named == {"read", "claim", "map"} \cup Holding

Report == [session : Session, by : Proc, ws : Workspace, goals : Nat, approved : Nat, nth : Nat]

Types ==
    /\ clock \in Nat /\ goals \in [Workspace -> Nat] /\ body \in [Session -> Body \cup {None}]
    /\ open \in SUBSET Session /\ claimed \in SUBSET (Session \X Proc)
    /\ started \in SUBSET Session /\ returned \in SUBSET Session
    /\ reports \in SUBSET Report /\ IsFiniteSet(reports)
    /\ twice \in SUBSET [session : Session, nth : Nat] /\ IsFiniteSet(twice)
    /\ pc \in [Proc -> Labels] /\ mine \in [Proc -> Session \cup {None}]
    /\ ws \in [Proc -> Workspace \cup {None}] /\ seen \in [Proc -> Nat]
    /\ fails \in Nat /\ crashes \in Nat

\* Whatever refers to a session refers to one that was begun.
Begun(s) == body[s] \in Body
KnownInv ==
    /\ \A s \in open \cup returned : Begun(s)
    /\ \A r \in reports : Begun(r.session)
    /\ \A p \in Proc : pc[p] \notin {"idle", "begin"} => mine[p] \in Session /\ Begun(mine[p])

\* What a process knows at its place.
PlaceInv ==
    /\ returned \subseteq started
    /\ \A p \in Proc :
          /\ pc[p] = "begin" => ws[p] \in Workspace
          /\ pc[p] \in Named => mine[p] \in returned
          /\ pc[p] \in {"record", "rest"} =>
                ws[p] = body[mine[p]].ws /\ seen[p] = body[mine[p]].goals

\* A session whose start is being marked belongs to that process alone, and its
\* file is there until it expires.
MarkInv ==
    /\ \A p \in Proc : pc[p] = "mark" =>
          mine[p] \notin returned /\ (mine[p] \in open \/ Expired(mine[p]))
    /\ \A p, q \in Proc : pc[p] = "mark" /\ pc[q] = "mark" /\ mine[p] = mine[q] => p = q

\* A session is at its path or with one submission.
ClaimInv ==
    /\ \A c \in claimed : c[1] \notin open /\ c[1] \in returned
    /\ \A c, d \in claimed : c[1] = d[1] => c = d
    /\ \A p \in Proc : pc[p] \in Holding => mine[p] \notin open
    /\ \A p, q \in Proc : pc[p] \in Holding /\ pc[q] \in Holding /\ mine[p] = mine[q] => p = q

\* The reports of a session, and the submissions of it that failed after one.
Of(S, s) == {x \in S : x.session = s}

\* Where a report can still come from, the session has no unexplained report.
CountInv ==
    /\ \A s \in Session : Cardinality(Of(reports, s)) <= 1 + Cardinality(Of(twice, s))
    /\ \A s \in open : Cardinality(Of(reports, s)) <= Cardinality(Of(twice, s))
    /\ \A p \in Proc : pc[p] \in {"check", "record"} =>
          Cardinality(Of(reports, mine[p])) <= Cardinality(Of(twice, mine[p]))
    /\ \A t \in twice : t.nth < fails

IInv == /\ Types /\ KnownInv /\ PlaceInv /\ MarkInv /\ ClaimInv /\ CountInv
        /\ SessionNotLost /\ ReportsFollowSessions /\ RetractedUnmarked

-----------------------------------------------------------------------------
(* At the start no session was begun.                                       *)
LEMMA InitIInv == Init => IInv
<1> SUFFICES ASSUME Init PROVE IInv
  OBVIOUS
<1> USE AgentAssumption DEF Init
<1>1. Types
  BY FS_EmptySet DEF Types, Labels
<1>2. KnownInv /\ PlaceInv /\ MarkInv /\ ClaimInv
  BY DEF KnownInv, PlaceInv, MarkInv, ClaimInv, Named, Holding
<1>3. CountInv
  <2>1. \A s \in Session : Of(reports, s) = {} /\ Of(twice, s) = {}
    BY DEF Of
  <2> QED BY <2>1, FS_EmptySet DEF CountInv
<1> QED BY <1>1, <1>2, <1>3 DEF IInv, SessionNotLost, ReportsFollowSessions, RetractedUnmarked

GivesBack(p) ==
    \/ /\ <<mine[p], p>> \in claimed
       /\ open' = open \cup {mine[p]} /\ claimed' = claimed \ {<<mine[p], p>>}
    \/ <<mine[p], p>> \notin claimed /\ open' = open /\ claimed' = claimed

(* What dropping a claim does: the file goes back to its path, unless it    *)
(* was collected in the meantime.                                           *)
LEMMA GiveBackEffect == \A p \in Proc : GiveBack(p) => GivesBack(p)
BY DEF GiveBack, GivesBack

(* Adding an element to a set adds at most one to those of a session, and   *)
(* exactly one if it is new.                                                *)
LEMMA CountOneMore ==
  ASSUME NEW S, IsFiniteSet(S), NEW x, NEW s
  PROVE  /\ Cardinality(Of(S, s)) \in Nat /\ Cardinality(Of(S \cup {x}, s)) \in Nat
         /\ Cardinality(Of(S, s)) <= Cardinality(Of(S \cup {x}, s))
         /\ Cardinality(Of(S \cup {x}, s)) <= Cardinality(Of(S, s)) + 1
         /\ x.session # s => Of(S \cup {x}, s) = Of(S, s)
         /\ x.session = s /\ x \notin S =>
               Cardinality(Of(S \cup {x}, s)) = Cardinality(Of(S, s)) + 1
<1>1. IsFiniteSet(Of(S, s)) /\ Cardinality(Of(S, s)) \in Nat
  <2>1. Of(S, s) \in SUBSET S
    BY DEF Of
  <2> QED BY <2>1, FS_Subset, FS_CardinalityType
<1>2. CASE x.session = s
  <2>1. Of(S \cup {x}, s) = Of(S, s) \cup {x}
    BY <1>2 DEF Of
  <2>2. x \in Of(S, s) <=> x \in S
    BY <1>2 DEF Of
  <2>3. Cardinality(Of(S, s) \cup {x}) =
            IF x \in Of(S, s) THEN Cardinality(Of(S, s)) ELSE Cardinality(Of(S, s)) + 1
    BY <1>1, FS_AddElement
  <2>4. CASE x \in S
    BY <1>1, <1>2, <2>1, <2>2, <2>3, <2>4
  <2>5. CASE x \notin S
    BY <1>1, <1>2, <2>1, <2>2, <2>3, <2>5
  <2> QED BY <2>4, <2>5
<1>3. CASE x.session # s
  <2>1. Of(S \cup {x}, s) = Of(S, s)
    BY <1>3 DEF Of
  <2> QED BY <1>1, <1>3, <2>1
<1> QED BY <1>2, <1>3

(* ReportedOnce, said with these sets.                                      *)
LEMMA ReportedOnceOf ==
  ReportedOnce <=> \A s \in Session : Cardinality(Of(reports, s)) <= 1 + Cardinality(Of(twice, s))
BY DEF ReportedOnce, Of

(* Every action leaves values of the right kind.                            *)
LEMMA TypeStep ==
  ASSUME IInv, Next
  PROVE  Types'
<1> USE AgentAssumption DEF IInv, Types, KnownInv, Labels, Begun, CollectExpired, files, ledger,
    history, locals, bounds, Goto
<1>1. ASSUME NEW p \in Proc, NEW w \in Workspace, BeginAnalysis(p, w) \/ BeginCommand(p, w)
      PROVE Types'
  BY <1>1 DEF BeginAnalysis, BeginCommand
<1>2. ASSUME NEW p \in Proc, NEW s \in Session, OpenSession(p, s) PROVE Types'
  BY <1>2 DEF OpenSession, Body, PlaceInv
<1>3. ASSUME NEW p \in Proc, OpenRefused(p) PROVE Types'
  BY <1>3 DEF OpenRefused, Collect, Done
<1>4. ASSUME NEW p \in Proc, MarkStarted(p) PROVE Types'
  BY <1>4 DEF MarkStarted, Done
<1>5. ASSUME NEW p \in Proc, StartNotMarked(p) PROVE Types'
  BY <1>5 DEF StartNotMarked, Done
<1>6. ASSUME NEW p \in Proc, NEW s \in Session, VerifySession(p, s) \/ SubmitMap(p, s) PROVE Types'
  BY <1>6 DEF VerifySession, SubmitMap, Collect, Load
<1>7. ASSUME NEW p \in Proc, ReadPayload(p) PROVE Types'
  BY <1>7 DEF ReadPayload, Done, Processed
<1>8. ASSUME NEW p \in Proc, NEW s \in Session, SubmitAnalysis(p, s) PROVE Types'
  BY <1>8 DEF SubmitAnalysis
<1>9. ASSUME NEW p \in Proc, ClaimSession(p) PROVE Types'
  BY <1>9 DEF ClaimSession
<1>10. ASSUME NEW p \in Proc, ClaimRefused(p) PROVE Types'
  BY <1>10 DEF ClaimRefused, Collect, Done, Processed
<1>11. ASSUME NEW p \in Proc, ClaimExpired(p) PROVE Types'
  BY <1>11 DEF ClaimExpired, Done, Processed
<1>12. ASSUME NEW p \in Proc, CheckSubmission(p) PROVE Types'
  BY <1>12 DEF CheckSubmission, Body
<1>13. ASSUME NEW p \in Proc, SubmissionRejected(p) PROVE Types'
  <2>1. GivesBack(p)
    BY <1>13, GiveBackEffect DEF SubmissionRejected
  <2> QED BY <1>13, <2>1 DEF SubmissionRejected, Done, Processed, GivesBack
<1>14. ASSUME NEW p \in Proc, RecordReport(p) PROVE Types'
  <2> DEFINE r == [session |-> mine[p], by |-> p, ws |-> ws[p], goals |-> seen[p],
                   approved |-> goals[ws[p]], nth |-> Cardinality(reports)]
  <2>1. r \in Report
    BY <1>14, FS_CardinalityType DEF RecordReport, PlaceInv, Report, Body
  <2>2. reports' = reports \cup {r}
    BY <1>14 DEF RecordReport
  <2> HIDE DEF r
  <2>3. IsFiniteSet(reports')
    BY <2>2, FS_AddElement
  <2> QED BY <1>14, <2>1, <2>2, <2>3 DEF RecordReport
<1>15. ASSUME NEW p \in Proc, RecordRefused(p) PROVE Types'
  <2>1. GivesBack(p)
    BY <1>15, GiveBackEffect DEF RecordRefused
  <2> QED BY <1>15, <2>1 DEF RecordRefused, Done, Processed, GivesBack
<1>16. ASSUME NEW p \in Proc, RecordFails(p) PROVE Types'
  <2>1. GivesBack(p)
    BY <1>16, GiveBackEffect DEF RecordFails
  <2>2. IsFiniteSet(twice')
    BY <1>16, FS_AddElement DEF RecordFails
  <2> QED BY <1>16, <2>1, <2>2 DEF RecordFails, Done, Processed, GivesBack
<1>17. ASSUME NEW p \in Proc, Commit(p) PROVE Types'
  BY <1>17 DEF Commit, Done, Processed
<1>18. ASSUME NEW p \in Proc, RecordMap(p) PROVE Types'
  BY <1>18 DEF RecordMap, Done, Processed
<1>19. ASSUME NEW p \in Proc, NoteAction(p) \/ Transfer(p) PROVE Types'
  BY <1>19 DEF NoteAction, Transfer
<1>20. ASSUME NEW w \in Workspace, ReplaceGoals(w) PROVE Types'
  BY <1>20 DEF ReplaceGoals
<1>21. ASSUME Tick PROVE Types'
  BY <1>21 DEF Tick
<1>22. ASSUME NEW p \in Proc, Crash(p) PROVE Types'
  BY <1>22 DEF Crash, Done
<1> QED BY <1>1, <1>2, <1>3, <1>4, <1>5, <1>6, <1>7, <1>8, <1>9, <1>10, <1>11, <1>12, <1>13,
    <1>14, <1>15, <1>16, <1>17, <1>18, <1>19, <1>20, <1>21, <1>22 DEF Next, Step

(* A session is begun before anything refers to it, and stays so.           *)
LEMMA KnownStep ==
  ASSUME IInv, Next
  PROVE  KnownInv'
<1> USE AgentAssumption DEF IInv, Types, KnownInv, Begun, CollectExpired, files, ledger, history,
    locals, bounds, Goto
<1>1. ASSUME NEW p \in Proc, NEW w \in Workspace, BeginAnalysis(p, w) \/ BeginCommand(p, w)
      PROVE KnownInv'
  BY <1>1 DEF BeginAnalysis, BeginCommand
<1>2. ASSUME NEW p \in Proc, NEW s \in Session, OpenSession(p, s) PROVE KnownInv'
  BY <1>2 DEF OpenSession, Body, PlaceInv
<1>3. ASSUME NEW p \in Proc, OpenRefused(p) PROVE KnownInv'
  BY <1>3 DEF OpenRefused, Collect, Done
<1>4. ASSUME NEW p \in Proc, MarkStarted(p) PROVE KnownInv'
  BY <1>4 DEF MarkStarted, Done
<1>5. ASSUME NEW p \in Proc, StartNotMarked(p) PROVE KnownInv'
  BY <1>5 DEF StartNotMarked, Done
<1>6. ASSUME NEW p \in Proc, NEW s \in Session, VerifySession(p, s) \/ SubmitMap(p, s)
      PROVE KnownInv'
  BY <1>6 DEF VerifySession, SubmitMap, Collect, Load
<1>7. ASSUME NEW p \in Proc, ReadPayload(p) PROVE KnownInv'
  BY <1>7 DEF ReadPayload, Done, Processed
<1>8. ASSUME NEW p \in Proc, NEW s \in Session, SubmitAnalysis(p, s) PROVE KnownInv'
  BY <1>8 DEF SubmitAnalysis
<1>9. ASSUME NEW p \in Proc, ClaimSession(p) PROVE KnownInv'
  BY <1>9 DEF ClaimSession
<1>10. ASSUME NEW p \in Proc, ClaimRefused(p) PROVE KnownInv'
  BY <1>10 DEF ClaimRefused, Collect, Done, Processed
<1>11. ASSUME NEW p \in Proc, ClaimExpired(p) PROVE KnownInv'
  BY <1>11 DEF ClaimExpired, Done, Processed
<1>12. ASSUME NEW p \in Proc, CheckSubmission(p) PROVE KnownInv'
  BY <1>12 DEF CheckSubmission
<1>13. ASSUME NEW p \in Proc, SubmissionRejected(p) PROVE KnownInv'
  <2>1. GivesBack(p)
    BY <1>13, GiveBackEffect DEF SubmissionRejected
  <2> QED BY <1>13, <2>1 DEF SubmissionRejected, Done, Processed, GivesBack
<1>14. ASSUME NEW p \in Proc, RecordReport(p) PROVE KnownInv'
  BY <1>14 DEF RecordReport, Report
<1>15. ASSUME NEW p \in Proc, RecordRefused(p) PROVE KnownInv'
  <2>1. GivesBack(p)
    BY <1>15, GiveBackEffect DEF RecordRefused
  <2> QED BY <1>15, <2>1 DEF RecordRefused, Done, Processed, GivesBack
<1>16. ASSUME NEW p \in Proc, RecordFails(p) PROVE KnownInv'
  <2>1. GivesBack(p)
    BY <1>16, GiveBackEffect DEF RecordFails
  <2> QED BY <1>16, <2>1 DEF RecordFails, Done, Processed, GivesBack
<1>17. ASSUME NEW p \in Proc, Commit(p) PROVE KnownInv'
  BY <1>17 DEF Commit, Done, Processed
<1>18. ASSUME NEW p \in Proc, RecordMap(p) PROVE KnownInv'
  BY <1>18 DEF RecordMap, Done, Processed
<1>19. ASSUME NEW p \in Proc, NoteAction(p) \/ Transfer(p) PROVE KnownInv'
  BY <1>19 DEF NoteAction, Transfer
<1>20. ASSUME NEW w \in Workspace, ReplaceGoals(w) PROVE KnownInv'
  BY <1>20 DEF ReplaceGoals
<1>21. ASSUME Tick PROVE KnownInv'
  BY <1>21 DEF Tick
<1>22. ASSUME NEW p \in Proc, Crash(p) PROVE KnownInv'
  BY <1>22 DEF Crash, Done
<1> QED BY <1>1, <1>2, <1>3, <1>4, <1>5, <1>6, <1>7, <1>8, <1>9, <1>10, <1>11, <1>12, <1>13,
    <1>14, <1>15, <1>16, <1>17, <1>18, <1>19, <1>20, <1>21, <1>22 DEF Next, Step

(* A process knows what its place promises.                                 *)
LEMMA PlaceStep ==
  ASSUME IInv, Next
  PROVE  PlaceInv'
<1> USE AgentAssumption DEF IInv, Types, KnownInv, Begun, PlaceInv, Named, Holding, Labels, files,
    ledger, history, locals, bounds, Goto
<1>1. ASSUME NEW p \in Proc, NEW w \in Workspace, BeginAnalysis(p, w) \/ BeginCommand(p, w)
      PROVE PlaceInv'
  BY <1>1 DEF BeginAnalysis, BeginCommand
<1>2. ASSUME NEW p \in Proc, NEW s \in Session, OpenSession(p, s) PROVE PlaceInv'
  BY <1>2 DEF OpenSession
<1>3. ASSUME NEW p \in Proc, OpenRefused(p) PROVE PlaceInv'
  BY <1>3 DEF OpenRefused, Collect, Done
<1>4. ASSUME NEW p \in Proc, MarkStarted(p) PROVE PlaceInv'
  BY <1>4 DEF MarkStarted, Done
<1>5. ASSUME NEW p \in Proc, StartNotMarked(p) PROVE PlaceInv'
  BY <1>5 DEF StartNotMarked, Done
<1>6. ASSUME NEW p \in Proc, NEW s \in Session, VerifySession(p, s) \/ SubmitMap(p, s)
      PROVE PlaceInv'
  BY <1>6 DEF VerifySession, SubmitMap, Collect, Load
<1>7. ASSUME NEW p \in Proc, ReadPayload(p) PROVE PlaceInv'
  BY <1>7 DEF ReadPayload, Done, Processed
<1>8. ASSUME NEW p \in Proc, NEW s \in Session, SubmitAnalysis(p, s) PROVE PlaceInv'
  BY <1>8 DEF SubmitAnalysis
<1>9. ASSUME NEW p \in Proc, ClaimSession(p) PROVE PlaceInv'
  BY <1>9 DEF ClaimSession
<1>10. ASSUME NEW p \in Proc, ClaimRefused(p) PROVE PlaceInv'
  BY <1>10 DEF ClaimRefused, Collect, Done, Processed
<1>11. ASSUME NEW p \in Proc, ClaimExpired(p) PROVE PlaceInv'
  BY <1>11 DEF ClaimExpired, Done, Processed
<1>12. ASSUME NEW p \in Proc, CheckSubmission(p) PROVE PlaceInv'
  BY <1>12 DEF CheckSubmission
<1>13. ASSUME NEW p \in Proc, SubmissionRejected(p) PROVE PlaceInv'
  <2>1. GivesBack(p)
    BY <1>13, GiveBackEffect DEF SubmissionRejected
  <2> QED BY <1>13, <2>1 DEF SubmissionRejected, Done, Processed, GivesBack
<1>14. ASSUME NEW p \in Proc, RecordReport(p) PROVE PlaceInv'
  BY <1>14 DEF RecordReport
<1>15. ASSUME NEW p \in Proc, RecordRefused(p) PROVE PlaceInv'
  <2>1. GivesBack(p)
    BY <1>15, GiveBackEffect DEF RecordRefused
  <2> QED BY <1>15, <2>1 DEF RecordRefused, Done, Processed, GivesBack
<1>16. ASSUME NEW p \in Proc, RecordFails(p) PROVE PlaceInv'
  <2>1. GivesBack(p)
    BY <1>16, GiveBackEffect DEF RecordFails
  <2> QED BY <1>16, <2>1 DEF RecordFails, Done, Processed, GivesBack
<1>17. ASSUME NEW p \in Proc, Commit(p) PROVE PlaceInv'
  BY <1>17 DEF Commit, Done, Processed
<1>18. ASSUME NEW p \in Proc, RecordMap(p) PROVE PlaceInv'
  BY <1>18 DEF RecordMap, Done, Processed
<1>19. ASSUME NEW p \in Proc, NoteAction(p) \/ Transfer(p) PROVE PlaceInv'
  BY <1>19 DEF NoteAction, Transfer
<1>20. ASSUME NEW w \in Workspace, ReplaceGoals(w) PROVE PlaceInv'
  BY <1>20 DEF ReplaceGoals
<1>21. ASSUME Tick PROVE PlaceInv'
  BY <1>21 DEF Tick
<1>22. ASSUME NEW p \in Proc, Crash(p) PROVE PlaceInv'
  BY <1>22 DEF Crash, Done
<1> QED BY <1>1, <1>2, <1>3, <1>4, <1>5, <1>6, <1>7, <1>8, <1>9, <1>10, <1>11, <1>12, <1>13,
    <1>14, <1>15, <1>16, <1>17, <1>18, <1>19, <1>20, <1>21, <1>22 DEF Next, Step

(* Nobody else touches a session before its start is marked.                *)
LEMMA MarkStep ==
  ASSUME IInv, Next
  PROVE  MarkInv'
<1> USE AgentAssumption DEF IInv, Types, KnownInv, Begun, PlaceInv, Named, Holding, Labels,
    MarkInv, Expired, CollectExpired, files, ledger, history, locals, bounds, Goto
<1>1. ASSUME NEW p \in Proc, NEW w \in Workspace, BeginAnalysis(p, w) \/ BeginCommand(p, w)
      PROVE MarkInv'
  BY <1>1 DEF BeginAnalysis, BeginCommand
<1>2. ASSUME NEW p \in Proc, NEW s \in Session, OpenSession(p, s) PROVE MarkInv'
  BY <1>2 DEF OpenSession
<1>3. ASSUME NEW p \in Proc, OpenRefused(p) PROVE MarkInv'
  BY <1>3 DEF OpenRefused, Collect, Done
<1>4. ASSUME NEW p \in Proc, MarkStarted(p) PROVE MarkInv'
  BY <1>4 DEF MarkStarted, Done
<1>5. ASSUME NEW p \in Proc, StartNotMarked(p) PROVE MarkInv'
  BY <1>5 DEF StartNotMarked, Done
<1>6. ASSUME NEW p \in Proc, NEW s \in Session, VerifySession(p, s) \/ SubmitMap(p, s)
      PROVE MarkInv'
  BY <1>6 DEF VerifySession, SubmitMap, Collect, Load
<1>7. ASSUME NEW p \in Proc, ReadPayload(p) PROVE MarkInv'
  BY <1>7 DEF ReadPayload, Done, Processed
<1>8. ASSUME NEW p \in Proc, NEW s \in Session, SubmitAnalysis(p, s) PROVE MarkInv'
  BY <1>8 DEF SubmitAnalysis
<1>9. ASSUME NEW p \in Proc, ClaimSession(p) PROVE MarkInv'
  BY <1>9 DEF ClaimSession
<1>10. ASSUME NEW p \in Proc, ClaimRefused(p) PROVE MarkInv'
  BY <1>10 DEF ClaimRefused, Collect, Done, Processed
<1>11. ASSUME NEW p \in Proc, ClaimExpired(p) PROVE MarkInv'
  BY <1>11 DEF ClaimExpired, Done, Processed
<1>12. ASSUME NEW p \in Proc, CheckSubmission(p) PROVE MarkInv'
  BY <1>12 DEF CheckSubmission
<1>13. ASSUME NEW p \in Proc, SubmissionRejected(p) PROVE MarkInv'
  <2>1. GivesBack(p)
    BY <1>13, GiveBackEffect DEF SubmissionRejected
  <2> QED BY <1>13, <2>1 DEF SubmissionRejected, Done, Processed, GivesBack
<1>14. ASSUME NEW p \in Proc, RecordReport(p) PROVE MarkInv'
  BY <1>14 DEF RecordReport
<1>15. ASSUME NEW p \in Proc, RecordRefused(p) PROVE MarkInv'
  <2>1. GivesBack(p)
    BY <1>15, GiveBackEffect DEF RecordRefused
  <2> QED BY <1>15, <2>1 DEF RecordRefused, Done, Processed, GivesBack
<1>16. ASSUME NEW p \in Proc, RecordFails(p) PROVE MarkInv'
  <2>1. GivesBack(p)
    BY <1>16, GiveBackEffect DEF RecordFails
  <2> QED BY <1>16, <2>1 DEF RecordFails, Done, Processed, GivesBack
<1>17. ASSUME NEW p \in Proc, Commit(p) PROVE MarkInv'
  BY <1>17 DEF Commit, Done, Processed
<1>18. ASSUME NEW p \in Proc, RecordMap(p) PROVE MarkInv'
  BY <1>18 DEF RecordMap, Done, Processed
<1>19. ASSUME NEW p \in Proc, NoteAction(p) \/ Transfer(p) PROVE MarkInv'
  BY <1>19 DEF NoteAction, Transfer
<1>20. ASSUME NEW w \in Workspace, ReplaceGoals(w) PROVE MarkInv'
  BY <1>20 DEF ReplaceGoals
<1>21. ASSUME Tick PROVE MarkInv'
  BY <1>21 DEF Tick, Body
<1>22. ASSUME NEW p \in Proc, Crash(p) PROVE MarkInv'
  BY <1>22 DEF Crash, Done
<1> QED BY <1>1, <1>2, <1>3, <1>4, <1>5, <1>6, <1>7, <1>8, <1>9, <1>10, <1>11, <1>12, <1>13,
    <1>14, <1>15, <1>16, <1>17, <1>18, <1>19, <1>20, <1>21, <1>22 DEF Next, Step

(* The rename is won by one submission.                                     *)
LEMMA ClaimStep ==
  ASSUME IInv, Next
  PROVE  ClaimInv'
<1> USE AgentAssumption DEF IInv, Types, KnownInv, Begun, PlaceInv, Named, Holding, Labels,
    ClaimInv, CollectExpired, files, ledger, history, locals, bounds, Goto
<1>1. ASSUME NEW p \in Proc, NEW w \in Workspace, BeginAnalysis(p, w) \/ BeginCommand(p, w)
      PROVE ClaimInv'
  BY <1>1 DEF BeginAnalysis, BeginCommand
<1>2. ASSUME NEW p \in Proc, NEW s \in Session, OpenSession(p, s) PROVE ClaimInv'
  BY <1>2 DEF OpenSession
<1>3. ASSUME NEW p \in Proc, OpenRefused(p) PROVE ClaimInv'
  BY <1>3 DEF OpenRefused, Collect, Done
<1>4. ASSUME NEW p \in Proc, MarkStarted(p) PROVE ClaimInv'
  BY <1>4 DEF MarkStarted, Done
<1>5. ASSUME NEW p \in Proc, StartNotMarked(p) PROVE ClaimInv'
  BY <1>5 DEF StartNotMarked, Done
<1>6. ASSUME NEW p \in Proc, NEW s \in Session, VerifySession(p, s) \/ SubmitMap(p, s)
      PROVE ClaimInv'
  BY <1>6 DEF VerifySession, SubmitMap, Collect, Load
<1>7. ASSUME NEW p \in Proc, ReadPayload(p) PROVE ClaimInv'
  BY <1>7 DEF ReadPayload, Done, Processed
<1>8. ASSUME NEW p \in Proc, NEW s \in Session, SubmitAnalysis(p, s) PROVE ClaimInv'
  BY <1>8 DEF SubmitAnalysis
<1>9. ASSUME NEW p \in Proc, ClaimSession(p) PROVE ClaimInv'
  BY <1>9 DEF ClaimSession
<1>10. ASSUME NEW p \in Proc, ClaimRefused(p) PROVE ClaimInv'
  BY <1>10 DEF ClaimRefused, Collect, Done, Processed
<1>11. ASSUME NEW p \in Proc, ClaimExpired(p) PROVE ClaimInv'
  BY <1>11 DEF ClaimExpired, Done, Processed
<1>12. ASSUME NEW p \in Proc, CheckSubmission(p) PROVE ClaimInv'
  BY <1>12 DEF CheckSubmission
<1>13. ASSUME NEW p \in Proc, SubmissionRejected(p) PROVE ClaimInv'
  <2>1. GivesBack(p)
    BY <1>13, GiveBackEffect DEF SubmissionRejected
  <2> QED BY <1>13, <2>1 DEF SubmissionRejected, Done, Processed, GivesBack
<1>14. ASSUME NEW p \in Proc, RecordReport(p) PROVE ClaimInv'
  BY <1>14 DEF RecordReport
<1>15. ASSUME NEW p \in Proc, RecordRefused(p) PROVE ClaimInv'
  <2>1. GivesBack(p)
    BY <1>15, GiveBackEffect DEF RecordRefused
  <2> QED BY <1>15, <2>1 DEF RecordRefused, Done, Processed, GivesBack
<1>16. ASSUME NEW p \in Proc, RecordFails(p) PROVE ClaimInv'
  <2>1. GivesBack(p)
    BY <1>16, GiveBackEffect DEF RecordFails
  <2> QED BY <1>16, <2>1 DEF RecordFails, Done, Processed, GivesBack
<1>17. ASSUME NEW p \in Proc, Commit(p) PROVE ClaimInv'
  BY <1>17 DEF Commit, Done, Processed
<1>18. ASSUME NEW p \in Proc, RecordMap(p) PROVE ClaimInv'
  BY <1>18 DEF RecordMap, Done, Processed
<1>19. ASSUME NEW p \in Proc, NoteAction(p) \/ Transfer(p) PROVE ClaimInv'
  BY <1>19 DEF NoteAction, Transfer
<1>20. ASSUME NEW w \in Workspace, ReplaceGoals(w) PROVE ClaimInv'
  BY <1>20 DEF ReplaceGoals
<1>21. ASSUME Tick PROVE ClaimInv'
  BY <1>21 DEF Tick
<1>22. ASSUME NEW p \in Proc, Crash(p) PROVE ClaimInv'
  BY <1>22 DEF Crash, Done
<1> QED BY <1>1, <1>2, <1>3, <1>4, <1>5, <1>6, <1>7, <1>8, <1>9, <1>10, <1>11, <1>12, <1>13,
    <1>14, <1>15, <1>16, <1>17, <1>18, <1>19, <1>20, <1>21, <1>22 DEF Next, Step

(* A report comes from the one holder of a session without an unexplained   *)
(* report, and its failure afterwards explains the next.                    *)
LEMMA CountStep ==
  ASSUME IInv, Next
  PROVE  CountInv'
<1> USE AgentAssumption DEF IInv, Types, KnownInv, Begun, ClaimInv, Holding, CountInv,
    CollectExpired, files, ledger, history, locals, bounds, Goto
<1>1. ASSUME NEW p \in Proc, NEW w \in Workspace, BeginAnalysis(p, w) \/ BeginCommand(p, w)
      PROVE CountInv'
  BY <1>1 DEF BeginAnalysis, BeginCommand
<1>2. ASSUME NEW p \in Proc, NEW s \in Session, OpenSession(p, s) PROVE CountInv'
  <2>1. Cardinality(Of(reports, s)) = 0
    <3>1. Of(reports, s) = {}
      BY <1>2 DEF OpenSession, Of
    <3> QED BY <3>1, FS_EmptySet
  <2>2. Cardinality(Of(twice, s)) \in Nat
    BY CountOneMore
  <2>3. \A q \in Proc : q # p => mine'[q] = mine[q] /\ pc'[q] = pc[q]
    BY <1>2 DEF OpenSession
  <2>4. pc'[p] = "mark" /\ open' \subseteq open \cup {s} /\ reports' = reports /\ twice' = twice
        /\ fails' = fails
    BY <1>2 DEF OpenSession
  <2> QED BY <2>1, <2>2, <2>3, <2>4
<1>3. ASSUME NEW p \in Proc, OpenRefused(p) PROVE CountInv'
  BY <1>3 DEF OpenRefused, Collect, Done
<1>4. ASSUME NEW p \in Proc, MarkStarted(p) PROVE CountInv'
  BY <1>4 DEF MarkStarted, Done
<1>5. ASSUME NEW p \in Proc, StartNotMarked(p) PROVE CountInv'
  BY <1>5 DEF StartNotMarked, Done
<1>6. ASSUME NEW p \in Proc, NEW s \in Session, VerifySession(p, s) \/ SubmitMap(p, s)
      PROVE CountInv'
  BY <1>6 DEF VerifySession, SubmitMap, Collect, Load
<1>7. ASSUME NEW p \in Proc, ReadPayload(p) PROVE CountInv'
  BY <1>7 DEF ReadPayload, Done, Processed
<1>8. ASSUME NEW p \in Proc, NEW s \in Session, SubmitAnalysis(p, s) PROVE CountInv'
  BY <1>8 DEF SubmitAnalysis
<1>9. ASSUME NEW p \in Proc, ClaimSession(p) PROVE CountInv'
  BY <1>9 DEF ClaimSession
<1>10. ASSUME NEW p \in Proc, ClaimRefused(p) PROVE CountInv'
  BY <1>10 DEF ClaimRefused, Collect, Done, Processed
<1>11. ASSUME NEW p \in Proc, ClaimExpired(p) PROVE CountInv'
  BY <1>11 DEF ClaimExpired, Done, Processed
<1>12. ASSUME NEW p \in Proc, CheckSubmission(p) PROVE CountInv'
  BY <1>12 DEF CheckSubmission
<1>13. ASSUME NEW p \in Proc, SubmissionRejected(p) PROVE CountInv'
  <2>1. GivesBack(p)
    BY <1>13, GiveBackEffect DEF SubmissionRejected
  <2> QED BY <1>13, <2>1 DEF SubmissionRejected, Done, Processed, GivesBack
<1>14. ASSUME NEW p \in Proc, RecordReport(p) PROVE CountInv'
  <2> DEFINE r == [session |-> mine[p], by |-> p, ws |-> ws[p], goals |-> seen[p],
                   approved |-> goals[ws[p]], nth |-> Cardinality(reports)]
  <2>1. reports' = reports \cup {r} /\ twice' = twice /\ fails' = fails /\ open' = open
        /\ mine' = mine /\ pc[p] = "record" /\ pc' = [pc EXCEPT ![p] = "rest"] /\ r.session = mine[p]
    BY <1>14 DEF RecordReport
  <2> HIDE DEF r
  <2>2. \A s \in Session :
           /\ Cardinality(Of(reports, s)) \in Nat /\ Cardinality(Of(reports', s)) \in Nat
           /\ Cardinality(Of(reports', s)) <= Cardinality(Of(reports, s)) + 1
           /\ s # mine[p] => Of(reports', s) = Of(reports, s)
    BY <2>1, CountOneMore
  <2>3. \A s \in Session : Cardinality(Of(twice, s)) \in Nat
    BY CountOneMore
  <2>4. Cardinality(Of(reports, mine[p])) <= Cardinality(Of(twice, mine[p])) /\ mine[p] \in Session
    BY <2>1
  <2>5. ASSUME NEW s \in Session
        PROVE  Cardinality(Of(reports', s)) <= 1 + Cardinality(Of(twice', s))
    <3>1. Cardinality(Of(reports, s)) <= 1 + Cardinality(Of(twice, s))
      OBVIOUS
    <3>2. CASE s = mine[p]
      BY ONLY <2>1, <2>2, <2>3, <2>4, <2>5, <3>2
    <3>3. CASE s # mine[p]
      BY ONLY <2>1, <2>2, <2>3, <2>5, <3>1, <3>3
    <3> QED BY <3>2, <3>3
  <2>6. \A s \in open' : Cardinality(Of(reports', s)) <= Cardinality(Of(twice', s))
    BY <2>1, <2>2
  <2>7. ASSUME NEW q \in Proc, pc'[q] \in {"check", "record"}
        PROVE  Cardinality(Of(reports', mine'[q])) <= Cardinality(Of(twice', mine'[q]))
    <3>1. pc[q] = pc'[q] /\ mine'[q] = mine[q] /\ mine[q] # mine[p] /\ mine[q] \in Session
      BY <2>1, <2>7
    <3> QED BY <2>1, <2>2, <2>7, <3>1
  <2> QED BY <2>1, <2>5, <2>6, <2>7
<1>15. ASSUME NEW p \in Proc, RecordRefused(p) PROVE CountInv'
  <2>1. GivesBack(p)
    BY <1>15, GiveBackEffect DEF RecordRefused
  <2> QED BY <1>15, <2>1 DEF RecordRefused, Done, Processed, GivesBack
<1>16. ASSUME NEW p \in Proc, RecordFails(p) PROVE CountInv'
  <2> DEFINE t == [session |-> mine[p], nth |-> fails]
  <2>1. twice' = twice \cup {t} /\ reports' = reports /\ t.session = mine[p] /\ t \notin twice
        /\ fails' = fails + 1 /\ pc[p] = "rest" /\ pc' = [pc EXCEPT ![p] = "idle"]
        /\ \A q \in Proc : q # p => mine'[q] = mine[q]
    BY <1>16 DEF RecordFails, Done
  <2>2. open' \subseteq open \cup {mine[p]}
    BY <1>16, GiveBackEffect DEF RecordFails, GivesBack
  <2>3. \A u \in twice' : u.nth < fails'
    BY <2>1
  <2> HIDE DEF t
  <2>4. \A s \in Session :
           /\ Cardinality(Of(twice, s)) \in Nat /\ Cardinality(Of(twice', s)) \in Nat
           /\ Cardinality(Of(twice, s)) <= Cardinality(Of(twice', s))
           /\ s = mine[p] => Cardinality(Of(twice', s)) = Cardinality(Of(twice, s)) + 1
    <3>1. IsFiniteSet(twice)
      OBVIOUS
    <3> QED BY ONLY <2>1, <3>1, CountOneMore
  <2>5. \A s \in Session : Cardinality(Of(reports, s)) \in Nat
    BY CountOneMore
  <2>6. ASSUME NEW s \in Session
        PROVE  /\ Cardinality(Of(reports', s)) <= 1 + Cardinality(Of(twice', s))
               /\ s = mine[p] => Cardinality(Of(reports', s)) <= Cardinality(Of(twice', s))
               /\ Cardinality(Of(reports, s)) <= Cardinality(Of(twice, s)) =>
                     Cardinality(Of(reports', s)) <= Cardinality(Of(twice', s))
    <3>1. Cardinality(Of(reports, s)) <= 1 + Cardinality(Of(twice, s))
      OBVIOUS
    <3>2. /\ Cardinality(Of(twice, s)) \in Nat /\ Cardinality(Of(twice', s)) \in Nat
          /\ Cardinality(Of(twice, s)) <= Cardinality(Of(twice', s))
          /\ s = mine[p] => Cardinality(Of(twice', s)) = Cardinality(Of(twice, s)) + 1
      BY <2>4
    <3>3. Cardinality(Of(reports', s)) = Cardinality(Of(reports, s)) /\ Cardinality(Of(reports, s)) \in Nat
      BY <2>1, <2>5
    <3> QED BY ONLY <3>1, <3>2, <3>3
  <2>7. \A s \in open' : Cardinality(Of(reports', s)) <= Cardinality(Of(twice', s))
    <3>1. \A s \in open' : s = mine[p] \/ Cardinality(Of(reports, s)) <= Cardinality(Of(twice, s))
      BY <2>2
    <3>2. open' \subseteq Session
      BY <2>1, <2>2
    <3> QED BY ONLY <2>6, <3>1, <3>2
  <2>8. ASSUME NEW q \in Proc, pc'[q] \in {"check", "record"}
        PROVE  Cardinality(Of(reports', mine'[q])) <= Cardinality(Of(twice', mine'[q]))
    <3>1. pc[q] = pc'[q] /\ mine'[q] = mine[q] /\ mine[q] \in Session
      BY <2>1, <2>8
    <3> QED BY <2>1, <2>4, <2>5, <2>8, <3>1
  <2> QED BY <2>3, <2>6, <2>7, <2>8
<1>17. ASSUME NEW p \in Proc, Commit(p) PROVE CountInv'
  BY <1>17 DEF Commit, Done, Processed
<1>18. ASSUME NEW p \in Proc, RecordMap(p) PROVE CountInv'
  BY <1>18 DEF RecordMap, Done, Processed
<1>19. ASSUME NEW p \in Proc, NoteAction(p) \/ Transfer(p) PROVE CountInv'
  BY <1>19 DEF NoteAction, Transfer
<1>20. ASSUME NEW w \in Workspace, ReplaceGoals(w) PROVE CountInv'
  BY <1>20 DEF ReplaceGoals
<1>21. ASSUME Tick PROVE CountInv'
  BY <1>21 DEF Tick
<1>22. ASSUME NEW p \in Proc, Crash(p) PROVE CountInv'
  BY <1>22 DEF Crash, Done
<1> QED BY <1>1, <1>2, <1>3, <1>4, <1>5, <1>6, <1>7, <1>8, <1>9, <1>10, <1>11, <1>12, <1>13,
    <1>14, <1>15, <1>16, <1>17, <1>18, <1>19, <1>20, <1>21, <1>22 DEF Next, Step

\* What a step may do to the sessions that agents were told of.
Held(s, p) == <<s, p>> \in claimed /\ mine[p] = s /\ pc[p] \in Holding
KeepsSessions ==
    /\ \A s \in returned' \ returned : s \in open' \/ Expired(s)'
    /\ \A s \in returned : Expired(s) => Expired(s)'
    /\ \A s \in open \cap returned : s \in open' \/ Expired(s)' \/ \E p \in Proc : Held(s, p)'
    /\ spent \subseteq spent' /\ orphan \subseteq orphan'
    /\ \A s \in returned, p \in Proc :
          Held(s, p) => Held(s, p)' \/ Expired(s)' \/ s \in open' \cup spent' \cup orphan'

(* A file leaves its path for a claim or because it expired, and a claim    *)
(* ends in the file, in a report or in the death of its process.            *)
LEMMA KeepStep ==
  ASSUME IInv, Next
  PROVE  KeepsSessions
<1> USE AgentAssumption DEF IInv, Types, KnownInv, Begun, PlaceInv, Named, Holding, MarkInv,
    KeepsSessions, Held, Expired, CollectExpired, files, ledger, history, locals, bounds, Goto
<1>1. ASSUME NEW p \in Proc, NEW w \in Workspace, BeginAnalysis(p, w) \/ BeginCommand(p, w)
      PROVE KeepsSessions
  BY <1>1 DEF BeginAnalysis, BeginCommand
<1>2. ASSUME NEW p \in Proc, NEW s \in Session, OpenSession(p, s) PROVE KeepsSessions
  BY <1>2 DEF OpenSession
<1>3. ASSUME NEW p \in Proc, OpenRefused(p) PROVE KeepsSessions
  BY <1>3 DEF OpenRefused, Collect, Done
<1>4. ASSUME NEW p \in Proc, MarkStarted(p) PROVE KeepsSessions
  BY <1>4 DEF MarkStarted, Done
<1>5. ASSUME NEW p \in Proc, StartNotMarked(p) PROVE KeepsSessions
  BY <1>5 DEF StartNotMarked, Done
<1>6. ASSUME NEW p \in Proc, NEW s \in Session, VerifySession(p, s) \/ SubmitMap(p, s)
      PROVE KeepsSessions
  BY <1>6 DEF VerifySession, SubmitMap, Collect, Load
<1>7. ASSUME NEW p \in Proc, ReadPayload(p) PROVE KeepsSessions
  BY <1>7 DEF ReadPayload, Done, Processed
<1>8. ASSUME NEW p \in Proc, NEW s \in Session, SubmitAnalysis(p, s) PROVE KeepsSessions
  BY <1>8 DEF SubmitAnalysis
<1>9. ASSUME NEW p \in Proc, ClaimSession(p) PROVE KeepsSessions
  BY <1>9 DEF ClaimSession
<1>10. ASSUME NEW p \in Proc, ClaimRefused(p) PROVE KeepsSessions
  BY <1>10 DEF ClaimRefused, Collect, Done, Processed
<1>11. ASSUME NEW p \in Proc, ClaimExpired(p) PROVE KeepsSessions
  BY <1>11 DEF ClaimExpired, Done, Processed
<1>12. ASSUME NEW p \in Proc, CheckSubmission(p) PROVE KeepsSessions
  BY <1>12 DEF CheckSubmission
<1>13. ASSUME NEW p \in Proc, SubmissionRejected(p) PROVE KeepsSessions
  <2>1. GivesBack(p)
    BY <1>13, GiveBackEffect DEF SubmissionRejected
  <2> QED BY <1>13, <2>1 DEF SubmissionRejected, Done, Processed, GivesBack
<1>14. ASSUME NEW p \in Proc, RecordReport(p) PROVE KeepsSessions
  BY <1>14 DEF RecordReport
<1>15. ASSUME NEW p \in Proc, RecordRefused(p) PROVE KeepsSessions
  <2>1. GivesBack(p)
    BY <1>15, GiveBackEffect DEF RecordRefused
  <2> QED BY <1>15, <2>1 DEF RecordRefused, Done, Processed, GivesBack
<1>16. ASSUME NEW p \in Proc, RecordFails(p) PROVE KeepsSessions
  <2>1. GivesBack(p)
    BY <1>16, GiveBackEffect DEF RecordFails
  <2> QED BY <1>16, <2>1 DEF RecordFails, Done, Processed, GivesBack
<1>17. ASSUME NEW p \in Proc, Commit(p) PROVE KeepsSessions
  BY <1>17 DEF Commit, Done, Processed
<1>18. ASSUME NEW p \in Proc, RecordMap(p) PROVE KeepsSessions
  BY <1>18 DEF RecordMap, Done, Processed
<1>19. ASSUME NEW p \in Proc, NoteAction(p) \/ Transfer(p) PROVE KeepsSessions
  BY <1>19 DEF NoteAction, Transfer
<1>20. ASSUME NEW w \in Workspace, ReplaceGoals(w) PROVE KeepsSessions
  BY <1>20 DEF ReplaceGoals
<1>21. ASSUME Tick PROVE KeepsSessions
  BY <1>21 DEF Tick, Body
<1>22. ASSUME NEW p \in Proc, Crash(p) PROVE KeepsSessions
  BY <1>22 DEF Crash, Done
<1> QED BY <1>1, <1>2, <1>3, <1>4, <1>5, <1>6, <1>7, <1>8, <1>9, <1>10, <1>11, <1>12, <1>13,
    <1>14, <1>15, <1>16, <1>17, <1>18, <1>19, <1>20, <1>21, <1>22 DEF Next, Step

(* No step takes a session away before it expires.                          *)
LEMMA NotLostStep ==
  ASSUME IInv, Next
  PROVE  SessionNotLost'
<1> DEFINE Kept(s) == Expired(s) \/ s \in open \cup spent \cup orphan \/ \E p \in Proc : Held(s, p)
<1>1. \A s \in returned : Kept(s)
  BY DEF IInv, SessionNotLost, Held, Holding
<1>2. ASSUME NEW s \in returned' PROVE Kept(s)'
  <2>1. CASE s \in returned
    BY <1>1, <2>1, KeepStep DEF KeepsSessions
  <2>2. CASE s \notin returned
    BY <1>2, <2>2, KeepStep DEF KeepsSessions
  <2> QED BY <2>1, <2>2
<1> QED BY <1>2 DEF SessionNotLost, Held, Holding

(* A report is recorded for the session its process claimed.                *)
LEMMA FollowStep ==
  ASSUME IInv, Next
  PROVE  ReportsFollowSessions'
<1> USE AgentAssumption DEF IInv, Types, KnownInv, Begun, PlaceInv, Named, Holding,
    ReportsFollowSessions, files, ledger, history, locals, bounds, Goto
<1>1. ASSUME NEW p \in Proc, NEW w \in Workspace, BeginAnalysis(p, w) \/ BeginCommand(p, w)
      PROVE ReportsFollowSessions'
  BY <1>1 DEF BeginAnalysis, BeginCommand
<1>2. ASSUME NEW p \in Proc, NEW s \in Session, OpenSession(p, s) PROVE ReportsFollowSessions'
  BY <1>2 DEF OpenSession
<1>3. ASSUME NEW p \in Proc, OpenRefused(p) PROVE ReportsFollowSessions'
  BY <1>3 DEF OpenRefused, Collect, Done
<1>4. ASSUME NEW p \in Proc, MarkStarted(p) PROVE ReportsFollowSessions'
  BY <1>4 DEF MarkStarted, Done
<1>5. ASSUME NEW p \in Proc, StartNotMarked(p) PROVE ReportsFollowSessions'
  BY <1>5 DEF StartNotMarked, Done
<1>6. ASSUME NEW p \in Proc, NEW s \in Session, VerifySession(p, s) \/ SubmitMap(p, s)
      PROVE ReportsFollowSessions'
  BY <1>6 DEF VerifySession, SubmitMap, Collect, Load
<1>7. ASSUME NEW p \in Proc, ReadPayload(p) PROVE ReportsFollowSessions'
  BY <1>7 DEF ReadPayload, Done, Processed
<1>8. ASSUME NEW p \in Proc, NEW s \in Session, SubmitAnalysis(p, s) PROVE ReportsFollowSessions'
  BY <1>8 DEF SubmitAnalysis
<1>9. ASSUME NEW p \in Proc, ClaimSession(p) PROVE ReportsFollowSessions'
  BY <1>9 DEF ClaimSession
<1>10. ASSUME NEW p \in Proc, ClaimRefused(p) PROVE ReportsFollowSessions'
  BY <1>10 DEF ClaimRefused, Collect, Done, Processed
<1>11. ASSUME NEW p \in Proc, ClaimExpired(p) PROVE ReportsFollowSessions'
  BY <1>11 DEF ClaimExpired, Done, Processed
<1>12. ASSUME NEW p \in Proc, CheckSubmission(p) PROVE ReportsFollowSessions'
  BY <1>12 DEF CheckSubmission
<1>13. ASSUME NEW p \in Proc, SubmissionRejected(p) PROVE ReportsFollowSessions'
  <2>1. GivesBack(p)
    BY <1>13, GiveBackEffect DEF SubmissionRejected
  <2> QED BY <1>13, <2>1 DEF SubmissionRejected, Done, Processed, GivesBack
<1>14. ASSUME NEW p \in Proc, RecordReport(p) PROVE ReportsFollowSessions'
  BY <1>14 DEF RecordReport
<1>15. ASSUME NEW p \in Proc, RecordRefused(p) PROVE ReportsFollowSessions'
  <2>1. GivesBack(p)
    BY <1>15, GiveBackEffect DEF RecordRefused
  <2> QED BY <1>15, <2>1 DEF RecordRefused, Done, Processed, GivesBack
<1>16. ASSUME NEW p \in Proc, RecordFails(p) PROVE ReportsFollowSessions'
  <2>1. GivesBack(p)
    BY <1>16, GiveBackEffect DEF RecordFails
  <2> QED BY <1>16, <2>1 DEF RecordFails, Done, Processed, GivesBack
<1>17. ASSUME NEW p \in Proc, Commit(p) PROVE ReportsFollowSessions'
  BY <1>17 DEF Commit, Done, Processed
<1>18. ASSUME NEW p \in Proc, RecordMap(p) PROVE ReportsFollowSessions'
  BY <1>18 DEF RecordMap, Done, Processed
<1>19. ASSUME NEW p \in Proc, NoteAction(p) \/ Transfer(p) PROVE ReportsFollowSessions'
  BY <1>19 DEF NoteAction, Transfer
<1>20. ASSUME NEW w \in Workspace, ReplaceGoals(w) PROVE ReportsFollowSessions'
  BY <1>20 DEF ReplaceGoals
<1>21. ASSUME Tick PROVE ReportsFollowSessions'
  BY <1>21 DEF Tick
<1>22. ASSUME NEW p \in Proc, Crash(p) PROVE ReportsFollowSessions'
  BY <1>22 DEF Crash, Done
<1> QED BY <1>1, <1>2, <1>3, <1>4, <1>5, <1>6, <1>7, <1>8, <1>9, <1>10, <1>11, <1>12, <1>13,
    <1>14, <1>15, <1>16, <1>17, <1>18, <1>19, <1>20, <1>21, <1>22 DEF Next, Step

(* What goes back to its path is a session that an agent named.             *)
LEMMA RetractedStep ==
  ASSUME IInv, Next
  PROVE  RetractedUnmarked'
<1> USE AgentAssumption DEF IInv, Types, PlaceInv, Named, Holding, RetractedUnmarked,
    CollectExpired, files, ledger, history, locals, bounds, Goto
<1>1. ASSUME NEW p \in Proc, NEW w \in Workspace, BeginAnalysis(p, w) \/ BeginCommand(p, w)
      PROVE RetractedUnmarked'
  BY <1>1 DEF BeginAnalysis, BeginCommand
<1>2. ASSUME NEW p \in Proc, NEW s \in Session, OpenSession(p, s) PROVE RetractedUnmarked'
  BY <1>2 DEF OpenSession
<1>3. ASSUME NEW p \in Proc, OpenRefused(p) PROVE RetractedUnmarked'
  BY <1>3 DEF OpenRefused, Collect, Done
<1>4. ASSUME NEW p \in Proc, MarkStarted(p) PROVE RetractedUnmarked'
  BY <1>4 DEF MarkStarted, Done
<1>5. ASSUME NEW p \in Proc, StartNotMarked(p) PROVE RetractedUnmarked'
  BY <1>5 DEF StartNotMarked, Done
<1>6. ASSUME NEW p \in Proc, NEW s \in Session, VerifySession(p, s) \/ SubmitMap(p, s)
      PROVE RetractedUnmarked'
  BY <1>6 DEF VerifySession, SubmitMap, Collect, Load
<1>7. ASSUME NEW p \in Proc, ReadPayload(p) PROVE RetractedUnmarked'
  BY <1>7 DEF ReadPayload, Done, Processed
<1>8. ASSUME NEW p \in Proc, NEW s \in Session, SubmitAnalysis(p, s) PROVE RetractedUnmarked'
  BY <1>8 DEF SubmitAnalysis
<1>9. ASSUME NEW p \in Proc, ClaimSession(p) PROVE RetractedUnmarked'
  BY <1>9 DEF ClaimSession
<1>10. ASSUME NEW p \in Proc, ClaimRefused(p) PROVE RetractedUnmarked'
  BY <1>10 DEF ClaimRefused, Collect, Done, Processed
<1>11. ASSUME NEW p \in Proc, ClaimExpired(p) PROVE RetractedUnmarked'
  BY <1>11 DEF ClaimExpired, Done, Processed
<1>12. ASSUME NEW p \in Proc, CheckSubmission(p) PROVE RetractedUnmarked'
  BY <1>12 DEF CheckSubmission
<1>13. ASSUME NEW p \in Proc, SubmissionRejected(p) PROVE RetractedUnmarked'
  <2>1. GivesBack(p)
    BY <1>13, GiveBackEffect DEF SubmissionRejected
  <2> QED BY <1>13, <2>1 DEF SubmissionRejected, Done, Processed, GivesBack
<1>14. ASSUME NEW p \in Proc, RecordReport(p) PROVE RetractedUnmarked'
  BY <1>14 DEF RecordReport
<1>15. ASSUME NEW p \in Proc, RecordRefused(p) PROVE RetractedUnmarked'
  <2>1. GivesBack(p)
    BY <1>15, GiveBackEffect DEF RecordRefused
  <2> QED BY <1>15, <2>1 DEF RecordRefused, Done, Processed, GivesBack
<1>16. ASSUME NEW p \in Proc, RecordFails(p) PROVE RetractedUnmarked'
  <2>1. GivesBack(p)
    BY <1>16, GiveBackEffect DEF RecordFails
  <2> QED BY <1>16, <2>1 DEF RecordFails, Done, Processed, GivesBack
<1>17. ASSUME NEW p \in Proc, Commit(p) PROVE RetractedUnmarked'
  BY <1>17 DEF Commit, Done, Processed
<1>18. ASSUME NEW p \in Proc, RecordMap(p) PROVE RetractedUnmarked'
  BY <1>18 DEF RecordMap, Done, Processed
<1>19. ASSUME NEW p \in Proc, NoteAction(p) \/ Transfer(p) PROVE RetractedUnmarked'
  BY <1>19 DEF NoteAction, Transfer
<1>20. ASSUME NEW w \in Workspace, ReplaceGoals(w) PROVE RetractedUnmarked'
  BY <1>20 DEF ReplaceGoals
<1>21. ASSUME Tick PROVE RetractedUnmarked'
  BY <1>21 DEF Tick
<1>22. ASSUME NEW p \in Proc, Crash(p) PROVE RetractedUnmarked'
  BY <1>22 DEF Crash, Done
<1> QED BY <1>1, <1>2, <1>3, <1>4, <1>5, <1>6, <1>7, <1>8, <1>9, <1>10, <1>11, <1>12, <1>13,
    <1>14, <1>15, <1>16, <1>17, <1>18, <1>19, <1>20, <1>21, <1>22 DEF Next, Step

-----------------------------------------------------------------------------
(* Every step keeps the inductive invariant.                                *)
LEMMA Inductive == IInv /\ [Next]_vars => IInv'
<1> SUFFICES ASSUME IInv, [Next]_vars PROVE IInv'
  OBVIOUS
<1>1. CASE Next
  BY <1>1, TypeStep, KnownStep, PlaceStep, MarkStep, ClaimStep, CountStep, NotLostStep, FollowStep,
     RetractedStep DEF IInv
<1>2. CASE UNCHANGED vars
  <2> USE <1>2 DEF vars, IInv
  <2>1. Types'
    BY DEF Types
  <2>2. KnownInv' /\ PlaceInv'
    BY DEF KnownInv, Begun, PlaceInv
  <2>3. MarkInv' /\ ClaimInv'
    BY DEF MarkInv, ClaimInv, Expired
  <2>4. CountInv'
    BY DEF CountInv
  <2>5. SessionNotLost'
    BY DEF SessionNotLost, Expired
  <2>6. ReportsFollowSessions' /\ RetractedUnmarked'
    BY DEF ReportsFollowSessions, RetractedUnmarked
  <2> QED BY <2>1, <2>2, <2>3, <2>4, <2>5, <2>6
<1> QED BY <1>1, <1>2

(* The inductive invariant holds in every reachable state.                  *)
LEMMA Invariant == Spec => []IInv
BY InitIInv, Inductive, PTL DEF Spec

(* agent_gateway.rs, claim_session and ClaimedSession, for any number of    *)
(* agents: a session an agent was told of is not lost before it expires,    *)
(* except with a process that dies while it holds the claim.                *)
THEOREM SessionsAreKept == Spec => []SessionNotLost
<1>1. IInv => SessionNotLost
  BY DEF IInv
<1> QED BY <1>1, Invariant, PTL

(* submit_analysis: a session leads to one report, and to one more only for *)
(* every submission that failed after its report was in the ledger.         *)
THEOREM OneReportPerSession == Spec => []ReportedOnce
<1>1. IInv => ReportedOnce
  BY ReportedOnceOf DEF IInv, CountInv
<1> QED BY <1>1, Invariant, PTL

(* submit_analysis and record_report_with_repositories: a report is about   *)
(* the goals its session began with, which were still the approved ones.    *)
THEOREM ReportsMatchSessions == Spec => []ReportsFollowSessions
<1>1. IInv => ReportsFollowSessions
  BY DEF IInv
<1> QED BY <1>1, Invariant, PTL

(* open_session: the file of a session no agent was told of is retracted,   *)
(* unless a process died.                                                   *)
THEOREM UnmarkedIsRetracted == Spec => []RetractedUnmarked
<1>1. IInv => RetractedUnmarked
  BY DEF IInv
<1> QED BY <1>1, Invariant, PTL
=============================================================================
